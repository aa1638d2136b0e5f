----------------------- MODULE NoncePartition_proofs -----------------------
(***************************************************************************)
(* Facts about numbers that several proofs need: induction over sets of    *)
(* natural numbers and the functions that recursion on them defines, and   *)
(* quotients and remainders; and what split_nonce_space gives, for every   *)
(* nonce space and worker count.                                           *)
(***************************************************************************)
EXTENDS NoncePartition, FiniteSetsExt, WellFoundedInduction, TLAPS

-----------------------------------------------------------------------------
(* Induction.  The library's theorem takes an operator, which the provers  *)
(* cannot instantiate.  A set can be: the numbers with a property are one, *)
(* and < is well founded.                                                  *)

\* A smaller number is a predecessor in the relation of the library.
LEMMA SmallerIsBefore ==
  ASSUME NEW x \in Nat, NEW y \in Nat, y < x
  PROVE  <<y, x>> \in OpToRel(<, Nat)
BY DEF OpToRel

\* A set with 0 and with the successor of each number in it has them all.
LEMMA EveryNumber ==
  ASSUME NEW S, 0 \in S, \A n \in Nat : n \in S => n + 1 \in S
  PROVE  Nat \subseteq S
<1> DEFINE T == Nat \ S
<1> SUFFICES ASSUME T # {} PROVE FALSE
  OBVIOUS
<1>1. PICK x \in T : \A y \in T : <<y, x>> \notin OpToRel(<, Nat)
  <2>1. T \subseteq Nat
    OBVIOUS
  <2> HIDE DEF T
  <2> QED BY <2>1, WFMin, NatLessThanWellFounded
<1>2. x - 1 \in Nat /\ x - 1 < x
  OBVIOUS
<1>3. x - 1 \notin T
  BY <1>1, <1>2, SmallerIsBefore
<1> QED BY <1>2, <1>3

\* The same up to a bound.
LEMMA UpTo ==
  ASSUME NEW n \in Nat, NEW S,
         0 \in S, \A k \in 0 .. n-1 : k \in S => k + 1 \in S
  PROVE  0..n \subseteq S
<1> DEFINE R == {k \in Nat : k <= n => k \in S}
<1>1. 0 \in R
  OBVIOUS
<1>2. \A k \in Nat : k \in R => k + 1 \in R
  OBVIOUS
<1>3. Nat \subseteq R
  <2> HIDE DEF R
  <2> QED BY <1>1, <1>2, EveryNumber
<1> QED BY <1>3

\* What f is when it begins with base and goes on by step.
Iterates(f, n, T, base, step) ==
  /\ f \in [0..n -> T] /\ f[0] = base
  /\ \A k \in 1..n : f[k] = step[k][f[k - 1]]

\* There is such a function.
LEMMA Iteration ==
  ASSUME NEW n \in Nat, NEW T, NEW base \in T, NEW step \in [1..n -> [T -> T]]
  PROVE  \E f : Iterates(f, n, T, base, step)
<1> DEFINE S == {m \in 0..n : \E f : Iterates(f, m, T, base, step)}
<1>1. 0 \in S
  <2>1. Iterates([k \in 0..0 |-> base], 0, T, base, step)
    BY DEF Iterates
  <2> QED BY <2>1
<1>2. ASSUME NEW m \in 0 .. n-1, m \in S PROVE m + 1 \in S
  <2>1. PICK f : Iterates(f, m, T, base, step)
    BY <1>2
  <2> DEFINE g == [k \in 0 .. m + 1 |-> IF k = m + 1 THEN step[m + 1][f[m]] ELSE f[k]]
  <2>2. f \in [0..m -> T] /\ step[m + 1] \in [T -> T]
    BY <2>1 DEF Iterates
  <2>3. step[m + 1][f[m]] \in T
    BY <2>2
  <2>4. g \in [0 .. m + 1 -> T]
    BY <2>2, <2>3
  <2>5. g[0] = base
    BY <2>1 DEF Iterates
  <2>6. \A k \in 1 .. m + 1 : g[k] = step[k][g[k - 1]]
    <3> TAKE k \in 1 .. m + 1
    <3>1. CASE k = m + 1
      BY <3>1
    <3>2. CASE k # m + 1
      BY <3>2, <2>1 DEF Iterates
    <3> QED BY <3>1, <3>2
  <2>7. Iterates(g, m + 1, T, base, step)
    <3> HIDE DEF g
    <3> QED BY <2>4, <2>5, <2>6 DEF Iterates
  <2> HIDE DEF g
  <2> QED BY <2>7
<1>3. 0..n \subseteq S
  <2> HIDE DEF S
  <2> QED BY <1>1, <1>2, UpTo
<1> QED BY <1>3

-----------------------------------------------------------------------------
(* Quotients, remainders and multiples.                                    *)

\* A quotient and a remainder.
LEMMA Divided ==
  ASSUME NEW n \in Nat \ {0}, NEW i \in Nat
  PROVE  i = n * (i \div n) + (i % n) /\ i \div n \in Nat /\ i % n \in 0 .. n-1
OBVIOUS

\* A multiple of n is n at least.
LEMMA Multiple ==
  ASSUME NEW n \in Nat \ {0}, NEW x \in Int, x >= 1
  PROVE  n * x >= n
OBVIOUS

\* Multiples less than n apart are equal.
LEMMA MultiplesApart ==
  ASSUME NEW n \in Nat \ {0}, NEW x \in Int, NEW y \in Int,
         n * x - n * y < n, n * y - n * x < n
  PROVE  x = y
<1>1. x - y \in Int /\ y - x \in Int
  OBVIOUS
<1>2. n * (x - y) = n * x - n * y /\ n * (y - x) = n * y - n * x
  OBVIOUS
<1>3. ~(x - y >= 1)
  BY <1>1, <1>2, Multiple
<1>4. ~(y - x >= 1)
  BY <1>1, <1>2, Multiple
<1> QED
  BY <1>3, <1>4

\* The remainder is the only one.
LEMMA Remainder ==
  ASSUME NEW n \in Nat \ {0}, NEW i \in Nat, NEW q \in Int, NEW r \in 0 .. n-1, i = n * q + r
  PROVE  i % n = r /\ i \div n = q
<1> DEFINE d == i \div n
           m == i % n
<1>1. i = n * d + m /\ d \in Nat /\ m \in 0 .. n-1
  BY Divided
<1> HIDE DEF d, m
<1>2. d = q
  <2>1. n * d - n * q < n /\ n * q - n * d < n
    BY <1>1
  <2> QED
    BY <1>1, <2>1, MultiplesApart
<1>3. m = r
  BY <1>1, <1>2
<1> QED
  BY <1>2, <1>3 DEF d, m

\* A step of n keeps it.
LEMMA StepKeeps ==
  ASSUME NEW n \in Nat \ {0}, NEW i \in Nat
  PROVE  (i + n) % n = i % n
<1> DEFINE d == i \div n
           m == i % n
           j == i + n
<1>1. i = n * d + m /\ d \in Nat /\ m \in 0 .. n-1
  BY Divided
<1> HIDE DEF d, m
<1>2. j = n * (d + 1) + m /\ d + 1 \in Int /\ j \in Nat
  BY <1>1
<1> HIDE DEF j
<1>3. j % n = m
  BY <1>1, <1>2, Remainder
<1> QED
  BY <1>3 DEF m, j

\* Of two numbers with one remainder the larger is a step of n away at least.
LEMMA NextInStep ==
  ASSUME NEW n \in Nat \ {0}, NEW a \in Nat, NEW b \in Nat, a % n = b % n, a < b
  PROVE  a + n <= b
<1> DEFINE d == a \div n
           m == a % n
           e == b \div n
           r == b % n
<1>1. a = n * d + m /\ d \in Nat /\ m \in 0 .. n-1
  BY Divided
<1>2. b = n * e + r /\ e \in Nat /\ r \in 0 .. n-1
  BY Divided
<1>3. m = r
  OBVIOUS
<1> HIDE DEF d, m, e, r
<1>4. n * d < n * e
  BY <1>1, <1>2, <1>3
<1>5. e - d >= 1
  BY <1>1, <1>2, <1>4
<1>6. n * (e - d) >= n
  BY <1>1, <1>2, <1>5, Multiple
<1>7. n * (e - d) = n * e - n * d
  BY <1>1, <1>2
<1> QED
  BY <1>1, <1>2, <1>3, <1>6, <1>7

\* The least and the greatest of two numbers.
LEMMA MinOfTwo ==
  ASSUME NEW a \in Int, NEW b \in Int
  PROVE  Min({a, b}) = IF a <= b THEN a ELSE b
BY DEF Min

\* The larger of two.
LEMMA MaxOfTwo ==
  ASSUME NEW a \in Int, NEW b \in Int
  PROVE  Max({a, b}) = IF a >= b THEN a ELSE b
BY DEF Max

-----------------------------------------------------------------------------
(* The nonce ranges.                                                       *)

\* The quotient of a division by a positive number is at most x exactly when
\* the dividend is below (x + 1) times the divisor.
LEMMA QuotientAtMost ==
  ASSUME NEW a \in Nat, NEW n \in Nat \ {0}, NEW x \in Nat
  PROVE  (a \div n <= x) <=> (a < (x + 1) * n)
<1> DEFINE q == a \div n
<1>1. /\ q \in Nat
      /\ n * q <= a
      /\ a < n * (q + 1)
  BY SMTT(30)
<1>2. CASE q <= x
  <2>1. n * (q + 1) <= n * (x + 1)
    BY <1>1, <1>2, SMTT(30)
  <2> QED BY <1>1, <1>2, <2>1, SMTT(30)
<1>3. CASE q > x
  <2>1. n * (x + 1) <= n * q
    BY <1>1, <1>3, SMTT(30)
  <2> QED BY <1>1, <1>3, <2>1, SMTT(30)
<1> QED BY <1>1, <1>2, <1>3

\* A cut is at most x exactly when its index, scaled, is below x + 1.
LEMMA CutAtMost ==
  ASSUME NEW n \in Nat \ {0}, NEW k \in 0..n, NEW x \in Nat
  PROVE  (Cut(k, n) <= x) <=> (NonceSpace * k < (x + 1) * n)
<1>1. NonceSpace * k \in Nat
  BY NonceSpaceAssumption
<1> QED BY <1>1, QuotientAtMost DEF Cut

\* The cuts rise from 0 to NonceSpace.
LEMMA CutsRise ==
  ASSUME NEW n \in Nat \ {0}
  PROVE  /\ Cut(0, n) = 0
         /\ Cut(n, n) = NonceSpace
         /\ \A k \in 0..n : Cut(k, n) \in Nat
         /\ \A k, j \in 0..n : k <= j => Cut(k, n) <= Cut(j, n)
<1>1. \A k \in 0..n : Cut(k, n) \in Nat
  <2> TAKE k \in 0..n
  <2>1. NonceSpace * k \in Nat
    BY NonceSpaceAssumption
  <2> QED BY <2>1, SMTT(30) DEF Cut
<1>2. Cut(0, n) = 0
  BY NonceSpaceAssumption, SMTT(30) DEF Cut
<1>3. Cut(n, n) = NonceSpace
  <2>1. Cut(n, n) <= NonceSpace
    <3>1. NonceSpace * n < (NonceSpace + 1) * n
      BY NonceSpaceAssumption, SMTT(30)
    <3> QED BY <3>1, CutAtMost, NonceSpaceAssumption
  <2>2. ~(Cut(n, n) <= NonceSpace - 1)
    <3>1. ~(NonceSpace * n < ((NonceSpace - 1) + 1) * n)
      BY NonceSpaceAssumption, SMTT(30)
    <3> QED BY <3>1, CutAtMost, NonceSpaceAssumption
  <2> QED BY <1>1, <2>1, <2>2, NonceSpaceAssumption
<1>4. ASSUME NEW k \in 0..n, NEW j \in 0..n, k <= j
      PROVE  Cut(k, n) <= Cut(j, n)
  <2> DEFINE x == Cut(j, n)
  <2>1. x \in Nat
    BY <1>1
  <2>2. NonceSpace * j < (x + 1) * n
    BY <2>1, CutAtMost
  <2>3. NonceSpace * k <= NonceSpace * j
    BY <1>4, NonceSpaceAssumption, SMTT(30)
  <2>4. NonceSpace * k < (x + 1) * n
    <3>1. /\ NonceSpace * k \in Nat /\ NonceSpace * j \in Nat
          /\ (x + 1) * n \in Nat
      BY <2>1, NonceSpaceAssumption, SMTT(30)
    <3> QED BY <3>1, <2>2, <2>3
  <2> QED BY <2>1, <2>4, CutAtMost
<1> QED BY <1>1, <1>2, <1>3, <1>4

\* The range of a worker, in terms of the cuts.
LEMMA RangeOfWorker ==
  ASSUME NEW n \in Nat \ {0}, NEW k \in 0..n-1
  PROVE  /\ split_nonce_space(k, n).start = Cut(k, n)
         /\ split_nonce_space(k, n).size = Cut(k + 1, n) - Cut(k, n)
         /\ NoncesOf(split_nonce_space(k, n)) = Cut(k, n) .. Cut(k + 1, n) - 1
<1>1. /\ Cut(k, n) \in Nat
      /\ Cut(k + 1, n) \in Nat
  BY CutsRise
<1> QED BY <1>1 DEF split_nonce_space, Clamped, NoncesOf

\* The ranges of the workers follow each other without a gap from the first
\* nonce to the last, as tests/test_nonce_partition.cpp checks for 4 workers.
THEOREM RangesMeet ==
  ASSUME NEW n \in Nat \ {0}, NEW k \in 0..n-1
  PROVE  LET r == split_nonce_space(k, n)
         IN  /\ r.start \in Nat /\ r.size \in Nat
             /\ k = 0 => r.start = 0
             /\ r.start + r.size =
                  IF k + 1 < n THEN split_nonce_space(k + 1, n).start
                               ELSE NonceSpace
<1>1. /\ Cut(k, n) \in Nat /\ Cut(k + 1, n) \in Nat
      /\ Cut(k, n) <= Cut(k + 1, n)
      /\ Cut(0, n) = 0 /\ Cut(n, n) = NonceSpace
  BY CutsRise
<1>2. k + 1 < n => split_nonce_space(k + 1, n).start = Cut(k + 1, n)
  BY RangeOfWorker
<1>3. ~(k + 1 < n) => k + 1 = n
  OBVIOUS
<1> QED BY <1>1, <1>2, <1>3, RangeOfWorker

\* Every nonce is in the range of exactly one worker: no two devices ever
\* hash the same nonce of a header, and none is left out.
THEOREM EveryNonceHasOneWorker ==
  ASSUME NEW n \in Nat \ {0}, NEW x \in 0..NonceSpace-1
  PROVE  \E k \in 0..n-1 :
           \A j \in 0..n-1 :
             (x \in NoncesOf(split_nonce_space(j, n))) <=> (k = j)
<1> DEFINE k == ((x + 1) * n - 1) \div NonceSpace
<1>1. (x + 1) * n - 1 \in Nat
  BY SMTT(30)
<1>2. /\ k \in Nat
      /\ NonceSpace * k < (x + 1) * n
      /\ ~(NonceSpace * (k + 1) < (x + 1) * n)
  BY <1>1, NonceSpaceAssumption, SMTT(30)
<1>3. k < n
  <2>1. (x + 1) * n <= NonceSpace * n
    BY NonceSpaceAssumption, SMTT(30)
  <2>2. NonceSpace * k < NonceSpace * n
    BY <1>2, <2>1, NonceSpaceAssumption, SMTT(30)
  <2> QED BY <1>2, <2>2, NonceSpaceAssumption, SMTT(30)
<1>4. /\ Cut(k, n) <= x
      /\ ~(Cut(k + 1, n) <= x)
  <2>1. k \in 0..n /\ k + 1 \in 0..n /\ x \in Nat
    BY <1>2, <1>3, NonceSpaceAssumption
  <2> QED BY <1>2, <2>1, CutAtMost
<1>5. \A j \in 0..n-1 : (x \in NoncesOf(split_nonce_space(j, n))) <=> (k = j)
  <2> HIDE DEF k
  <2> TAKE j \in 0..n-1
  <2>1. /\ k \in 0..n /\ k + 1 \in 0..n /\ j \in 0..n /\ j + 1 \in 0..n
        /\ x \in Nat
    BY <1>2, <1>3, NonceSpaceAssumption
  <2>2. /\ Cut(k, n) \in Nat /\ Cut(k + 1, n) \in Nat
        /\ Cut(j, n) \in Nat /\ Cut(j + 1, n) \in Nat
    BY <2>1, CutsRise
  <2>3. (x \in NoncesOf(split_nonce_space(j, n)))
          <=> (Cut(j, n) <= x /\ x < Cut(j + 1, n))
    BY <2>1, <2>2, RangeOfWorker
  <2>4. CASE j < k
    <3>1. Cut(j + 1, n) <= Cut(k, n)
      BY <2>1, <2>4, CutsRise
    <3> QED BY <1>4, <2>1, <2>2, <2>3, <2>4, <3>1
  <2>5. CASE j > k
    <3>1. Cut(k + 1, n) <= Cut(j, n)
      BY <2>1, <2>5, CutsRise
    <3> QED BY <1>4, <2>1, <2>2, <2>3, <2>5, <3>1
  <2>6. CASE j = k
    BY <1>4, <2>1, <2>2, <2>3, <2>6
  <2> QED BY <2>1, <2>4, <2>5, <2>6
<1>6. k \in 0..n-1
  BY <1>2, <1>3
<1> HIDE DEF k
<1> QED BY <1>5, <1>6

\* A range of the partition has a nonce when there are no more workers than
\* nonces.
LEMMA RangeNotEmpty ==
  ASSUME NEW n \in Nat \ {0}, n <= NonceSpace, NEW index \in Nat
  PROVE  split_nonce_space(index, n).size \in Nat \ {0}
<1> DEFINE j == Clamped(index, n)
           x == Cut(j, n)
           y == Cut(j + 1, n)
<1>1. j \in 0 .. n-1
  BY DEF Clamped
<1>2. split_nonce_space(index, n).size = y - x
  BY DEF split_nonce_space
<1> HIDE DEF j
<1>3. x \in Nat /\ y \in Nat
  BY <1>1, CutsRise
<1>4. (y <= x) <=> NonceSpace * (j + 1) < (x + 1) * n
  <2>1. j + 1 \in 0..n
    BY <1>1
  <2> QED BY <1>3, <2>1, CutAtMost
<1>5. x > 0 => ~(NonceSpace * j < ((x - 1) + 1) * n)
  BY <1>1, <1>3, CutAtMost
<1> HIDE DEF x, y
<1> DEFINE a == NonceSpace * j
           b == x * n
<1>6. a \in Nat /\ b \in Nat
  BY <1>1, <1>3, NonceSpaceAssumption
<1>7. NonceSpace * (j + 1) = a + NonceSpace /\ (x + 1) * n = b + n /\ ((x - 1) + 1) * n = b
  BY <1>1, <1>3, NonceSpaceAssumption
<1>8. b <= a
  <2>1. CASE x = 0
    BY <1>6, <2>1
  <2>2. CASE x > 0
    BY <1>5, <1>6, <1>7, <2>2
  <2> QED BY <1>3, <2>1, <2>2
<1> HIDE DEF a, b
<1> QED BY <1>2, <1>3, <1>4, <1>6, <1>7, <1>8, NonceSpaceAssumption

=============================================================================
