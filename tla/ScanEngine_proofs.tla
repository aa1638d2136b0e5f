-------------------------- MODULE ScanEngine_proofs --------------------------
(***************************************************************************)
(* Proofs about ScanEngine and HeaderHash.                                 *)
(*                                                                         *)
(* First the hash: what the kernel makes of a midstate, three words and a  *)
(* nonce is what the CPU makes of the eighty bytes of the header.  Both    *)
(* are unrolled to the same three compressions, message word by message    *)
(* word; the compression itself stays uninterpreted.                       *)
(*                                                                         *)
(* Then the scan: IInv says where each kernel thread is in its chunk, that *)
(* it has looked at everything before (CoverInv), that the device holds    *)
(* the header and target the worker means (EngineInv, DeviceInv), and that *)
(* only one thread writes the result, of a nonce it found (WinnerInv).     *)
(***************************************************************************)
EXTENDS ScanEngine, NoncePartition_proofs

-----------------------------------------------------------------------------
(* The hash of a header.                                                   *)

\* Four bytes at an offset.
WordAt(bytes, at) == [k \in 1..4 |-> bytes[at + k]]

\* A word read from bytes.
LEMMA LoadIs ==
  ASSUME NEW bytes, NEW at \in Nat
  PROVE  load_be32(bytes, at) = WordAt(bytes, at)
BY DEF load_be32, WordAt

\* a, then b, then c, then d.
Placed(a, b, c, d) ==
  [k \in 1 .. Len(a) + 1 + Len(c) + Len(d) |->
     IF k <= Len(a) THEN a[k]
     ELSE IF k = Len(a) + 1 THEN b
     ELSE IF k <= Len(a) + 1 + Len(c) THEN c[k - (Len(a) + 1)]
     ELSE d[k - (Len(a) + 1 + Len(c))]]
\* Four sequences, one after the other.
LEMMA FourParts ==
  ASSUME NEW T, NEW a \in Seq(T), NEW b \in T, NEW c \in Seq(T), NEW d \in Seq(T)
  PROVE  a \o <<b>> \o c \o d = Placed(a, b, c, d)
<1> DEFINE s == a \o <<b>> \o c \o d
<1>1. s \in Seq(T) /\ Len(s) = Len(a) + 1 + Len(c) + Len(d)
  OBVIOUS
<1>a. s[Len(a) + 1] = b
  OBVIOUS
<1>b. \A k \in Len(a) + 2 .. Len(a) + 1 + Len(c) : s[k] = c[k - (Len(a) + 1)]
  OBVIOUS
<1>c. \A k \in Len(a) + 2 + Len(c) .. Len(s) : s[k] = d[k - (Len(a) + 1 + Len(c))]
  OBVIOUS
<1>d. \A k \in 1..Len(a) : s[k] = a[k]
  OBVIOUS
<1>2. s = [k \in 1..Len(s) |-> s[k]]
  <2> HIDE DEF s
  <2> QED BY <1>1
<1>3. Len(a) \in Nat /\ Len(c) \in Nat /\ Len(d) \in Nat
  OBVIOUS
<1> HIDE DEF s
<1> DEFINE P(k) == IF k <= Len(a) THEN a[k]
     ELSE IF k = Len(a) + 1 THEN b
     ELSE IF k <= Len(a) + 1 + Len(c) THEN c[k - (Len(a) + 1)]
     ELSE d[k - (Len(a) + 1 + Len(c))]
<1>4. ASSUME NEW k \in 1..Len(s) PROVE s[k] = P(k)
  <2>1. CASE k <= Len(a)
    BY <1>d, <1>3, <2>1
  <2>2. CASE k = Len(a) + 1
    <3>1. ~(k <= Len(a))
      BY <1>3, <2>2
    <3> QED
      BY <1>a, <2>2, <3>1
  <2>3. CASE k > Len(a) + 1 /\ k <= Len(a) + 1 + Len(c)
    <3>1. k \in Len(a) + 2 .. Len(a) + 1 + Len(c) /\ ~(k <= Len(a)) /\ k # Len(a) + 1
      BY <1>3, <2>3
    <3> QED
      BY <1>b, <2>3, <3>1
  <2>4. CASE k > Len(a) + 1 + Len(c)
    <3>1. k \in Len(a) + 2 + Len(c) .. Len(s) /\ ~(k <= Len(a)) /\ k # Len(a) + 1
          /\ ~(k <= Len(a) + 1 + Len(c))
      BY <1>1, <1>3, <2>4
    <3> QED
      BY <1>c, <3>1
  <2> QED
    BY <1>3, <2>1, <2>2, <2>3, <2>4
<1> HIDE DEF P
<1>5. s = [k \in 1..Len(s) |-> P(k)]
  BY <1>2, <1>4
<1>6. s = [k \in 1 .. Len(a) + 1 + Len(c) + Len(d) |-> P(k)]
  BY <1>1, <1>5
<1> QED BY <1>6 DEF s, P, Placed

\* Data of one block that is shorter than its padding allows.
PaddedTo(data, size, n) ==
  [k \in 1..n |-> IF k <= size THEN data[k]
                  ELSE IF k = size + 1 THEN <<128>>
                  ELSE IF k <= n - 4 THEN <<0>>
                  ELSE WordOf(8 * size)[k - (n - 4)]]

\* The message of a digest or a header, padded, byte by byte.
LEMMA PaddedIs ==
  ASSUME NEW S, NEW data \in Seq(S), NEW size \in {32, 80}, Len(data) = size,
         NEW n, n = IF size = 32 THEN 64 ELSE 128
  PROVE  Padded(data) = PaddedTo(data, size, n)
<1> DEFINE z == [k \in 1 .. n - 5 - size |-> <<0>>]
           w == WordOf(8 * size)
           T == S \cup Seq(Int)
           bit == <<128>>
<1>1. Padded(data) = data \o <<bit>> \o z \o w
  <2>1. CASE size = 32
    BY <2>1 DEF Padded, Zeros
  <2>2. CASE size = 80
    BY <2>2 DEF Padded, Zeros
  <2> QED
    BY <2>1, <2>2
<1>2. w \in Seq(T)
  BY DEF WordOf
<1>3. Len(w) = 4
  BY DEF WordOf
<1>4. z \in Seq(T)
  OBVIOUS
<1>5. Len(z) = n - 5 - size
  OBVIOUS
<1>6. data \in Seq(T) /\ bit \in T
  OBVIOUS
<1> DEFINE P(k) == IF k <= size THEN data[k]
                   ELSE IF k = size + 1 THEN bit
                   ELSE IF k <= size + 1 + (n - 5 - size) THEN z[k - (size + 1)]
                   ELSE w[k - (size + 1 + (n - 5 - size))]
           Q(k) == IF k <= size THEN data[k]
                   ELSE IF k = size + 1 THEN bit
                   ELSE IF k <= n - 4 THEN <<0>>
                   ELSE w[k - (n - 4)]
<1> HIDE DEF w, T, bit
<1>7. Padded(data) = Placed(data, bit, z, w)
  <2> HIDE DEF z
  <2>1. data \o <<bit>> \o z \o w = Placed(data, bit, z, w)
    BY <1>2, <1>4, <1>6, FourParts
  <2> QED
    BY <1>1, <2>1
<1>8. Padded(data) = [k \in 1 .. size + 1 + (n - 5 - size) + 4 |-> P(k)]
  <2> HIDE DEF z
  <2> QED
    BY <1>3, <1>5, <1>7 DEF Placed
<1>9. \A k \in 1..n : P(k) = Q(k)
  <2> TAKE k \in 1..n
  <2>1. size + 1 + (n - 5 - size) = n - 4
    OBVIOUS
  <2>2. ~(k <= size) /\ k # size + 1 /\ k <= n - 4 => k - (size + 1) \in 1 .. n - 5 - size
    OBVIOUS
  <2> QED
    BY <2>1, <2>2
<1>10. 1 .. size + 1 + (n - 5 - size) + 4 = 1..n
  OBVIOUS
<1> HIDE DEF P, Q
<1>11. Padded(data) = [k \in 1..n |-> Q(k)]
  BY <1>8, <1>9, <1>10
<1> QED
  BY <1>11 DEF Q, PaddedTo, w, bit

\* The loop of sha256_state over n blocks.
States(padded, n) ==
  CHOOSE state : state = [b \in 0..n |-> IF b = 0 THEN kInit
                                         ELSE sha256_compress(state[b - 1], Block(padded, b - 1))]

\* The state after n blocks, from the recursive function of the blocks.
LEMMA StateIs ==
  ASSUME NEW data, NEW n, Len(Padded(data)) \div 64 = n
  PROVE  sha256_state(data) = States(Padded(data), n)[n]
BY Zenon DEF sha256_state, States

\* One block.
LEMMA StatesOne ==
  ASSUME NEW padded
  PROVE  States(padded, 1)[1] = sha256_compress(kInit, Block(padded, 0))
<1> DEFINE F(s) == [b \in 0..1 |-> IF b = 0 THEN kInit
                                   ELSE sha256_compress(s[b - 1], Block(padded, b - 1))]
           s == [b \in 0..1 |-> IF b = 0 THEN kInit ELSE sha256_compress(kInit, Block(padded, 0))]
<1>1. s = F(s)
  OBVIOUS
<1>2. States(padded, 1) = F(States(padded, 1))
  <2> HIDE DEF F, s
  <2>1. (CHOOSE u : u = F(u)) = F(CHOOSE u : u = F(u))
    BY <1>1, Zenon
  <2> QED
    BY <2>1, Zenon DEF States, F
<1> QED
  BY <1>2

\* Two blocks.
LEMMA StatesTwo ==
  ASSUME NEW padded
  PROVE  States(padded, 2)[2] =
           sha256_compress(sha256_compress(kInit, Block(padded, 0)), Block(padded, 1))
<1> DEFINE F(s) == [b \in 0..2 |-> IF b = 0 THEN kInit
                                   ELSE sha256_compress(s[b - 1], Block(padded, b - 1))]
           one == sha256_compress(kInit, Block(padded, 0))
           s == [b \in 0..2 |-> IF b = 0 THEN kInit ELSE IF b = 1 THEN one
                                ELSE sha256_compress(one, Block(padded, 1))]
<1>1. s = F(s)
  OBVIOUS
<1>2. States(padded, 2) = F(States(padded, 2))
  <2> HIDE DEF F, s
  <2>1. (CHOOSE u : u = F(u)) = F(CHOOSE u : u = F(u))
    BY <1>1, Zenon
  <2> QED
    BY <2>1, Zenon DEF States, F
<1> QED
  BY <1>2

\* The blocks of padded data, by their words.
LEMMA BlockIs ==
  ASSUME NEW bytes, NEW b \in Nat
  PROVE  Block(bytes, b) = [i \in 1..16 |-> WordAt(bytes, 64 * b + 4 * (i - 1))]
<1>1. \A i \in 1..16 : 64 * b + 4 * (i - 1) \in Nat
  OBVIOUS
<1> QED
  BY <1>1, LoadIs DEF Block

\* The second block of a header as the kernel puts it together.
KernelBlock1(tail, nonce_le) ==
  tail \o <<bswap32(nonce_le), PadWord>> \o [i \in 1..10 |-> WordOf(0)] \o <<WordOf(640)>>

Words1(a, b, c, w, p, z, l) ==
  [i \in 1..16 |-> IF i <= 4 THEN <<a, b, c, w>>[i] ELSE IF i = 5 THEN p
                   ELSE IF i <= 15 THEN z[i - 5] ELSE l]

\* The kernel's second block of the header, word by word.
LEMMA KernelBlock1Is ==
  ASSUME NEW a, NEW b, NEW c, NEW nonce_le
  PROVE  KernelBlock1(<<a, b, c>>, nonce_le)
           = Words1(a, b, c, bswap32(nonce_le), PadWord, [i \in 1..10 |-> WordOf(0)], WordOf(640))
<1> DEFINE w == bswap32(nonce_le)
           p == PadWord
           l == WordOf(640)
           z == [i \in 1..10 |-> WordOf(0)]
           T == {a, b, c, w, p, l, WordOf(0)}
           h == <<a, b, c, w>>
           e == <<l>>
<1>a. a \in T /\ b \in T /\ c \in T
  OBVIOUS
<1>b. w \in T /\ p \in T /\ l \in T
  OBVIOUS
<1>c. z \in Seq(T) /\ Len(z) = 10
  OBVIOUS
<1> HIDE DEF w, p, l, z, T
<1>1. <<a, b, c>> \o <<w, p>> = h \o <<p>>
  <2> DEFINE x == <<a, b, c>> \o <<w, p>>
             y == h \o <<p>>
  <2>1. x \in Seq(T) /\ Len(x) = 5
    BY <1>a, <1>b
  <2>2. y \in Seq(T) /\ Len(y) = 5
    BY <1>a, <1>b
  <2>3. x[1] = a /\ x[2] = b /\ x[3] = c /\ x[4] = w /\ x[5] = p
    OBVIOUS
  <2>4. y[1] = a /\ y[2] = b /\ y[3] = c /\ y[4] = w /\ y[5] = p
    OBVIOUS
  <2> HIDE DEF x, y, h
  <2>5. \A i \in 1..5 : x[i] = y[i]
    BY <2>3, <2>4
  <2>6. x = y
    BY <2>1, <2>2, <2>5
  <2> QED
    BY <2>6 DEF x, y
<1>2. Len(h) = 4 /\ h \in Seq(T) /\ Len(e) = 1 /\ e \in Seq(T) /\ e[1] = l
  BY <1>a, <1>b
<1> HIDE DEF h, e
<1>3. h \o <<p>> \o z \o e = Placed(h, p, z, e)
  BY <1>b, <1>c, <1>2, FourParts
<1> DEFINE P(i) == IF i <= 4 THEN h[i] ELSE IF i = 4 + 1 THEN p
                   ELSE IF i <= 4 + 1 + 10 THEN z[i - (4 + 1)] ELSE e[i - (4 + 1 + 10)]
           Q(i) == IF i <= 4 THEN h[i] ELSE IF i = 5 THEN p
                   ELSE IF i <= 15 THEN z[i - 5] ELSE l
<1>4. Placed(h, p, z, e) = [i \in 1 .. 4 + 1 + 10 + 1 |-> P(i)]
  BY <1>c, <1>2 DEF Placed
<1>5. \A i \in 1..16 : P(i) = Q(i)
  BY <1>2
<1>6. 1 .. 4 + 1 + 10 + 1 = 1..16
  OBVIOUS
<1> HIDE DEF P, Q
<1>7. Placed(h, p, z, e) = [i \in 1..16 |-> Q(i)]
  BY <1>4, <1>5, <1>6
<1> QED
  BY <1>1, <1>3, <1>7 DEF h, e, Q, Words1, KernelBlock1, w, p, l, z

\* The block of the second hash as the kernel puts it together.
KernelBlock2(words) ==
  words \o <<PadWord>> \o [i \in 1..6 |-> WordOf(0)] \o <<WordOf(256)>>

Words2(s, p, z, l) ==
  [i \in 1..16 |-> IF i <= 8 THEN s[i] ELSE IF i = 9 THEN p
                   ELSE IF i <= 15 THEN z[i - 9] ELSE l]

\* The kernel's block of the second hash, word by word.
LEMMA KernelBlock2Is ==
  ASSUME NEW T, NEW s \in Seq(T), Len(s) = 8, NEW p \in T, NEW l \in T,
         NEW z \in Seq(T), Len(z) = 6
  PROVE  s \o <<p>> \o z \o <<l>> = Words2(s, p, z, l)
<1> DEFINE e == <<l>>
<1>2. Len(e) = 1 /\ e \in Seq(T) /\ e[1] = l
  OBVIOUS
<1> HIDE DEF e
<1>3. s \o <<p>> \o z \o e = Placed(s, p, z, e)
  BY <1>2, FourParts
<1> DEFINE P(i) == IF i <= 8 THEN s[i] ELSE IF i = 8 + 1 THEN p
                   ELSE IF i <= 8 + 1 + 6 THEN z[i - (8 + 1)] ELSE e[i - (8 + 1 + 6)]
           Q(i) == IF i <= 8 THEN s[i] ELSE IF i = 9 THEN p
                   ELSE IF i <= 15 THEN z[i - 9] ELSE l
<1>4. Placed(s, p, z, e) = [i \in 1 .. 8 + 1 + 6 + 1 |-> P(i)]
  BY <1>2 DEF Placed
<1>5. \A i \in 1..16 : P(i) = Q(i)
  BY <1>2
<1>6. 1 .. 8 + 1 + 6 + 1 = 1..16
  OBVIOUS
<1> HIDE DEF P, Q
<1>7. Placed(s, p, z, e) = [i \in 1..16 |-> Q(i)]
  BY <1>4, <1>5, <1>6
<1> QED
  BY <1>3, <1>7 DEF e, Q, Words2

\* The words of padded data, where a word is inside one part of it.
LEMMA WordsOfPadded ==
  ASSUME NEW data, NEW size \in {32, 80}, NEW n, n = IF size = 32 THEN 64 ELSE 128,
         NEW at \in Nat,
         NEW word, word = WordAt(PaddedTo(data, size, n), at)
  PROVE  /\ at + 4 <= size => word = WordAt(data, at)
         /\ at = size => word = PadWord
         /\ at > size /\ at + 4 <= n - 4 => word = WordOf(0)
         /\ at = n - 4 => word = WordOf(8 * size)
<1> DEFINE p == PaddedTo(data, size, n)
<1>1. \A j \in 1..n : p[j] = IF j <= size THEN data[j]
                             ELSE IF j = size + 1 THEN <<128>>
                             ELSE IF j <= n - 4 THEN <<0>>
                             ELSE WordOf(8 * size)[j - (n - 4)]
  BY DEF PaddedTo
<1>2. n \in Nat /\ size \in Nat /\ size + 4 < n - 4
  OBVIOUS
<1> HIDE DEF p
<1>3. ASSUME at + 4 <= size, NEW k \in 1..4 PROVE p[at + k] = data[at + k]
  <2>1. at + k \in 1..n /\ at + k <= size
    BY <1>2, <1>3
  <2> QED
    BY <1>1, <2>1
<1>4. ASSUME at = size PROVE p[at + 1] = <<128>> /\ p[at + 2] = <<0>> /\ p[at + 3] = <<0>> /\ p[at + 4] = <<0>>
  <2>1. at + 1 \in 1..n /\ ~(at + 1 <= size) /\ at + 1 = size + 1
    BY <1>2, <1>4
  <2>2. \A k \in 2..4 : at + k \in 1..n /\ ~(at + k <= size) /\ at + k # size + 1 /\ at + k <= n - 4
    BY <1>2, <1>4
  <2>3. p[at + 1] = <<128>>
    BY <1>1, <2>1
  <2>4. \A k \in 2..4 : p[at + k] = <<0>>
    BY <1>1, <2>2
  <2> QED
    BY <2>3, <2>4
<1>5. ASSUME at > size, at + 4 <= n - 4, NEW k \in 1..4 PROVE p[at + k] = <<0>>
  <2>1. at + k \in 1..n /\ ~(at + k <= size) /\ at + k # size + 1 /\ at + k <= n - 4
    BY <1>2, <1>5
  <2> QED
    BY <1>1, <2>1
<1>6. ASSUME at = n - 4, NEW k \in 1..4 PROVE p[at + k] = WordOf(8 * size)[k]
  <2>1. at + k \in 1..n /\ ~(at + k <= size) /\ at + k # size + 1 /\ ~(at + k <= n - 4)
    BY <1>2, <1>6
  <2>2. at + k - (n - 4) = k
    BY <1>2, <1>6
  <2> QED
    BY <1>1, <2>1, <2>2
<1>7. PadWord = [k \in 1..4 |-> IF k = 1 THEN <<128>> ELSE <<0>>]
  BY DEF PadWord
<1>8. WordOf(0) = [k \in 1..4 |-> <<0>>]
  BY DEF WordOf
<1>9. WordOf(8 * size) = [k \in 1..4 |-> WordOf(8 * size)[k]]
  BY DEF WordOf
<1>10. at = size => \A k \in 1..4 : p[at + k] = IF k = 1 THEN <<128>> ELSE <<0>>
  BY <1>4
<1> QED
  BY <1>3, <1>5, <1>6, <1>7, <1>8, <1>9, <1>10 DEF p, WordAt

\* The byte j of a digest's words.
ByteOf(words, j) == words[((j - 1) \div 4) + 1][((j - 1) % 4) + 1]

\* The block of the second hash on the CPU is the kernel's: the digest of the
\* first, padded.
LEMMA SecondBlock ==
  ASSUME NEW state
  PROVE  Block(PaddedTo(write_digest(state), 32, 64), 0) = KernelBlock2(StateWords(state))
<1> DEFINE d == write_digest(state)
           words == StateWords(state)
           z == [i \in 1..6 |-> WordOf(0)]
           p == PadWord
           l == WordOf(256)
           T == {words[i] : i \in 1..8} \cup {p, WordOf(0), l}
           Q(i) == IF i <= 8 THEN words[i] ELSE IF i = 9 THEN PadWord
                   ELSE IF i <= 15 THEN z[i - 9] ELSE WordOf(256)
<1>1. KernelBlock2(words) = [i \in 1..16 |-> Q(i)]
  <2>1. words \in Seq(T) /\ Len(words) = 8
    BY DEF StateWords
  <2>2. z \in Seq(T) /\ Len(z) = 6
    OBVIOUS
  <2>3. p \in T /\ l \in T
    OBVIOUS
  <2> HIDE DEF words, z, p, l, T
  <2>4. words \o <<p>> \o z \o <<l>> = Words2(words, p, z, l)
    BY <2>1, <2>2, <2>3, KernelBlock2Is
  <2> QED
    BY <2>4 DEF KernelBlock2, z, p, l, Words2
<1>2. ASSUME NEW i \in 1..16
      PROVE  WordAt(PaddedTo(d, 32, 64), 4 * (i - 1)) = Q(i)
  <2> DEFINE at == 4 * (i - 1)
             word == WordAt(PaddedTo(d, 32, 64), at)
  <2>1. at \in Nat
    OBVIOUS
  <2>2. /\ at + 4 <= 32 => word = WordAt(d, at)
        /\ at = 32 => word = PadWord
        /\ at > 32 /\ at + 4 <= 60 => word = WordOf(0)
        /\ at = 60 => word = WordOf(256)
    <3> HIDE DEF at, d
    <3>1. ASSUME NEW size, NEW n, size = 32, n = 64, NEW w, w = WordAt(PaddedTo(d, size, n), at)
          PROVE  /\ at + 4 <= size => w = WordAt(d, at)
                 /\ at = size => w = PadWord
                 /\ at > size /\ at + 4 <= n - 4 => w = WordOf(0)
                 /\ at = n - 4 => w = WordOf(8 * size)
      BY <2>1, <3>1, WordsOfPadded
    <3> QED
      BY <3>1
  <2>3. CASE i <= 8
    <3>2. \A j \in 1..32 : d[j] = ByteOf(words, j)
      BY DEF write_digest, ByteOf
    <3>3. at + 4 <= 32
      BY <2>3
    <3>4. ASSUME NEW k \in 1..4 PROVE d[at + k] = words[i][k]
      <4> DEFINE j == at + k
      <4>1. j \in 1..32
        BY <2>3
      <4>2. ((j - 1) \div 4) + 1 = i
        BY <2>3
      <4>3. ((j - 1) % 4) + 1 = k
        BY <2>3
      <4> HIDE DEF j, d, words
      <4>4. ByteOf(words, j) = words[i][k]
        BY <4>2, <4>3 DEF ByteOf
      <4>5. d[j] = ByteOf(words, j)
        BY <3>2, <4>1
      <4> QED
        BY <4>4, <4>5 DEF j
    <3> HIDE DEF d, at, words
    <3>5. words[i] = [k \in 1..4 |-> words[i][k]]
      <4>1. i \in 1..8
        BY <2>3
      <4>2. StateWords(state)[i] = [k \in 1..4 |-> <<state, i, k>>]
        BY <4>1 DEF StateWords
      <4> QED
        BY <4>2 DEF words
    <3>6. word = words[i]
      BY <2>2, <3>3, <3>4, <3>5 DEF WordAt
    <3> QED
      BY <2>3, <3>6 DEF at
  <2>4. CASE i = 9
    BY <2>2, <2>4
  <2>5. CASE i \in 10..15
    <3>1. at > 32 /\ at + 4 <= 60 /\ z[i - 9] = WordOf(0)
      BY <2>5
    <3> QED
      BY <2>2, <2>5, <3>1
  <2>6. CASE i = 16
    BY <2>2, <2>6
  <2> QED
    BY <2>3, <2>4, <2>5, <2>6
<1>3. Block(PaddedTo(d, 32, 64), 0) = [i \in 1..16 |-> WordAt(PaddedTo(d, 32, 64), 4 * (i - 1))]
  <2>1. \A i \in 1..16 : 64 * 0 + 4 * (i - 1) = 4 * (i - 1)
    OBVIOUS
  <2> HIDE DEF d
  <2> QED
    BY <2>1, BlockIs
<1> HIDE DEF Q
<1> QED
  BY <1>1, <1>2, <1>3

\* Where verify_header leaves the header as it was, and what it puts at 76.
LEMMA VerifyHeaderIs ==
  ASSUME NEW S, NEW header \in [1..80 -> S], NEW nonce
  PROVE  /\ verify_header(header, nonce) = [k \in 1..80 |-> verify_header(header, nonce)[k]]
         /\ \A k \in 1..76 : verify_header(header, nonce)[k] = header[k]
         /\ \A k \in 1..4 : verify_header(header, nonce)[76 + k] = bswap32(WordOf(nonce))[k]
<1> DEFINE r == bswap32(WordOf(nonce))
           v == [k \in 1..80 |-> IF k \in 77..80 THEN r[k - 76] ELSE header[k]]
<1>1. verify_header(header, nonce) = v
  BY DEF verify_header, store_le32, bswap32
<1> HIDE DEF r
<1>2. v = [k \in 1..80 |-> v[k]]
  OBVIOUS
<1>3. \A k \in 1..76 : v[k] = header[k]
  OBVIOUS
<1>4. \A k \in 1..4 : v[76 + k] = r[k]
  OBVIOUS
<1> HIDE DEF v
<1> QED
  BY <1>1, <1>2, <1>3, <1>4 DEF r

\* The words of the header that the CPU hashes.
LEMMA VerifiedWords ==
  ASSUME NEW S, NEW header \in [1..80 -> S], NEW nonce, NEW at \in Nat,
         NEW word, word = WordAt(verify_header(header, nonce), at)
  PROVE  /\ at + 4 <= 76 => word = WordAt(header, at)
         /\ at = 76 => word = bswap32(WordOf(nonce))
<1> DEFINE v == verify_header(header, nonce)
           r == bswap32(WordOf(nonce))
<1>1. \A k \in 1..76 : v[k] = header[k]
  BY VerifyHeaderIs
<1>2. \A k \in 1..4 : v[76 + k] = r[k]
  BY VerifyHeaderIs
<1>3. r = [k \in 1..4 |-> r[k]]
  BY DEF bswap32, WordOf, Reverse
<1> HIDE DEF v, r
<1>4. ASSUME at + 4 <= 76, NEW k \in 1..4 PROVE v[at + k] = header[at + k]
  <2>1. at + k \in 1..76
    BY <1>4
  <2> QED
    BY <1>1, <2>1
<1> QED
  BY <1>2, <1>3, <1>4 DEF WordAt, v, r

\* The words of the padded header, for the CPU.
LEMMA HeaderWords ==
  ASSUME NEW S, NEW header \in [1..80 -> S], NEW nonce, NEW at \in Nat,
         NEW word, word = WordAt(PaddedTo(verify_header(header, nonce), 80, 128), at)
  PROVE  /\ at + 4 <= 76 => word = WordAt(header, at)
         /\ at = 76 => word = bswap32(WordOf(nonce))
         /\ at = 80 => word = PadWord
         /\ at > 80 /\ at + 4 <= 124 => word = WordOf(0)
         /\ at = 124 => word = WordOf(640)
<1> DEFINE v == verify_header(header, nonce)
           w == WordAt(v, at)
<1>1. /\ at + 4 <= 76 => w = WordAt(header, at)
      /\ at = 76 => w = bswap32(WordOf(nonce))
  BY VerifiedWords
<1>2. ASSUME NEW size, NEW n, size = 80, n = 128, word = WordAt(PaddedTo(v, size, n), at)
      PROVE  /\ at + 4 <= size => word = w
             /\ at = size => word = PadWord
             /\ at > size /\ at + 4 <= n - 4 => word = WordOf(0)
             /\ at = n - 4 => word = WordOf(8 * size)
  <2> HIDE DEF v
  <2> QED
    BY <1>2, WordsOfPadded
<1>3. word = WordAt(PaddedTo(v, 80, 128), at)
  OBVIOUS
<1> HIDE DEF v, w
<1>4. /\ at + 4 <= 80 => word = w
      /\ at = 80 => word = PadWord
      /\ at > 80 /\ at + 4 <= 124 => word = WordOf(0)
      /\ at = 124 => word = WordOf(640)
  BY <1>2, <1>3
<1> QED
  BY <1>1, <1>4

\* The first block is that of the header without the nonce.
LEMMA HeaderBlock0 ==
  ASSUME NEW S, NEW header \in [1..80 -> S], NEW nonce
  PROVE  Block(PaddedTo(verify_header(header, nonce), 80, 128), 0) = Block(header, 0)
<1> DEFINE p == PaddedTo(verify_header(header, nonce), 80, 128)
<1>1. ASSUME NEW i \in 1..16
      PROVE  WordAt(p, 64 * 0 + 4 * (i - 1)) = WordAt(header, 64 * 0 + 4 * (i - 1))
  <2> DEFINE at == 64 * 0 + 4 * (i - 1)
             word == WordAt(p, at)
  <2>1. at \in Nat
    OBVIOUS
  <2>2. at + 4 <= 76
    OBVIOUS
  <2>3. word = WordAt(PaddedTo(verify_header(header, nonce), 80, 128), at)
    OBVIOUS
  <2> HIDE DEF at, word, p
  <2>4. word = WordAt(header, at)
    BY <2>1, <2>2, <2>3, HeaderWords
  <2> QED
    BY <2>4 DEF at, word
<1>2. Block(p, 0) = [i \in 1..16 |-> WordAt(p, 64 * 0 + 4 * (i - 1))]
  <2> HIDE DEF p
  <2> QED
    BY BlockIs
<1>3. Block(header, 0) = [i \in 1..16 |-> WordAt(header, 64 * 0 + 4 * (i - 1))]
  BY BlockIs
<1> HIDE DEF p
<1>4. Block(p, 0) = Block(header, 0)
  BY <1>1, <1>2, <1>3
<1> QED
  BY <1>4 DEF p

\* The second block is what the kernel puts together from the three words of
\* the tail and the nonce.
LEMMA HeaderBlock1 ==
  ASSUME NEW S, NEW header \in [1..80 -> S], NEW nonce
  PROVE  Block(PaddedTo(verify_header(header, nonce), 80, 128), 1)
           = KernelBlock1(build_midstate_from_header(header).tail, WordOf(nonce))
<1> DEFINE p == PaddedTo(verify_header(header, nonce), 80, 128)
           a == WordAt(header, 64)
           b == WordAt(header, 68)
           c == WordAt(header, 72)
           w == bswap32(WordOf(nonce))
           e == PadWord
           l == WordOf(640)
           z == [i \in 1..10 |-> WordOf(0)]
           Q(i) == IF i <= 4 THEN <<a, b, c, w>>[i] ELSE IF i = 5 THEN e
                   ELSE IF i <= 15 THEN z[i - 5] ELSE l
<1>1. KernelBlock1(build_midstate_from_header(header).tail, WordOf(nonce)) = [i \in 1..16 |-> Q(i)]
  <2>3. build_midstate_from_header(header).tail = <<a, b, c>>
    BY LoadIs DEF build_midstate_from_header
  <2> HIDE DEF a, b, c, w, e, l, z
  <2>4. KernelBlock1(<<a, b, c>>, WordOf(nonce)) = Words1(a, b, c, w, e, z, l)
    BY KernelBlock1Is DEF w, e, z, l
  <2> QED
    BY <2>3, <2>4 DEF Words1
<1>2. ASSUME NEW i \in 1..16
      PROVE  WordAt(p, 64 * 1 + 4 * (i - 1)) = Q(i)
  <2> DEFINE at == 64 * 1 + 4 * (i - 1)
             word == WordAt(p, at)
  <2>1. at \in Nat
    OBVIOUS
  <2>2. word = WordAt(PaddedTo(verify_header(header, nonce), 80, 128), at)
    OBVIOUS
  <2>3. /\ at + 4 <= 76 => word = WordAt(header, at)
        /\ at = 76 => word = w
        /\ at = 80 => word = PadWord
        /\ at > 80 /\ at + 4 <= 124 => word = WordOf(0)
        /\ at = 124 => word = WordOf(640)
    <3> HIDE DEF at, word, p
    <3> QED
      BY <2>1, <2>2, HeaderWords
  <2> HIDE DEF word, p, w
  <2>4. i = 1 => word = a
    BY <2>3
  <2>5. i = 2 => word = b
    BY <2>3
  <2>6. i = 3 => word = c
    BY <2>3
  <2>7. i = 4 => word = w
    BY <2>3
  <2>8. i = 5 => word = e
    BY <2>3
  <2>9. i = 16 => word = l
    BY <2>3
  <2>10. i \in 6..15 => word = z[i - 5]
    <3>1. i \in 6..15 => at > 80 /\ at + 4 <= 124 /\ z[i - 5] = WordOf(0)
      OBVIOUS
    <3> QED
      BY <2>3, <3>1
  <2> HIDE DEF a, b, c, e, l, z
  <2>11. word = Q(i)
    BY <2>4, <2>5, <2>6, <2>7, <2>8, <2>9, <2>10
  <2> QED
    BY <2>11 DEF word
<1>3. Block(p, 1) = [i \in 1..16 |-> WordAt(p, 64 * 1 + 4 * (i - 1))]
  <2> HIDE DEF p
  <2> QED
    BY BlockIs
<1> HIDE DEF p, Q
<1>4. Block(p, 1) = [i \in 1..16 |-> Q(i)]
  BY <1>2, <1>3
<1> QED
  BY <1>1, <1>4 DEF p

\* The hash on the GPU, block by block.
LEMMA KernelHashIs ==
  ASSUME NEW midstate, NEW tail, NEW nonce_le
  PROVE  sha256d_hash_words_be(midstate, tail, nonce_le)
           = sha256_compress(kInit, KernelBlock2(StateWords(
               sha256_compress(midstate, KernelBlock1(tail, nonce_le)))))
BY Zenon DEF sha256d_hash_words_be, KernelBlock1, KernelBlock2

\* A function on 1..n is a sequence of its values.
LEMMA FunctionSequence ==
  ASSUME NEW n \in Nat, NEW v, v = [k \in 1..n |-> v[k]]
  PROVE  v \in Seq({v[k] : k \in 1..n}) /\ Len(v) = n
OBVIOUS

\* The state after a header that carries its nonce.
LEMMA HeaderState ==
  ASSUME NEW S, NEW header \in [1..80 -> S], NEW nonce
  PROVE  sha256_state(verify_header(header, nonce))
           = sha256_compress(build_midstate_from_header(header).midstate,
                             KernelBlock1(build_midstate_from_header(header).tail, WordOf(nonce)))
<1> DEFINE v == verify_header(header, nonce)
           p == PaddedTo(v, 80, 128)
           R == {v[k] : k \in 1..80}
<1>1. v \in Seq(R) /\ Len(v) = 80
  <2>1. v = [k \in 1..80 |-> v[k]]
    BY VerifyHeaderIs
  <2> HIDE DEF v
  <2> QED
    BY <2>1, FunctionSequence
<1>2. Padded(v) = p
  <2>1. ASSUME NEW size, NEW n, size = 80, n = 128 PROVE Padded(v) = PaddedTo(v, size, n)
    <3> HIDE DEF v, R
    <3> QED
      BY <1>1, <2>1, PaddedIs
  <2> QED
    BY <2>1
<1>3. Len(p) \div 64 = 2
  <2>1. Len(p) = 128
    BY DEF PaddedTo
  <2> HIDE DEF p
  <2> QED
    BY <2>1
<1>4. Block(p, 0) = Block(header, 0)
  BY HeaderBlock0
<1>5. Block(p, 1) = KernelBlock1(build_midstate_from_header(header).tail, WordOf(nonce))
  BY HeaderBlock1
<1>6. build_midstate_from_header(header).midstate = sha256_compress(kInit, Block(header, 0))
  BY DEF build_midstate_from_header
<1> HIDE DEF v, p
<1>7. sha256_state(v) = States(p, 2)[2]
  BY <1>2, <1>3, StateIs
<1>8. sha256_state(v) = sha256_compress(sha256_compress(kInit, Block(p, 0)), Block(p, 1))
  BY <1>7, StatesTwo
<1>9. sha256_state(v) = sha256_compress(build_midstate_from_header(header).midstate,
                          KernelBlock1(build_midstate_from_header(header).tail, WordOf(nonce)))
  BY <1>4, <1>5, <1>6, <1>8
<1> QED
  BY <1>9 DEF v

\* The state after a digest.
LEMMA DigestState ==
  ASSUME NEW state
  PROVE  sha256_state(write_digest(state)) = sha256_compress(kInit, KernelBlock2(StateWords(state)))
<1> DEFINE v == write_digest(state)
           p == PaddedTo(v, 32, 64)
           R == {v[k] : k \in 1..32}
<1>1. v \in Seq(R) /\ Len(v) = 32
  <2>1. v = [k \in 1..32 |-> v[k]]
    <3> DEFINE b(k) == StateWords(state)[((k - 1) \div 4) + 1][((k - 1) % 4) + 1]
    <3>1. v = [k \in 1..32 |-> b(k)]
      BY DEF write_digest
    <3> HIDE DEF b, v
    <3> QED
      BY <3>1
  <2> HIDE DEF v
  <2> QED
    BY <2>1, FunctionSequence
<1>2. Padded(v) = p
  <2>1. ASSUME NEW size, NEW n, size = 32, n = 64 PROVE Padded(v) = PaddedTo(v, size, n)
    <3> HIDE DEF v, R
    <3> QED
      BY <1>1, <2>1, PaddedIs
  <2> QED
    BY <2>1
<1>3. Len(p) \div 64 = 1
  <2>1. Len(p) = 64
    BY DEF PaddedTo
  <2> HIDE DEF p
  <2> QED
    BY <2>1
<1>4. Block(p, 0) = KernelBlock2(StateWords(state))
  BY SecondBlock
<1> HIDE DEF v, p
<1>5. sha256_state(v) = States(p, 1)[1]
  BY <1>2, <1>3, StateIs
<1>6. sha256_state(v) = sha256_compress(kInit, Block(p, 0))
  BY <1>5, StatesOne
<1> QED
  BY <1>4, <1>6 DEF v

\* For every header of 80 bytes and every nonce, the kernel computes from the
\* midstate, the three words of the tail and the nonce what the CPU computes
\* from the header that carries the nonce: the padding, the lengths, the order
\* of the bytes and the place of the nonce agree (sha256d_hash_words_be and
\* sha256d).
THEOREM GpuHashesTheHeader ==
  ASSUME NEW S, NEW header \in [1..80 -> S], NEW nonce
  PROVE  LET built == build_midstate_from_header(header)
         IN  sha256d_hash_words_be(built.midstate, built.tail, WordOf(nonce))
               = sha256d(verify_header(header, nonce))
<1> DEFINE b == build_midstate_from_header(header)
           state == sha256_compress(b.midstate, KernelBlock1(b.tail, WordOf(nonce)))
           v == verify_header(header, nonce)
<1>1. sha256_state(v) = state
  BY HeaderState
<1>2. sha256d_hash_words_be(b.midstate, b.tail, WordOf(nonce))
        = sha256_compress(kInit, KernelBlock2(StateWords(state)))
  BY KernelHashIs
<1>3. sha256_state(write_digest(state)) = sha256_compress(kInit, KernelBlock2(StateWords(state)))
  BY DigestState
<1> HIDE DEF state, v
<1>4. sha256d(v) = sha256_state(write_digest(state))
  BY <1>1 DEF sha256d, sha256
<1> QED
  BY <1>2, <1>3, <1>4 DEF v

-----------------------------------------------------------------------------
(* Different headers, different messages for the kernel.                   *)

\* The message of the second hash starts with the state of the first.
LEMMA SecondTells ==
  ASSUME NEW state, NEW other, KernelBlock2(StateWords(state)) = KernelBlock2(StateWords(other))
  PROVE  state = other
<1>1. ASSUME NEW s PROVE KernelBlock2(StateWords(s))[1] = StateWords(s)[1]
  <2> DEFINE words == StateWords(s)
             z == [i \in 1..6 |-> WordOf(0)]
             p == PadWord
             l == WordOf(256)
             T == {words[i] : i \in 1..8} \cup {p, WordOf(0), l}
  <2>1. words \in Seq(T) /\ Len(words) = 8
    BY DEF StateWords
  <2>2. z \in Seq(T) /\ Len(z) = 6
    OBVIOUS
  <2>3. p \in T /\ l \in T
    OBVIOUS
  <2> HIDE DEF words, z, p, l, T
  <2>4. words \o <<p>> \o z \o <<l>> = Words2(words, p, z, l)
    BY <2>1, <2>2, <2>3, KernelBlock2Is
  <2>5. Words2(words, p, z, l)[1] = words[1]
    BY DEF Words2
  <2> QED
    BY <2>4, <2>5 DEF KernelBlock2, words, z, p, l
<1>2. StateWords(state)[1][1] = <<state, 1, 1>> /\ StateWords(other)[1][1] = <<other, 1, 1>>
  BY DEF StateWords
<1>3. <<state, 1, 1>> = <<other, 1, 1>>
  BY <1>1, <1>2
<1> QED
  BY <1>3

\* The second block of the first hash starts with the three words of the tail.
LEMMA FirstTells ==
  ASSUME NEW a, NEW b, NEW c, NEW x, NEW y, NEW z, NEW nonce_le,
         KernelBlock1(<<a, b, c>>, nonce_le) = KernelBlock1(<<x, y, z>>, nonce_le)
  PROVE  a = x /\ b = y /\ c = z
<1>1. ASSUME NEW u, NEW v, NEW w
      PROVE  LET block == KernelBlock1(<<u, v, w>>, nonce_le)
             IN  block[1] = u /\ block[2] = v /\ block[3] = w
  <2> DEFINE e == bswap32(nonce_le)
             p == PadWord
             l == WordOf(640)
             zeros == [i \in 1..10 |-> WordOf(0)]
  <2>1. KernelBlock1(<<u, v, w>>, nonce_le) = Words1(u, v, w, e, p, zeros, l)
    BY KernelBlock1Is
  <2> HIDE DEF e, p, l, zeros
  <2>2. /\ Words1(u, v, w, e, p, zeros, l)[1] = u
        /\ Words1(u, v, w, e, p, zeros, l)[2] = v
        /\ Words1(u, v, w, e, p, zeros, l)[3] = w
    BY DEF Words1
  <2> QED
    BY <2>1, <2>2
<1> DEFINE k == KernelBlock1(<<a, b, c>>, nonce_le)
<1>2. k[1] = a /\ k[2] = b /\ k[3] = c
  BY <1>1
<1>3. k[1] = x /\ k[2] = y /\ k[3] = z
  BY <1>1
<1> QED
  BY <1>2, <1>3

\* Two headers that the kernel cannot tell apart have the same first 76 bytes.
LEMMA KernelTells ==
  ASSUME NEW S, NEW header \in [1..80 -> S], NEW other \in [1..80 -> S], NEW nonce_le,
         sha256d_hash_words_be(build_midstate_from_header(header).midstate,
                               build_midstate_from_header(header).tail, nonce_le)
           = sha256d_hash_words_be(build_midstate_from_header(other).midstate,
                                   build_midstate_from_header(other).tail, nonce_le)
  PROVE  \A k \in 1..76 : header[k] = other[k]
<1> DEFINE b == build_midstate_from_header(header)
           c == build_midstate_from_header(other)
           s == sha256_compress(b.midstate, KernelBlock1(b.tail, nonce_le))
           t == sha256_compress(c.midstate, KernelBlock1(c.tail, nonce_le))
<1>1. sha256_compress(kInit, KernelBlock2(StateWords(s)))
        = sha256_compress(kInit, KernelBlock2(StateWords(t)))
  <2>1. sha256d_hash_words_be(b.midstate, b.tail, nonce_le)
          = sha256_compress(kInit, KernelBlock2(StateWords(s)))
    BY KernelHashIs
  <2>2. sha256d_hash_words_be(c.midstate, c.tail, nonce_le)
          = sha256_compress(kInit, KernelBlock2(StateWords(t)))
    BY KernelHashIs
  <2>3. sha256d_hash_words_be(b.midstate, b.tail, nonce_le)
          = sha256d_hash_words_be(c.midstate, c.tail, nonce_le)
    OBVIOUS
  <2> HIDE DEF b, c, s, t
  <2> QED
    BY <2>1, <2>2, <2>3
<1>2. s = t
  <2> HIDE DEF s, t
  <2>1. KernelBlock2(StateWords(s)) = KernelBlock2(StateWords(t))
    BY <1>1 DEF sha256_compress
  <2> QED
    BY <2>1, SecondTells
<1>3. b.midstate = c.midstate
  <2> HIDE DEF b, c
  <2> QED
    BY <1>2 DEF sha256_compress, s, t
<1>4. KernelBlock1(b.tail, nonce_le) = KernelBlock1(c.tail, nonce_le)
  <2> HIDE DEF b, c
  <2> QED
    BY <1>2 DEF sha256_compress, s, t
<1>5. ASSUME NEW k \in 1..64 PROVE header[k] = other[k]
  <2> DEFINE i == ((k - 1) \div 4) + 1
             m == ((k - 1) % 4) + 1
  <2>1. i \in 1..16
    OBVIOUS
  <2>2. m \in 1..4
    OBVIOUS
  <2>3. 64 * 0 + 4 * (i - 1) + m = k
    OBVIOUS
  <2>4. Block(header, 0) = Block(other, 0)
    BY <1>3 DEF build_midstate_from_header, sha256_compress
  <2> HIDE DEF i, m
  <2>5. Block(header, 0)[i] = WordAt(header, 64 * 0 + 4 * (i - 1))
    BY <2>1, BlockIs
  <2>6. Block(other, 0)[i] = WordAt(other, 64 * 0 + 4 * (i - 1))
    BY <2>1, BlockIs
  <2>7. WordAt(header, 64 * 0 + 4 * (i - 1))[m] = header[k]
    BY <2>2, <2>3 DEF WordAt
  <2>8. WordAt(other, 64 * 0 + 4 * (i - 1))[m] = other[k]
    BY <2>2, <2>3 DEF WordAt
  <2> QED
    BY <2>4, <2>5, <2>6, <2>7, <2>8
<1>6. /\ WordAt(header, 64) = WordAt(other, 64)
      /\ WordAt(header, 68) = WordAt(other, 68)
      /\ WordAt(header, 72) = WordAt(other, 72)
  <2>1. b.tail = <<WordAt(header, 64), WordAt(header, 68), WordAt(header, 72)>>
    BY LoadIs DEF build_midstate_from_header
  <2>2. c.tail = <<WordAt(other, 64), WordAt(other, 68), WordAt(other, 72)>>
    BY LoadIs DEF build_midstate_from_header
  <2> HIDE DEF b, c
  <2> QED
    BY <1>4, <2>1, <2>2, FirstTells
<1>7. ASSUME NEW k \in 65..76 PROVE header[k] = other[k]
  <2>1. \A m \in 1..4 : /\ header[64 + m] = other[64 + m]
                        /\ header[68 + m] = other[68 + m]
                        /\ header[72 + m] = other[72 + m]
    BY <1>6 DEF WordAt
  <2>2. CASE k \in 65..68
    <3>1. k - 64 \in 1..4 /\ 64 + (k - 64) = k
      BY <2>2
    <3> QED
      BY <2>1, <3>1
  <2>3. CASE k \in 69..72
    <3>1. k - 68 \in 1..4 /\ 68 + (k - 68) = k
      BY <2>3
    <3> QED
      BY <2>1, <3>1
  <2>4. CASE k \in 73..76
    <3>1. k - 72 \in 1..4 /\ 72 + (k - 72) = k
      BY <2>4
    <3> QED
      BY <2>1, <3>1
  <2> QED
    BY <2>2, <2>3, <2>4
<1> QED
  BY <1>5, <1>7

-----------------------------------------------------------------------------
(* The target of a difficulty, and the comparison with it, in integers.    *)

\* The words of a hash or, from its most significant one, of a target.
Digits == [1..Words -> 0 .. Word-1]

\* What the first k words of d stand for, k from 0 on.
IsValues(v, d) ==
  /\ v \in [0..Words -> Nat] /\ v[0] = 0
  /\ \A k \in 1..Words : v[k] = v[k - 1] * Word + d[k]

Values(d) ==
  CHOOSE v : v = [k \in 0..Words |-> IF k = 0 THEN 0 ELSE v[k - 1] * Word + d[k]]

\* A word after a number makes a larger number.
LEMMA Shifted ==
  ASSUME NEW a \in Nat, NEW w \in Nat
  PROVE  a * Word + w \in Nat
BY TargetAssumption

\* The recursion of HashValue has a solution.
LEMMA ValuesAre ==
  ASSUME NEW d \in Digits
  PROVE  IsValues(Values(d), d) /\ HashValue(d) = Values(d)[Words]
<1> DEFINE step == [k \in 1..Words |-> [a \in Nat |-> a * Word + d[k]]]
<1>1. Words \in Nat /\ Word \in Nat
  BY TargetAssumption
<1>2. \A k \in 1..Words : d[k] \in Nat
  BY <1>1 DEF Digits
<1>3. step \in [1..Words -> [Nat -> Nat]]
  <2>1. ASSUME NEW k \in 1..Words PROVE [a \in Nat |-> a * Word + d[k]] \in [Nat -> Nat]
    BY <1>2, Shifted
  <2> QED BY <2>1
<1>4. PICK f : Iterates(f, Words, Nat, 0, step)
  <2> HIDE DEF step
  <2> QED BY <1>1, <1>3, Iteration
<1>5. f \in [0..Words -> Nat] /\ f[0] = 0
  BY <1>4 DEF Iterates
<1>6. \A k \in 1..Words : f[k] = f[k - 1] * Word + d[k]
  <2> TAKE k \in 1..Words
  <2>1. f[k] = step[k][f[k - 1]]
    BY <1>4 DEF Iterates
  <2>2. f[k - 1] \in Nat
    BY <1>1, <1>5
  <2> QED BY <2>1, <2>2
<1>7. f = [k \in 0..Words |-> IF k = 0 THEN 0 ELSE f[k - 1] * Word + d[k]]
  <2> HIDE DEF step
  <2> QED BY <1>1, <1>5, <1>6
<1> DEFINE V == Values(d)
<1>8. V = [k \in 0..Words |-> IF k = 0 THEN 0 ELSE V[k - 1] * Word + d[k]]
  BY <1>7, Zenon DEF Values
<1>9. HashValue(d) = V[Words]
  BY Zenon DEF HashValue, Values
<1> HIDE DEF V
<1> DEFINE S == {k \in 0..Words : V[k] \in Nat}
<1>10. 0 \in S
  BY <1>1, <1>8
<1>11. \A k \in 0 .. Words-1 : k \in S => k + 1 \in S
  <2> TAKE k \in 0 .. Words-1
  <2> HAVE k \in S
  <2>1. V[k] \in Nat /\ d[k + 1] \in Nat /\ k + 1 \in 0..Words /\ k + 1 # 0 /\ (k + 1) - 1 = k
    BY <1>1, <1>2
  <2>2. V[k + 1] = V[k] * Word + d[k + 1]
    BY <1>8, <2>1
  <2> QED BY <2>1, <2>2, Shifted
<1>12. 0..Words \subseteq S
  <2> HIDE DEF S
  <2> QED BY <1>1, <1>10, <1>11, UpTo
<1>13. V \in [0..Words -> Nat] /\ V[0] = 0
  BY <1>1, <1>8, <1>12
<1>14. \A k \in 1..Words : V[k] = V[k - 1] * Word + d[k]
  BY <1>1, <1>8
<1> QED BY <1>9, <1>13, <1>14 DEF IsValues, V

\* Numbers compare by their last words only when the others are the same.
LEMMA Lexically ==
  ASSUME NEW a \in Nat, NEW b \in Nat, NEW x \in 0 .. Word-1, NEW y \in 0 .. Word-1
  PROVE  /\ (a * Word + x < b * Word + y) <=> (a < b \/ (a = b /\ x < y))
         /\ (a * Word + x = b * Word + y) <=> (a = b /\ x = y)
<1>1. Word \in Nat /\ Word >= 2
  BY TargetAssumption
<1>2. a < b => (a + 1) * Word <= b * Word
  BY <1>1
<1>3. b < a => (b + 1) * Word <= a * Word
  BY <1>1
<1>4. (a + 1) * Word = a * Word + Word /\ (b + 1) * Word = b * Word + Word
  BY <1>1
<1>5. a * Word \in Nat /\ b * Word \in Nat
  BY <1>1
<1> DEFINE aw == a * Word
           bw == b * Word
<1>6. a < b => aw + Word <= bw
  BY <1>2, <1>4
<1>7. b < a => bw + Word <= aw
  BY <1>3, <1>4
<1>8. a = b => aw = bw
  OBVIOUS
<1>9. aw \in Nat /\ bw \in Nat
  BY <1>5
<1> HIDE DEF aw, bw
<1>10. /\ (aw + x < bw + y) <=> (a < b \/ (a = b /\ x < y))
       /\ (aw + x = bw + y) <=> (a = b /\ x = y)
  BY <1>1, <1>6, <1>7, <1>8, <1>9
<1> QED BY <1>10 DEF aw, bw

\* The words up to k agree; the first that differs is smaller.
Agree(a, b, k) == \A i \in 1..k : a[i] = b[i]
Smaller(a, b, k) == \E i \in 1..k : a[i] < b[i] /\ Agree(a, b, i - 1)

\* Comparing words from the most significant one is comparing the numbers.
LEMMA ComparesValues ==
  ASSUME NEW a \in Digits, NEW b \in Digits
  PROVE  (Agree(a, b, Words) \/ Smaller(a, b, Words)) <=> HashValue(a) <= HashValue(b)
<1> DEFINE va == Values(a)
           vb == Values(b)
           S == {k \in 0..Words : /\ Agree(a, b, k) <=> va[k] = vb[k]
                                  /\ Smaller(a, b, k) <=> va[k] < vb[k]}
<1>1. Words \in Nat /\ Word \in Nat
  BY TargetAssumption
<1>2. IsValues(va, a) /\ HashValue(a) = va[Words]
  BY ValuesAre
<1>3. IsValues(vb, b) /\ HashValue(b) = vb[Words]
  BY ValuesAre
<1> HIDE DEF va, vb
<1>4. 0 \in S
  BY <1>1, <1>2, <1>3 DEF Agree, Smaller, IsValues
<1>5. ASSUME NEW k \in 0 .. Words-1, k \in S PROVE k + 1 \in S
  <2> DEFINE n == k + 1
  <2>1. k \in 0..Words /\ n \in 1..Words /\ n - 1 = k /\ n \in 0..Words
    BY <1>1
  <2>2. va[k] \in Nat /\ vb[k] \in Nat /\ a[n] \in 0 .. Word-1 /\ b[n] \in 0 .. Word-1
    BY <1>1, <1>2, <1>3, <2>1 DEF IsValues, Digits
  <2>3. va[n] = va[k] * Word + a[n] /\ vb[n] = vb[k] * Word + b[n]
    BY <1>2, <1>3, <2>1 DEF IsValues
  <2>4. /\ va[n] < vb[n] <=> (va[k] < vb[k] \/ (va[k] = vb[k] /\ a[n] < b[n]))
        /\ va[n] = vb[n] <=> (va[k] = vb[k] /\ a[n] = b[n])
    BY <2>2, <2>3, Lexically
  <2>5. Agree(a, b, n) <=> (Agree(a, b, k) /\ a[n] = b[n])
    BY <2>1 DEF Agree
  <2>6. Smaller(a, b, n) <=> (Smaller(a, b, k) \/ (Agree(a, b, k) /\ a[n] < b[n]))
    <3>1. ASSUME NEW i \in 1..n PROVE i \in 1..k \/ i = n
      BY <2>1
    <3>2. ASSUME NEW i \in 1..k PROVE i \in 1..n
      BY <2>1
    <3> QED BY <3>1, <3>2, <2>1 DEF Smaller
  <2>7. /\ Agree(a, b, k) <=> va[k] = vb[k]
        /\ Smaller(a, b, k) <=> va[k] < vb[k]
    BY <1>5
  <2> HIDE DEF n
  <2>8. /\ Agree(a, b, n) <=> va[n] = vb[n]
        /\ Smaller(a, b, n) <=> va[n] < vb[n]
    BY <2>4, <2>5, <2>6, <2>7
  <2>9. n \in S
    BY <2>1, <2>8
  <2> QED BY <2>9 DEF n
<1>6. 0..Words \subseteq S
  <2> HIDE DEF S
  <2> QED BY <1>1, <1>4, <1>5, UpTo
<1>7. Words \in S
  BY <1>1, <1>6
<1>8. va[Words] \in Nat /\ vb[Words] \in Nat
  BY <1>1, <1>2, <1>3 DEF IsValues
<1> QED BY <1>2, <1>3, <1>7, <1>8

\* hash_be_meets_target is the comparison of what hash and target stand for.
LEMMA MeetsIsAtMost ==
  ASSUME NEW hash \in Digits, NEW target \in [0 .. Words-1 -> 0 .. Word-1]
  PROVE  hash_be_meets_target(hash, target) <=> HashValue(hash) <= TargetValue(target)
<1> DEFINE t == [k \in 1..Words |-> target[Words - k]]
<1>1. Words \in Nat
  BY TargetAssumption
<1>2. ASSUME NEW k \in 1..Words PROVE target[Words - k] \in 0 .. Word-1
  <2>1. Words - k \in 0 .. Words-1
    BY <1>1
  <2> QED BY <2>1
<1>3. t \in Digits
  BY <1>2 DEF Digits
<1>4. TargetValue(target) = HashValue(t)
  BY DEF TargetValue
<1>5. \A k \in 1..Words : t[k] = target[Words - k]
  OBVIOUS
<1> HIDE DEF t
<1>6. Agree(hash, t, Words) <=> \A i \in 1..Words : hash[i] = target[Words - i]
  BY <1>5 DEF Agree
<1>7. ASSUME NEW i \in 1..Words
      PROVE  Agree(hash, t, i - 1) <=> \A k \in 1 .. i-1 : hash[k] = target[Words - k]
  <2>1. \A k \in 1 .. i-1 : k \in 1..Words
    BY <1>1
  <2> QED BY <1>5, <2>1 DEF Agree
<1>8. Smaller(hash, t, Words) <=>
        \E i \in 1..Words : /\ hash[i] < target[Words - i]
                            /\ \A k \in 1 .. i-1 : hash[k] = target[Words - k]
  BY <1>5, <1>7 DEF Smaller
<1> QED BY <1>3, <1>4, <1>6, <1>8, ComparesValues DEF hash_be_meets_target

\* The long division keeps what it has divided so far: one more word.
LEMMA DividedFurther ==
  ASSUME NEW divisor \in 1..Word, NEW rem \in 0 .. divisor-1, NEW i \in 0 .. Words-1,
         NEW above \in Nat, NEW quotient \in Nat, above = quotient * divisor + rem
  PROVE  LET step == DivideWord(rem, i, divisor)
         IN  /\ step.q \in 0 .. Word-1 /\ step.rem \in 0 .. divisor-1
             /\ above * Word + kDiff1Target[i] = (quotient * Word + step.q) * divisor + step.rem
<1> DEFINE w == kDiff1Target[i]
           cur == rem * Word + w
           q == cur \div divisor
           r == cur % divisor
<1>1. Word \in Nat /\ Word >= 2 /\ divisor \in Nat /\ divisor > 0 /\ divisor <= Word /\ rem \in Nat
      /\ rem < divisor
  BY TargetAssumption
<1>2. w \in 0 .. Word-1
  <2>1. HighHalf \in 1 .. Word-1
    BY TargetAssumption
  <2> QED BY <1>1, <2>1 DEF kDiff1Target
<1> HIDE DEF w
<1>3. rem * Word \in Nat /\ rem * Word < Word * Word
  BY <1>1, SMTT(30)
<1>4. (rem * Word) % (Word * Word) = rem * Word
  <2> DEFINE m == rem * Word
             n == Word * Word
  <2>1. m \in Nat /\ n \in Nat /\ m < n
    BY <1>1, <1>3
  <2> HIDE DEF m, n
  <2>2. m % n = m
    BY <2>1
  <2> QED BY <2>2 DEF m, n
<1>5. cur \in Nat /\ cur < divisor * Word
  <2>1. (rem + 1) * Word <= divisor * Word
    BY <1>1, SMTT(30)
  <2>2. (rem + 1) * Word = rem * Word + Word
    BY <1>1
  <2> DEFINE m == rem * Word
             n == divisor * Word
  <2>3. m \in Nat /\ m + Word <= n /\ n \in Nat
    BY <1>1, <1>3, <2>1, <2>2
  <2> HIDE DEF m, n
  <2>4. m + w \in Nat /\ m + w < n
    BY <1>1, <1>2, <2>3
  <2> QED BY <2>4 DEF m, n
<1> HIDE DEF cur
<1>6. q \in Nat /\ r \in 0 .. divisor-1 /\ cur = divisor * q + r
  <2>1. cur \in Nat /\ divisor \in Nat \ {0}
    BY <1>1, <1>5
  <2> HIDE DEF w
  <2>2. ASSUME NEW c \in Nat, NEW n \in Nat \ {0}
        PROVE  c \div n \in Nat /\ c % n \in 0 .. n-1 /\ c = n * (c \div n) + (c % n)
    BY ONLY <2>2, Divided
  <2> QED BY <2>1, <2>2
<1> HIDE DEF q, r
<1>7. q < Word
  <2>1. divisor * q < divisor * Word
    <3> DEFINE m == divisor * q
               n == divisor * Word
    <3>1. m \in Nat /\ n \in Nat /\ cur = m + r /\ cur < n
      BY <1>1, <1>5, <1>6
    <3> HIDE DEF m, n
    <3>2. m < n
      BY <1>1, <1>6, <3>1
    <3> QED BY <3>2 DEF m, n
  <2> QED BY <1>1, <1>6, <2>1, SMTT(30)
<1>8. q % Word = q
  BY <1>1, <1>6, <1>7
<1>9. DivideWord(rem, i, divisor) = [q |-> q, rem |-> r]
  BY <1>4, <1>8 DEF DivideWord, q, r, cur, w
<1>10. above * Word + w = (quotient * Word + q) * divisor + r
  <2>1. above * Word = quotient * divisor * Word + rem * Word
    BY <1>1, SMTT(30)
  <2>2. (quotient * Word + q) * divisor = quotient * divisor * Word + divisor * q
    BY <1>1, <1>6, SMTT(30)
  <2> DEFINE A == above * Word
             B == quotient * divisor * Word
             C == rem * Word
             D == (quotient * Word + q) * divisor
             E == divisor * q
  <2>3. /\ A \in Nat /\ B \in Nat /\ C \in Nat /\ D \in Nat /\ E \in Nat
        /\ A = B + C /\ D = B + E /\ C + w = E + r
    BY <1>1, <1>2, <1>3, <1>6, <2>1, <2>2 DEF cur
  <2> HIDE DEF A, B, C, D, E
  <2>4. A + w = D + r
    BY <1>1, <1>2, <1>6, <2>3
  <2> QED BY <2>4 DEF A, D
<1>11. q \in 0 .. Word-1
  BY <1>1, <1>6, <1>7
<1>12. DivideWord(rem, i, divisor).q = q /\ DivideWord(rem, i, divisor).rem = r
  BY <1>9
<1> QED BY <1>6, <1>10, <1>11, <1>12 DEF w

\* What each position of the long division passes down.
Remainders(divisor) ==
  CHOOSE rem : rem = [i \in 0..Words |->
    IF i = Words THEN 0 ELSE DivideWord(rem[i + 1], i, divisor).rem]

\* The recursion of the remainders has a solution, below the divisor.
LEMMA RemaindersAre ==
  ASSUME NEW divisor \in 1..Word
  PROVE  LET rem == Remainders(divisor)
         IN  /\ rem[Words] = 0
             /\ \A i \in 0..Words : rem[i] \in 0 .. divisor-1
             /\ \A i \in 0 .. Words-1 : rem[i] = DivideWord(rem[i + 1], i, divisor).rem
<1> DEFINE T == 0 .. divisor-1
           step == [k \in 1..Words |-> [r \in T |-> DivideWord(r, Words - k, divisor).rem]]
<1>1. Words \in Nat /\ Word \in Nat /\ divisor \in Nat /\ divisor >= 1
  BY TargetAssumption
<1>2. ASSUME NEW r \in T, NEW i \in 0 .. Words-1
      PROVE  DivideWord(r, i, divisor).rem \in T
  <2>1. r \in Nat /\ 0 \in Nat /\ r = 0 * divisor + r
    BY <1>1
  <2> QED BY <2>1, DividedFurther
<1>3. step \in [1..Words -> [T -> T]]
  <2>1. ASSUME NEW k \in 1..Words
        PROVE  [r \in T |-> DivideWord(r, Words - k, divisor).rem] \in [T -> T]
    <3>1. Words - k \in 0 .. Words-1
      BY <1>1
    <3> HIDE DEF T
    <3> QED BY <3>1, <1>2
  <2> QED BY <2>1
<1>4. PICK f : Iterates(f, Words, T, 0, step)
  <2>1. 0 \in T
    BY <1>1
  <2> HIDE DEF step, T
  <2> QED BY <1>1, <1>3, <2>1, Iteration
<1> DEFINE g == [i \in 0..Words |-> f[Words - i]]
<1>5. \A k \in 0..Words : f[k] \in T
  BY <1>4 DEF Iterates
<1>6. \A i \in 0..Words : g[i] \in T
  <2> TAKE i \in 0..Words
  <2>1. Words - i \in 0..Words
    BY <1>1
  <2> QED BY <1>5, <2>1
<1>7. g[Words] = 0
  <2>1. Words \in 0..Words /\ Words - Words = 0
    BY <1>1
  <2>2. f[0] = 0
    BY <1>4 DEF Iterates
  <2> QED BY <2>1, <2>2
<1>8. \A i \in 0 .. Words-1 : g[i] = DivideWord(g[i + 1], i, divisor).rem
  <2> TAKE i \in 0 .. Words-1
  <2> DEFINE k == Words - i
  <2>1. k \in 1..Words /\ Words - k = i /\ k - 1 = Words - (i + 1) /\ i \in 0..Words
        /\ i + 1 \in 0..Words /\ k - 1 \in 0..Words
    BY <1>1
  <2>2. f[k] = step[k][f[k - 1]]
    BY <1>4, <2>1 DEF Iterates
  <2>3. step[k][f[k - 1]] = DivideWord(f[k - 1], Words - k, divisor).rem
    BY <1>5, <2>1
  <2>4. g[i] = f[k] /\ g[i + 1] = f[k - 1]
    BY <2>1
  <2> QED BY <2>1, <2>2, <2>3, <2>4
<1> HIDE DEF g
<1> DEFINE h == [i \in 0..Words |-> IF i = Words THEN 0 ELSE DivideWord(g[i + 1], i, divisor).rem]
<1>9. \A i \in 0..Words : g[i] = h[i]
  BY <1>1, <1>7, <1>8
<1>10. g = h
  <2>1. g = [i \in 0..Words |-> g[i]]
    BY DEF g
  <2>2. h = [i \in 0..Words |-> h[i]]
    OBVIOUS
  <2> HIDE DEF h
  <2> QED BY <1>9, <2>1, <2>2
<1> DEFINE R == Remainders(divisor)
<1>11. R = [i \in 0..Words |-> IF i = Words THEN 0 ELSE DivideWord(R[i + 1], i, divisor).rem]
  BY <1>10, Zenon DEF Remainders
<1> HIDE DEF R
<1>12. R[Words] = 0 /\ \A i \in 0 .. Words-1 : R[i] = DivideWord(R[i + 1], i, divisor).rem
  <2>1. Words \in 0..Words /\ \A i \in 0 .. Words-1 : i \in 0..Words /\ i # Words
    BY <1>1
  <2>2. \A i \in 0..Words : R[i] = IF i = Words THEN 0 ELSE DivideWord(R[i + 1], i, divisor).rem
    <3> DEFINE E(i) == IF i = Words THEN 0 ELSE DivideWord(R[i + 1], i, divisor).rem
    <3>1. R = [i \in 0..Words |-> E(i)]
      BY <1>11
    <3> HIDE DEF E
    <3>2. \A i \in 0..Words : R[i] = E(i)
      BY <3>1
    <3> QED BY <3>2 DEF E
  <2> QED BY <2>1, <2>2
<1> DEFINE S == {k \in 0..Words : R[Words - k] \in T}
<1>13. 0 \in S
  BY <1>1, <1>12
<1>14. \A k \in 0 .. Words-1 : k \in S => k + 1 \in S
  <2> TAKE k \in 0 .. Words-1
  <2> HAVE k \in S
  <2> DEFINE i == Words - (k + 1)
  <2>1. i \in 0 .. Words-1 /\ i + 1 = Words - k /\ k + 1 \in 0..Words
    BY <1>1
  <2>2. R[i + 1] \in T
    BY <2>1
  <2>3. R[i] \in T
    <3> HIDE DEF T, i
    <3> QED BY <1>2, <1>12, <2>1, <2>2
  <2> QED BY <2>1, <2>3
<1>15. 0..Words \subseteq S
  <2> HIDE DEF S
  <2> QED BY <1>1, <1>13, <1>14, UpTo
<1>16. \A i \in 0..Words : R[i] \in T
  <2> TAKE i \in 0..Words
  <2>1. Words - i \in S /\ Words - (Words - i) = i
    BY <1>1, <1>15
  <2> QED BY <2>1
<1> QED BY <1>12, <1>16 DEF R

\* The words of the target of a difficulty, and the integer they stand for:
\* the long division is a division, and cuts no word.
LEMMA TargetIsQuotient ==
  ASSUME NEW halves \in Nat, integer_diff(halves) <= Word
  PROVE  LET target == target_from_difficulty(halves)
         IN  /\ target \in [0 .. Words-1 -> 0 .. Word-1]
             /\ TargetValue(target) = TargetValue(kDiff1Target) \div integer_diff(halves)
<1> DEFINE divisor == integer_diff(halves)
           rem == Remainders(divisor)
           target == target_from_difficulty(halves)
           t == [k \in 1..Words |-> target[Words - k]]
           d == [k \in 1..Words |-> kDiff1Target[Words - k]]
           vt == Values(t)
           vd == Values(d)
<1>1. Words \in Nat /\ Word \in Nat /\ Words >= 2
  BY TargetAssumption
<1>2. divisor \in 1..Word
  BY <1>1 DEF integer_diff
<1>3. target = [i \in 0 .. Words-1 |-> DivideWord(rem[i + 1], i, divisor).q]
  BY Zenon DEF target_from_difficulty, Remainders
<1> HIDE DEF divisor, rem, target
<1>4. /\ rem[Words] = 0
      /\ \A i \in 0..Words : rem[i] \in 0 .. divisor-1
      /\ \A i \in 0 .. Words-1 : rem[i] = DivideWord(rem[i + 1], i, divisor).rem
  BY <1>2, RemaindersAre DEF rem
<1>5. target \in [0 .. Words-1 -> 0 .. Word-1]
  <2>1. ASSUME NEW i \in 0 .. Words-1 PROVE DivideWord(rem[i + 1], i, divisor).q \in 0 .. Word-1
    <3> DEFINE r == rem[i + 1]
    <3>1. r \in 0 .. divisor-1
      BY <1>1, <1>4
    <3>2. r \in Nat /\ r = 0 * divisor + r /\ 0 \in Nat
      BY <1>1, <1>2, <3>1
    <3> HIDE DEF r
    <3>3. DivideWord(r, i, divisor).q \in 0 .. Word-1
      BY <1>2, <3>1, <3>2, DividedFurther
    <3> QED BY <3>3 DEF r
  <2> QED BY <1>3, <2>1
<1>6. t \in Digits
  <2>1. ASSUME NEW k \in 1..Words PROVE target[Words - k] \in 0 .. Word-1
    <3>1. Words - k \in 0 .. Words-1
      BY <1>1
    <3> QED BY <1>5, <3>1
  <2> QED BY <2>1 DEF Digits
<1>7. d \in Digits
  <2>1. ASSUME NEW k \in 1..Words PROVE kDiff1Target[Words - k] \in 0 .. Word-1
    <3>1. Words - k \in 0 .. Words-1 /\ HighHalf \in 0 .. Word-1 /\ 0 \in 0 .. Word-1
      BY <1>1, TargetAssumption
    <3> QED BY <3>1 DEF kDiff1Target
  <2> QED BY <2>1 DEF Digits
<1>8. TargetValue(target) = HashValue(t) /\ TargetValue(kDiff1Target) = HashValue(d)
  BY DEF TargetValue
<1>9. \A k \in 1..Words : t[k] = target[Words - k] /\ d[k] = kDiff1Target[Words - k]
  OBVIOUS
<1> HIDE DEF t, d
<1>10. IsValues(vt, t) /\ HashValue(t) = vt[Words] /\ IsValues(vd, d) /\ HashValue(d) = vd[Words]
  BY <1>6, <1>7, ValuesAre
<1> HIDE DEF vt, vd
<1> DEFINE S == {k \in 0..Words : vd[k] = vt[k] * divisor + rem[Words - k]}
<1>11. 0 \in S
  <2>1. vd[0] = 0 /\ vt[0] = 0 /\ rem[Words] = 0 /\ Words - 0 = Words
    BY <1>1, <1>4, <1>10 DEF IsValues
  <2>2. vd[0] = vt[0] * divisor + rem[Words - 0]
    BY <1>2, <2>1
  <2> QED BY <1>1, <2>2
<1>12. ASSUME NEW k \in 0 .. Words-1, k \in S PROVE k + 1 \in S
  <2> DEFINE n == k + 1
             i == Words - n
             r == rem[i + 1]
  <2>1. /\ n \in 1..Words /\ n - 1 = k /\ k \in 0..Words /\ n \in 0..Words
        /\ i \in 0 .. Words-1 /\ i + 1 = Words - k /\ i + 1 \in 0..Words
    BY <1>1
  <2>2. r \in 0 .. divisor-1 /\ vd[k] \in Nat /\ vt[k] \in Nat
    BY <1>4, <1>10, <2>1 DEF IsValues
  <2>3. vd[k] = vt[k] * divisor + r
    BY <1>12, <2>1
  <2>4. vd[n] = vd[k] * Word + kDiff1Target[i] /\ vt[n] = vt[k] * Word + target[i]
    BY <1>9, <1>10, <2>1 DEF IsValues
  <2>5. target[i] = DivideWord(r, i, divisor).q /\ rem[i] = DivideWord(r, i, divisor).rem
    BY <1>3, <1>4, <2>1
  <2> HIDE DEF r, i, n
  <2>6. vd[k] * Word + kDiff1Target[i]
          = (vt[k] * Word + DivideWord(r, i, divisor).q) * divisor + DivideWord(r, i, divisor).rem
    BY <1>2, <2>1, <2>2, <2>3, DividedFurther
  <2>7. vd[n] = vt[n] * divisor + rem[i]
    BY <2>4, <2>5, <2>6
  <2> QED BY <2>1, <2>7 DEF n, i
<1>13. 0..Words \subseteq S
  <2> HIDE DEF S
  <2> QED BY <1>1, <1>11, <1>12, UpTo
<1>14. vd[Words] = vt[Words] * divisor + rem[0]
  BY <1>1, <1>13
<1>15. rem[0] \in 0 .. divisor-1 /\ vd[Words] \in Nat /\ vt[Words] \in Nat
  BY <1>1, <1>4, <1>10 DEF IsValues
<1>16. vd[Words] \div divisor = vt[Words]
  <2> DEFINE a == vd[Words]
             b == vt[Words]
             c == rem[0]
  <2>1. a \in Nat /\ b \in Nat /\ c \in Nat /\ c < divisor /\ divisor \in Nat \ {0} /\ a = b * divisor + c
    BY <1>1, <1>2, <1>14, <1>15
  <2> HIDE DEF a, b, c
  <2>2. b \in Int /\ c \in 0 .. divisor-1 /\ divisor \in Nat \ {0} /\ a = divisor * b + c
    BY <2>1
  <2>3. a \div divisor = b
    BY <2>1, <2>2, Remainder
  <2> QED BY <2>3 DEF a, b
<1> QED BY <1>5, <1>8, <1>10, <1>16 DEF target, divisor

-----------------------------------------------------------------------------
(* The inductive invariant.                                                *)

Midstates == {Built[j].midstate : j \in Jobs} \cup {Unset}
Tails == {Built[j].tail : j \in Jobs} \cup {Unset}
Targets == {Target[d] : d \in Difficulties} \cup {Unset}
Hashes == [1..Words -> 0 .. Word-1] \cup {Unset}

EngineType ==
  [blocks : Nat, threads : Nat,
   cached_midstate : Midstates, d_midstate : Midstates, midstate_valid : BOOLEAN,
   cached_target : Targets, d_target : Targets, target_valid : BOOLEAN]
WorkType ==
  [nonce_count : Nat, start_nonce : Nat, midstate : Midstates, tail : Tails, target : Targets]
ResultType == [found : BOOLEAN, nonce : Nat, hash : Hashes]
ThreadType ==
  [pc : {"head", "first", "second", "nonce", "hash", "exit"}, i : Nat,
   poll_counter : 0 .. PollEvery-1, nonce : Nat]
Threads == 0 .. Stride-1

Types ==
  /\ digest \in Digests /\ config \in Configs
  /\ engine \in EngineType
  /\ device_result \in ResultType /\ result \in ResultType
  /\ wpc \in {"start", "ready", "scan", "judge", "end"}
  /\ job \in Jobs \cup {NoJob} /\ diff \in Difficulties \cup {0}
  /\ partition_scanned \in 0 .. Partition.size - 1
  /\ work \in WorkType
  /\ scans \in 0..MaxScans
  /\ wpc # "scan" => gpu = Unset

\* An engine that was made has threads to run, and while its worker lives,
\* what it has marked valid is what the device holds.
EngineInv ==
  /\ wpc = "start" => engine = NoEngine
  /\ wpc \in {"ready", "scan", "judge"} => Stride # 0
  /\ engine.threads <= MaxThreads
  /\ wpc # "end" =>
       /\ engine.midstate_valid => engine.d_midstate = engine.cached_midstate
       /\ engine.target_valid => engine.d_target = engine.cached_target

\* The chunk is the worker's job's, and inside its partition.
WorkInv ==
  /\ work.nonce_count <= Partition.size
  /\ wpc \in {"scan", "judge"} =>
       /\ job \in Jobs /\ diff \in Difficulties
       /\ work.start_nonce = Partition.start + partition_scanned
       /\ work.nonce_count + partition_scanned <= Partition.size
       /\ work.midstate = Built[job].midstate /\ work.tail = Built[job].tail
       /\ work.target = Target[diff]

\* The kernel runs on this chunk's midstate and target.
DeviceInv ==
  wpc = "scan" =>
    /\ gpu \in [Threads -> ThreadType]
    /\ engine.d_midstate = work.midstate /\ engine.d_target = work.target

\* Thread t still comes to the index k.
ComesTo(t, k) ==
  \/ gpu[t].pc \in {"head", "first"} /\ gpu[t].i <= k
  \/ gpu[t].pc = "second" /\ gpu[t].i + Stride <= k

\* Until a share is found, each candidate is ahead of the thread that steps
\* over it.
CoverInv ==
  wpc = "scan" =>
    /\ \A t \in Threads : gpu[t].i % Stride = t
    /\ \A t \in Threads : gpu[t].pc = "first" => InChunk(gpu[t].i)
    /\ ~device_result.found =>
         \A t \in Threads, k \in Nat :
           k % Stride = t /\ work.start_nonce + k \in Candidates => ComesTo(t, k)

Writes(t) == gpu[t].pc \in {"nonce", "hash"}

\* One thread at most writes the result, of a candidate; when none is left
\* to write, a result found is genuine.
WinnerInv ==
  wpc = "scan" =>
    /\ \A t \in Threads : Writes(t) => device_result.found /\ gpu[t].nonce \in Candidates
    /\ \A t, u \in Threads : Writes(t) /\ Writes(u) => t = u
    /\ \A t \in Threads : gpu[t].pc = "hash" => device_result.nonce = gpu[t].nonce
    /\ device_result.found /\ (\A t \in Threads : ~Writes(t)) =>
         /\ device_result.nonce \in Candidates
         /\ device_result.hash = digest[job, device_result.nonce]

IInv ==
  /\ Types /\ EngineInv /\ WorkInv /\ DeviceInv /\ CoverInv /\ WinnerInv
  /\ FindsCandidates /\ ResultIsGenuine /\ NoFalsePositives

-----------------------------------------------------------------------------
(* What the kernel computes for the chunk.                                 *)

\* What the worker built from a job's header hashes as that job's headers and
\* no other's.
LEMMA HashedIs ==
  ASSUME NEW j \in Jobs, NEW n \in Nonces
  PROVE  HashedHeaders[Built[j].midstate][Built[j].tail][n] = {j}
<1> DEFINE S == {<<b>> : b \in 0..255}
           b == build_midstate_from_header(Header[j])
           H(k) == sha256d(verify_header(Header[k], n))
           K(k) == sha256d_hash_words_be(build_midstate_from_header(Header[k]).midstate,
                                         build_midstate_from_header(Header[k]).tail, WordOf(n))
<1>1. \A k \in Jobs : Header[k] \in [1..80 -> S]
  BY ScanAssumption
<1>2. Built[j] = b
  BY Zenon DEF Built
<1>3. HashedHeaders[b.midstate][b.tail][n]
        = {k \in Jobs : sha256d_hash_words_be(b.midstate, b.tail, WordOf(n)) = H(k)}
  <2> DEFINE ms == {Built[k].midstate : k \in Jobs} \cup {Unset}
             ts == {Built[k].tail : k \in Jobs}
             F(m, t, x) == {k \in Jobs : sha256d_hash_words_be(m, t, WordOf(x))
                                           = sha256d(verify_header(Header[k], x))}
  <2>1. b.midstate \in ms /\ b.tail \in ts
    BY <1>2
  <2>2. HashedHeaders = [m \in ms |-> [t \in ts |-> [x \in Nonces |-> F(m, t, x)]]]
    BY DEF HashedHeaders
  <2> HIDE DEF ms, ts, b, F
  <2>3. HashedHeaders[b.midstate][b.tail][n] = F(b.midstate, b.tail, n)
    BY <2>1, <2>2
  <2> QED
    BY <2>3 DEF F
<1>4. \A k \in Jobs : H(k) = K(k)
  <2> HIDE DEF S
  <2> QED
    BY <1>1, GpuHashesTheHeader
<1>5. ASSUME NEW k \in Jobs, K(j) = K(k) PROVE j = k
  <2>1. \A i \in 1..76 : Header[j][i] = Header[k][i]
    <3>1. Header[j] \in [1..80 -> S] /\ Header[k] \in [1..80 -> S]
      BY <1>1
    <3> HIDE DEF S
    <3> QED
      BY <1>5, <3>1, KernelTells
  <2> QED
    BY <2>1, ScanAssumption
<1>6. K(j) = sha256d_hash_words_be(b.midstate, b.tail, WordOf(n))
  OBVIOUS
<1> HIDE DEF b, H, K
<1>7. {k \in Jobs : sha256d_hash_words_be(b.midstate, b.tail, WordOf(n)) = H(k)} = {j}
  BY <1>4, <1>5, <1>6
<1> QED
  BY <1>2, <1>3, <1>7

\* The nonces of the chunk are the worker's.
LEMMA ChunkInNonces ==
  ASSUME Types, WorkInv, wpc \in {"scan", "judge"}
  PROVE  Chunk \subseteq Nonces
<1>1. Partition.start \in Nat /\ Partition.size \in Nat
  BY ScanAssumption
<1>2. work.nonce_count \in Nat /\ partition_scanned \in Nat
  <2>1. work \in WorkType /\ partition_scanned \in 0 .. Partition.size - 1
    BY DEF Types
  <2> QED
    BY <1>1, <2>1 DEF WorkType
<1>3. work.start_nonce = Partition.start + partition_scanned
  BY DEF WorkInv
<1>4. work.nonce_count + partition_scanned <= Partition.size
  BY DEF WorkInv
<1> QED
  BY <1>1, <1>2, <1>3, <1>4 DEF Chunk, Nonces

\* For a nonce of the chunk the kernel computes the hash of the worker's header.
LEMMA DigestIs ==
  ASSUME Types, WorkInv, DeviceInv, wpc = "scan", NEW n \in Chunk
  PROVE  /\ DigestOf(n) = digest[job, n]
         /\ DigestOf(n) \in Hashes
         /\ hash_be_meets_target_le(DigestOf(n), engine.d_target) <=> n \in Candidates
<1>1. n \in Nonces
  BY ChunkInNonces
<1>2. job \in Jobs /\ diff \in Difficulties
  BY DEF WorkInv
<1>3. engine.d_midstate = Built[job].midstate
  BY DEF WorkInv, DeviceInv
<1>4. work.tail = Built[job].tail
  BY DEF WorkInv
<1>5. engine.d_target = target_from_difficulty(diff)
  BY <1>2 DEF WorkInv, DeviceInv, Target
<1>6. HashedHeaders[engine.d_midstate][work.tail][n] = {job}
  BY <1>1, <1>2, <1>3, <1>4, HashedIs
<1>8. DigestOf(n) = digest[job, n]
  <2> DEFINE hashed == IF n \in Nonces THEN HashedHeaders[engine.d_midstate][work.tail][n] ELSE {}
  <2>1. hashed = {job}
    BY <1>1, <1>6
  <2>2. DigestOf(n) = IF hashed = {} THEN [i \in 1..Words |-> 0]
                      ELSE digest[CHOOSE j \in hashed : TRUE, n]
    BY Zenon DEF DigestOf
  <2> HIDE DEF hashed
  <2>3. (CHOOSE j \in hashed : TRUE) = job
    BY <2>1
  <2> QED
    BY <2>1, <2>2, <2>3
<1>9. digest \in [Jobs \X Nonces -> [1..Words -> 0 .. Word-1]]
  <2>1. digest \in Digests
    BY DEF Types
  <2>2. \A d \in Digests : d \in [Jobs \X Nonces -> [1..Words -> 0 .. Word-1]]
    BY ScanAssumption
  <2> QED
    BY <2>1, <2>2
<1>10. digest[job, n] \in Hashes
  BY <1>1, <1>2, <1>9 DEF Hashes
<1> QED
  BY <1>5, <1>8, <1>10 DEF Candidates, hash_be_meets_target_le

-----------------------------------------------------------------------------
(* The kernel's steps.                                                     *)

\* The facts about a running kernel that the proofs of its steps start from.
LEMMA Running ==
  ASSUME IInv, wpc = "scan"
  PROVE  /\ Stride \in Nat \ {0}
         /\ gpu \in [Threads -> ThreadType]
         /\ device_result \in ResultType
         /\ work.nonce_count \in Nat
         /\ work.start_nonce \in Nat
<1>1. Stride \in Nat
  <2>1. engine \in EngineType
    BY DEF IInv, Types
  <2>2. engine.blocks \in Nat /\ engine.threads \in Nat
    BY <2>1 DEF EngineType
  <2> QED
    BY <2>2 DEF Stride
<1>2. Stride # 0
  BY DEF IInv, EngineInv
<1>3. gpu \in [Threads -> ThreadType]
  BY DEF IInv, DeviceInv
<1>4. work \in WorkType /\ device_result \in ResultType
  BY DEF IInv, Types
<1>5. work.nonce_count \in Nat /\ work.start_nonce \in Nat
  BY <1>4 DEF WorkType
<1> QED
  BY <1>1, <1>2, <1>3, <1>4, <1>5

\* Where the kernel leaves the worker's variables alone, the chunk, its
\* candidates and the threads stay.
LEMMA Same ==
  ASSUME UNCHANGED workerVars
  PROVE  /\ Chunk' = Chunk /\ Candidates' = Candidates
         /\ Stride' = Stride /\ Threads' = Threads
         /\ \A k : InChunk(k)' <=> InChunk(k)
         /\ \A n : DigestOf(n)' = DigestOf(n)
<1>1. digest' = digest /\ engine' = engine /\ job' = job /\ diff' = diff /\ work' = work
  BY DEF workerVars
<1> QED
  BY <1>1 DEF Chunk, Candidates, Stride, Threads, InChunk, DigestOf

\* A step of thread t of the kernel to r.
Steps(t, r) ==
  /\ wpc = "scan" /\ t \in Threads
  /\ UNCHANGED workerVars
  /\ r \in ThreadType /\ SetThread(t, r)
  /\ device_result' \in ResultType

\* It keeps what is about the worker and the engine.
LEMMA StepFrame ==
  ASSUME IInv, NEW t, NEW r, Steps(t, r), CoverInv', WinnerInv'
  PROVE  IInv'
<1>1. /\ digest' = digest /\ config' = config /\ engine' = engine /\ wpc' = wpc /\ job' = job
      /\ diff' = diff /\ partition_scanned' = partition_scanned /\ work' = work
      /\ result' = result /\ false_positives' = false_positives /\ scans' = scans
  BY DEF Steps, workerVars
<1>2. wpc = "scan" /\ device_result' \in ResultType
  BY DEF Steps
<1>3. gpu' \in [Threads -> ThreadType]
  <2>1. gpu \in [Threads -> ThreadType]
    BY <1>2, Running
  <2>2. r \in ThreadType /\ gpu' = [gpu EXCEPT ![t] = r]
    BY DEF Steps, SetThread
  <2> QED
    BY <2>1, <2>2
<1>4. Threads' = Threads /\ Stride' = Stride
  BY Same DEF Steps
<1>5. Types'
  <2>1. Types
    BY DEF IInv
  <2> QED
    BY <1>1, <1>2, <2>1 DEF Types
<1>6. EngineInv'
  <2>1. EngineInv
    BY DEF IInv
  <2> QED
    BY <1>1, <1>4, <2>1 DEF EngineInv
<1>7. WorkInv'
  <2>1. WorkInv
    BY DEF IInv
  <2> QED
    BY <1>1, <2>1 DEF WorkInv
<1>8. DeviceInv'
  <2>1. DeviceInv
    BY DEF IInv
  <2> QED
    BY <1>1, <1>3, <1>4, <2>1 DEF DeviceInv
<1>9. FindsCandidates' /\ ResultIsGenuine' /\ NoFalsePositives'
  <2>1. NoFalsePositives
    BY DEF IInv
  <2>2. wpc' # "judge"
    BY <1>1, <1>2
  <2> QED
    BY <1>1, <2>1, <2>2 DEF FindsCandidates, ResultIsGenuine, NoFalsePositives
<1> QED
  BY <1>5, <1>6, <1>7, <1>8, <1>9 DEF IInv

\* The index k is still ahead of a thread that is at r.
Ahead(r, k) ==
  \/ r.pc \in {"head", "first"} /\ r.i <= k
  \/ r.pc = "second" /\ r.i + Stride <= k

\* It keeps the candidates covered if it passes none by.
LEMMA StepCovers ==
  ASSUME IInv, NEW t, NEW r, Steps(t, r),
         r.i % Stride = t, r.pc = "first" => InChunk(r.i),
         device_result.found => device_result'.found,
         \A k \in Nat : ~device_result'.found /\ k % Stride = t
                          /\ work.start_nonce + k \in Candidates /\ Ahead(gpu[t], k) => Ahead(r, k)
  PROVE  CoverInv'
<1>1. wpc = "scan" /\ t \in Threads /\ work' = work
  BY DEF Steps, workerVars
<1>2. gpu \in [Threads -> ThreadType] /\ gpu' = [gpu EXCEPT ![t] = r]
  BY <1>1, Running DEF Steps, SetThread
<1>3. Threads' = Threads /\ Stride' = Stride /\ Candidates' = Candidates
      /\ \A k : InChunk(k)' <=> InChunk(k)
  BY Same DEF Steps
<1>4. CoverInv
  BY DEF IInv
<1>5. \A u \in Threads : gpu'[u] = IF u = t THEN r ELSE gpu[u]
  BY <1>2
<1>6. \A u \in Threads : gpu'[u].i % Stride = u
  <2>1. \A u \in Threads : gpu[u].i % Stride = u
    BY <1>1, <1>4 DEF CoverInv
  <2> QED
    BY <1>5, <2>1
<1>7. \A u \in Threads : gpu'[u].pc = "first" => gpu'[u].i < work.nonce_count
  <2>1. \A u \in Threads : gpu[u].pc = "first" => gpu[u].i < work.nonce_count
    BY <1>1, <1>4 DEF CoverInv, InChunk
  <2>2. r.pc = "first" => r.i < work.nonce_count
    BY DEF InChunk
  <2> QED
    BY <1>5, <2>1, <2>2
<1>8. ASSUME ~device_result'.found, NEW u \in Threads, NEW k \in Nat,
             k % Stride = u, work.start_nonce + k \in Candidates
      PROVE  Ahead(gpu'[u], k)
  <2>1. Ahead(gpu[u], k)
    BY <1>1, <1>4, <1>8 DEF CoverInv, ComesTo, Ahead
  <2>2. CASE u = t
    BY <1>5, <1>8, <2>1, <2>2
  <2>3. CASE u # t
    BY <1>5, <2>1, <2>3
  <2> QED
    BY <2>2, <2>3
<1> QED
  BY <1>1, <1>3, <1>6, <1>7, <1>8 DEF CoverInv, ComesTo, Ahead, InChunk

\* It keeps the result genuine if it neither starts to write nor ends.
LEMMA StepWrites ==
  ASSUME IInv, NEW t, NEW r, Steps(t, r),
         ~Writes(t), r.pc \notin {"nonce", "hash"}, device_result' = device_result
  PROVE  WinnerInv'
<1>1. wpc = "scan" /\ t \in Threads /\ work' = work /\ job' = job /\ digest' = digest
  BY DEF Steps, workerVars
<1>2. gpu \in [Threads -> ThreadType] /\ gpu' = [gpu EXCEPT ![t] = r]
  BY <1>1, Running DEF Steps, SetThread
<1>3. Threads' = Threads /\ Candidates' = Candidates
  BY Same DEF Steps
<1>4. \A u \in Threads : Writes(u)' <=> Writes(u)
  BY <1>2 DEF Writes
<1>5. \A u \in Threads : Writes(u) => gpu'[u] = gpu[u]
  BY <1>2
<1>6. WinnerInv
  BY DEF IInv
<1>7. \A u \in Threads : Writes(u) => device_result.found /\ gpu'[u].nonce \in Candidates
  BY <1>1, <1>5, <1>6 DEF WinnerInv
<1>8. \A u, v \in Threads : Writes(u) /\ Writes(v) => u = v
  BY <1>1, <1>6 DEF WinnerInv
<1>9. \A u \in Threads : gpu'[u].pc = "hash" => device_result.nonce = gpu'[u].nonce
  BY <1>1, <1>2, <1>6 DEF WinnerInv
<1>10. device_result.found /\ (\A u \in Threads : ~Writes(u)) =>
         /\ device_result.nonce \in Candidates
         /\ device_result.hash = digest[job, device_result.nonce]
  BY <1>1, <1>6 DEF WinnerInv
<1>11. \A u \in Threads : Writes(u)' => device_result'.found /\ gpu'[u].nonce \in Candidates
  BY <1>4, <1>7
<1>12. \A u, v \in Threads : Writes(u)' /\ Writes(v)' => u = v
  BY <1>4, <1>8
<1>13. \A u \in Threads : gpu'[u].pc = "hash" => device_result'.nonce = gpu'[u].nonce
  BY <1>9
<1>14. device_result'.found /\ (\A u \in Threads : ~Writes(u)') =>
         /\ device_result'.nonce \in Candidates
         /\ device_result'.hash = digest'[job', device_result'.nonce]
  BY <1>1, <1>4, <1>10
<1> QED
  BY <1>3, <1>11, <1>12, <1>13, <1>14 DEF WinnerInv

\* An index of a candidate is in the chunk.
LEMMA CandidateIndex ==
  ASSUME IInv, wpc = "scan", NEW k \in Nat
  PROVE  /\ work.start_nonce + k \in Candidates => InChunk(k)
         /\ InChunk(k) => work.start_nonce + k \in Chunk
<1>1. work.nonce_count \in Nat /\ work.start_nonce \in Nat
  BY Running
<1>2. work.start_nonce + k \in Candidates => work.start_nonce + k \in Chunk
  BY DEF Candidates
<1> QED
  BY <1>1, <1>2 DEF Chunk, InChunk

\* The head of the loop drops no candidate: a thread leaves at the end of the
\* chunk or when the flag is set.
LEMMA LoopHeadKeeps ==
  ASSUME IInv, NEW t \in DOMAIN gpu, LoopHead(t)
  PROVE  IInv'
<1> DEFINE me == gpu[t]
           r == [me EXCEPT !.pc = IF me.i >= work.nonce_count \/ (me.poll_counter = 0 /\ device_result.found)
                                  THEN "exit" ELSE "first",
                           !.poll_counter = (@ + 1) % PollEvery]
<1>1. wpc = "scan" /\ me.pc = "head" /\ UNCHANGED workerVars /\ device_result' = device_result
  BY DEF LoopHead
<1>2. SetThread(t, r)
  BY DEF LoopHead
<1>3. gpu \in [Threads -> ThreadType] /\ t \in Threads /\ Stride \in Nat \ {0}
  BY <1>1, Running
<1>4. me \in ThreadType /\ me.i \in Nat /\ me.poll_counter \in Nat
  <2>1. me \in ThreadType
    BY <1>3
  <2>2. me.i \in Nat /\ me.poll_counter \in 0 .. PollEvery - 1
    BY <2>1 DEF ThreadType
  <2>3. PollEvery \in Nat \ {0}
    BY ScanAssumption
  <2> QED
    BY <2>1, <2>2, <2>3
<1>5. r \in ThreadType
  <2>1. (me.poll_counter + 1) % PollEvery \in 0 .. PollEvery - 1
    <3>1. PollEvery \in Nat \ {0}
      BY ScanAssumption
    <3> QED
      BY <1>4, <3>1
  <2> QED
    BY <1>4, <2>1 DEF ThreadType
<1>6. r.i = me.i /\ r.pc \in {"exit", "first"}
  BY <1>4 DEF ThreadType
<1>7. r.pc = "exit" => me.i >= work.nonce_count \/ device_result.found
  BY <1>4 DEF ThreadType
<1>8. r.pc = "first" => ~(me.i >= work.nonce_count)
  BY <1>4 DEF ThreadType
<1> HIDE DEF r
<1>9. Steps(t, r)
  BY <1>1, <1>2, <1>3, <1>5, Running DEF Steps
<1>10. r.i % Stride = t
  BY <1>1, <1>3, <1>6 DEF IInv, CoverInv
<1>11. r.pc = "first" => InChunk(r.i)
  BY <1>1, <1>4, <1>6, <1>8, Running DEF InChunk
<1>12. ASSUME NEW k \in Nat, ~device_result'.found, work.start_nonce + k \in Candidates, Ahead(me, k)
       PROVE  Ahead(r, k)
  <2>1. me.i <= k
    BY <1>1, <1>12 DEF Ahead
  <2>2. k < work.nonce_count
    BY <1>1, <1>12, CandidateIndex DEF InChunk
  <2>3. work.nonce_count \in Nat
    BY <1>1, Running
  <2>4. ~(me.i >= work.nonce_count)
    BY <1>4, <2>1, <2>2, <2>3
  <2>5. r.pc = "first"
    BY <1>1, <1>6, <1>7, <1>12, <2>4
  <2> QED
    BY <1>6, <2>1, <2>5 DEF Ahead
<1>13. CoverInv'
  BY <1>1, <1>9, <1>10, <1>11, <1>12, StepCovers
<1>14. WinnerInv'
  BY <1>1, <1>6, <1>9, StepWrites DEF Writes
<1> QED
  BY <1>9, <1>13, <1>14, StepFrame

\* A thread that finds the flag unset sets it and writes the result next.
LEMMA WinKeeps ==
  ASSUME IInv, NEW t, NEW r, Steps(t, r), ~device_result.found,
         device_result' = [device_result EXCEPT !.found = TRUE],
         r.pc = "nonce", r.nonce \in Candidates
  PROVE  WinnerInv'
<1>1. wpc = "scan" /\ t \in Threads
  BY DEF Steps
<1>2. gpu \in [Threads -> ThreadType] /\ gpu' = [gpu EXCEPT ![t] = r]
  BY <1>1, Running DEF Steps, SetThread
<1>3. Threads' = Threads /\ Candidates' = Candidates
  BY Same DEF Steps
<1>4. \A u \in Threads : ~Writes(u)
  BY <1>1 DEF IInv, WinnerInv
<1>5. \A u \in Threads : Writes(u)' <=> u = t
  BY <1>2, <1>4 DEF Writes
<1>6. gpu'[t] = r
  BY <1>1, <1>2
<1>7. device_result'.found
  BY <1>1, Running DEF ResultType
<1>8. \A u \in Threads : gpu'[u].pc # "hash"
  BY <1>2, <1>4 DEF Writes
<1> QED
  BY <1>1, <1>3, <1>5, <1>6, <1>7, <1>8 DEF WinnerInv

\* A try of the index k.  The thread passes on no other candidate.
LEMMA TryKeeps ==
  ASSUME IInv, wpc = "scan", NEW t \in Threads, NEW k \in Nat, InChunk(k),
         ~Writes(t), NEW next \in ThreadType, Try(t, k, next),
         gpu[t].i % Stride = t, next.i % Stride = t, next.pc \in {"head", "second"},
         \A m \in Nat : m # k /\ m % Stride = t /\ work.start_nonce + m \in Candidates
                          /\ Ahead(gpu[t], m) => Ahead(next, m)
  PROVE  IInv'
<1> DEFINE me == gpu[t]
           n == work.start_nonce + k
           r == [me EXCEPT !.pc = IF Wins THEN "nonce" ELSE "exit", !.nonce = n]
<1>1. n \in Chunk
  BY CandidateIndex
<1>2. hash_be_meets_target_le(DigestOf(n), engine.d_target) <=> n \in Candidates
  BY <1>1, DigestIs DEF IInv
<1>3. UNCHANGED workerVars
  BY DEF Try
<1>4. gpu \in [Threads -> ThreadType] /\ device_result \in ResultType
  BY Running
<1>5. CASE n \in Candidates
  <2>1. device_result' = [device_result EXCEPT !.found = TRUE] /\ SetThread(t, r)
    BY <1>2, <1>5 DEF Try
  <2>2. device_result' \in ResultType /\ device_result'.found
    BY <1>4, <2>1 DEF ResultType
  <2>3. n \in Nat
    BY Running
  <2>4. me \in ThreadType
    BY <1>4
  <2>5. r \in ThreadType /\ r.i = me.i /\ r.nonce = n
        /\ r.pc = IF Wins THEN "nonce" ELSE "exit"
    <3> HIDE DEF n, me
    <3> QED
      BY <2>3, <2>4 DEF ThreadType
  <2> HIDE DEF r
  <2>6. Steps(t, r)
    BY <1>3, <2>1, <2>2, <2>5 DEF Steps
  <2>7. r.i % Stride = t /\ r.pc # "first"
    BY <2>5
  <2>8. CoverInv'
    BY <2>2, <2>6, <2>7, StepCovers
  <2>9. WinnerInv'
    <3>1. CASE Wins
      BY <1>5, <2>1, <2>5, <2>6, <3>1, WinKeeps DEF Wins
    <3>2. CASE ~Wins
      <4>1. device_result' = device_result
        BY <1>4, <2>1, <3>2 DEF Wins, ResultType
      <4> QED
        BY <2>5, <2>6, <3>2, <4>1, StepWrites
    <3> QED
      BY <3>1, <3>2
  <2> QED
    BY <2>6, <2>8, <2>9, StepFrame
<1>6. CASE n \notin Candidates
  <2>1. device_result' = device_result /\ SetThread(t, next)
    BY <1>2, <1>6 DEF Try
  <2>2. Steps(t, next)
    BY <1>3, <1>4, <2>1 DEF Steps
  <2>3. \A m \in Nat : m % Stride = t /\ work.start_nonce + m \in Candidates
                         /\ Ahead(gpu[t], m) => Ahead(next, m)
    BY <1>6
  <2>4. CoverInv'
    BY <2>1, <2>2, <2>3, StepCovers
  <2>5. WinnerInv'
    BY <2>1, <2>2, StepWrites
  <2> QED
    BY <2>2, <2>4, <2>5, StepFrame
<1> QED
  BY <1>5, <1>6

\* The first try is at the thread's own index, and leaves the second ahead.
LEMMA FirstKeeps ==
  ASSUME IInv, NEW t \in DOMAIN gpu, First(t)
  PROVE  IInv'
<1> DEFINE me == gpu[t]
           k == me.i
           next == [me EXCEPT !.pc = "second"]
<1>1. wpc = "scan" /\ me.pc = "first" /\ Try(t, k, next)
  BY DEF First
<1>2. gpu \in [Threads -> ThreadType] /\ t \in Threads /\ Stride \in Nat \ {0}
  BY <1>1, Running
<1>3. me \in ThreadType
  BY <1>2
<1>4. k \in Nat /\ next \in ThreadType /\ next.i = k /\ next.pc = "second"
  BY <1>3 DEF ThreadType
<1>5. k % Stride = t /\ InChunk(k)
  BY <1>1, <1>2 DEF IInv, CoverInv
<1>6. ~Writes(t)
  BY <1>1 DEF Writes
<1> HIDE DEF next
<1>7. ASSUME NEW m \in Nat, m # k, m % Stride = t, Ahead(me, m)
      PROVE  Ahead(next, m)
  <2>1. k < m
    BY <1>1, <1>4, <1>7 DEF Ahead
  <2> HIDE DEF k
  <2>2. k + Stride <= m
    BY <1>2, <1>4, <1>5, <1>7, <2>1, NextInStep
  <2> QED
    BY <1>4, <2>2 DEF Ahead
<1> HIDE DEF k
<1>8. me.i % Stride = t /\ next.i % Stride = t /\ next.pc \in {"head", "second"}
  BY <1>4, <1>5 DEF k
<1> QED
  BY <1>1, <1>2, <1>4, <1>5, <1>6, <1>7, <1>8, TryKeeps

\* The second try is one stride on, and the loop goes on two strides.
LEMMA SecondKeeps ==
  ASSUME IInv, NEW t \in DOMAIN gpu, Second(t)
  PROVE  IInv'
<1> DEFINE me == gpu[t]
           k == me.i + Stride
           next == [me EXCEPT !.pc = "head", !.i = NextIndex(@)]
<1>1. wpc = "scan" /\ me.pc = "second"
  BY DEF Second
<1>2. IF InChunk(k) THEN Try(t, k, next)
      ELSE SetThread(t, next) /\ UNCHANGED <<workerVars, device_result>>
  BY DEF Second
<1>3. gpu \in [Threads -> ThreadType] /\ t \in Threads /\ Stride \in Nat \ {0}
  BY <1>1, Running
<1>4. me \in ThreadType /\ me.i \in Nat
  <2>1. me \in ThreadType
    BY <1>3
  <2> QED
    BY <2>1 DEF ThreadType
<1>5. next \in ThreadType /\ next.i = k + Stride /\ next.pc = "head" /\ k \in Nat
  <2> DEFINE j == NextIndex(me.i)
  <2>1. j = k + Stride /\ j \in Nat /\ k \in Nat
    BY <1>3, <1>4 DEF NextIndex
  <2>2. next = [me EXCEPT !.pc = "head", !.i = j]
    OBVIOUS
  <2> HIDE DEF j, next
  <2>3. next \in ThreadType /\ next.i = j /\ next.pc = "head"
    BY <1>4, <2>1, <2>2 DEF ThreadType
  <2> QED
    BY <2>1, <2>3
<1>6. me.i % Stride = t
  BY <1>1, <1>3 DEF IInv, CoverInv
<1>7. k % Stride = t
  BY <1>3, <1>4, <1>6, StepKeeps
<1> HIDE DEF next
<1>8. Ahead(me, k) /\ \A m \in Nat : Ahead(me, m) => k <= m
  BY <1>1, <1>5 DEF Ahead
<1> HIDE DEF k
<1>9. next.i % Stride = t
  BY <1>3, <1>5, <1>7, StepKeeps
<1>10. ~Writes(t)
  BY <1>1 DEF Writes
<1>11. ASSUME NEW m \in Nat, m # k, m % Stride = t, Ahead(me, m)
       PROVE  Ahead(next, m)
  <2>1. k < m
    BY <1>5, <1>8, <1>11
  <2>2. k + Stride <= m
    BY <1>3, <1>5, <1>7, <1>11, <2>1, NextInStep
  <2> QED
    BY <1>5, <2>2 DEF Ahead
<1>12. CASE InChunk(k)
  <2>1. Try(t, k, next)
    BY <1>2, <1>12
  <2> QED
    BY <1>1, <1>3, <1>5, <1>6, <1>7, <1>9, <1>10, <1>11, <1>12, <2>1, TryKeeps
<1>13. CASE ~InChunk(k)
  <2>1. SetThread(t, next) /\ UNCHANGED workerVars /\ device_result' = device_result
    BY <1>2, <1>13
  <2>2. Steps(t, next)
    BY <1>1, <1>3, <1>5, <2>1, Running DEF Steps
  <2>3. ASSUME NEW m \in Nat, m % Stride = t, work.start_nonce + m \in Candidates, Ahead(me, m)
        PROVE  Ahead(next, m)
    <3>1. InChunk(m)
      BY <1>1, <2>3, CandidateIndex
    <3>2. m # k
      BY <1>13, <3>1
    <3> QED
      BY <1>11, <2>3, <3>2
  <2>4. CoverInv'
    BY <1>5, <1>9, <2>1, <2>2, <2>3, StepCovers
  <2>5. WinnerInv'
    BY <1>5, <1>10, <2>1, <2>2, StepWrites
  <2> QED
    BY <2>2, <2>4, <2>5, StepFrame
<1> QED
  BY <1>12, <1>13

\* The winner's nonce is in place before its hash, and nobody else writes.
LEMMA WriteNonceKeeps ==
  ASSUME IInv, NEW t \in DOMAIN gpu, WriteNonce(t)
  PROVE  IInv'
<1> DEFINE me == gpu[t]
           r == [me EXCEPT !.pc = "hash"]
<1>1. wpc = "scan" /\ me.pc = "nonce" /\ UNCHANGED workerVars /\ SetThread(t, r)
      /\ device_result' = [device_result EXCEPT !.nonce = me.nonce]
  BY DEF WriteNonce
<1>2. gpu \in [Threads -> ThreadType] /\ t \in Threads /\ device_result \in ResultType
  BY <1>1, Running
<1>3. me \in ThreadType
  BY <1>2
<1>4. r \in ThreadType /\ r.pc = "hash" /\ r.i = me.i /\ r.nonce = me.nonce /\ me.nonce \in Nat
  BY <1>3 DEF ThreadType
<1>5. /\ device_result' \in ResultType /\ device_result'.found = device_result.found
      /\ device_result'.nonce = me.nonce
  BY <1>1, <1>2, <1>4 DEF ResultType
<1> HIDE DEF r
<1>6. Steps(t, r)
  BY <1>1, <1>2, <1>4, <1>5 DEF Steps
<1>7. Writes(t)
  BY <1>1 DEF Writes
<1>8. device_result.found
  BY <1>1, <1>2, <1>7 DEF IInv, WinnerInv
<1>9. me.nonce \in Candidates
  BY <1>1, <1>2, <1>7 DEF IInv, WinnerInv
<1>10. \A u \in Threads : Writes(u) => u = t
  BY <1>1, <1>2, <1>7 DEF IInv, WinnerInv
<1>11. CoverInv'
  <2>1. r.i % Stride = t
    BY <1>1, <1>2, <1>4 DEF IInv, CoverInv
  <2> QED
    BY <1>4, <1>5, <1>6, <1>8, <2>1, StepCovers
<1>12. WinnerInv'
  <2>1. gpu' = [gpu EXCEPT ![t] = r]
    BY <1>6 DEF Steps, SetThread
  <2>2. Threads' = Threads /\ Candidates' = Candidates
    BY <1>1, Same
  <2>3. \A u \in Threads : Writes(u)' <=> u = t
    BY <1>2, <1>4, <1>10, <2>1 DEF Writes
  <2>4. gpu'[t] = r
    BY <1>2, <2>1
  <2>5. \A u \in Threads : gpu'[u].pc = "hash" => u = t
    BY <2>3 DEF Writes
  <2> QED
    BY <1>1, <1>2, <1>4, <1>5, <1>8, <1>9, <2>2, <2>3, <2>4, <2>5 DEF WinnerInv
<1> QED
  BY <1>6, <1>11, <1>12, StepFrame

\* The hash is that of the nonce in place, and the result is genuine.
LEMMA WriteHashKeeps ==
  ASSUME IInv, NEW t \in DOMAIN gpu, WriteHash(t)
  PROVE  IInv'
<1> DEFINE me == gpu[t]
           h == DigestOf(me.nonce)
           r == [me EXCEPT !.pc = "exit"]
<1>1. wpc = "scan" /\ me.pc = "hash" /\ UNCHANGED workerVars /\ SetThread(t, r)
      /\ device_result' = [device_result EXCEPT !.hash = h]
  BY DEF WriteHash
<1>2. gpu \in [Threads -> ThreadType] /\ t \in Threads /\ device_result \in ResultType
  BY <1>1, Running
<1>3. me \in ThreadType
  BY <1>2
<1>4. r \in ThreadType /\ r.pc = "exit" /\ r.i = me.i
  BY <1>3 DEF ThreadType
<1>5. Writes(t)
  BY <1>1 DEF Writes
<1>6. device_result.found
  BY <1>1, <1>2, <1>5 DEF IInv, WinnerInv
<1>7. me.nonce \in Candidates
  BY <1>1, <1>2, <1>5 DEF IInv, WinnerInv
<1>8. \A u \in Threads : Writes(u) => u = t
  BY <1>1, <1>2, <1>5 DEF IInv, WinnerInv
<1>9. device_result.nonce = me.nonce
  BY <1>1, <1>2 DEF IInv, WinnerInv
<1>10. h = digest[job, me.nonce] /\ h \in Hashes
  <2>1. me.nonce \in Chunk
    BY <1>7 DEF Candidates
  <2> QED
    BY <1>1, <2>1, DigestIs DEF IInv
<1> HIDE DEF h
<1>11. /\ device_result' \in ResultType /\ device_result'.found = device_result.found
       /\ device_result'.nonce = device_result.nonce /\ device_result'.hash = h
  BY <1>1, <1>2, <1>10 DEF ResultType
<1> HIDE DEF r
<1>12. Steps(t, r)
  BY <1>1, <1>2, <1>4, <1>11 DEF Steps
<1>13. CoverInv'
  <2>1. r.i % Stride = t
    BY <1>1, <1>2, <1>4 DEF IInv, CoverInv
  <2> QED
    BY <1>4, <1>6, <1>11, <1>12, <2>1, StepCovers
<1>14. WinnerInv'
  <2>1. gpu' = [gpu EXCEPT ![t] = r]
    BY <1>12 DEF Steps, SetThread
  <2>2. Threads' = Threads /\ Candidates' = Candidates /\ digest' = digest /\ job' = job
    BY <1>1, Same DEF workerVars
  <2>3. \A u \in Threads : ~Writes(u)'
    BY <1>2, <1>4, <1>8, <2>1 DEF Writes
  <2>4. \A u \in Threads : gpu'[u].pc # "hash"
    BY <2>3 DEF Writes
  <2>5. device_result'.nonce \in Candidates
    BY <1>7, <1>9, <1>11
  <2>6. device_result'.hash = digest[job, device_result'.nonce]
    BY <1>9, <1>10, <1>11
  <2> QED
    BY <2>2, <2>3, <2>4, <2>5, <2>6 DEF WinnerInv
<1> QED
  BY <1>12, <1>13, <1>14, StepFrame

-----------------------------------------------------------------------------
(* The worker's steps.                                                     *)

\* What is about a running kernel holds while none runs.
LEMMA NotRunning ==
  ASSUME wpc' # "scan"
  PROVE  DeviceInv' /\ CoverInv' /\ WinnerInv'
BY DEF DeviceInv, CoverInv, WinnerInv

\* When all threads have left, a result is found exactly when there is a
\* candidate, and it is one.
LEMMA ReadResultKeeps ==
  ASSUME IInv, ReadResult
  PROVE  IInv'
<1>1. /\ digest' = digest /\ config' = config /\ engine' = engine /\ device_result' = device_result
      /\ job' = job /\ diff' = diff /\ partition_scanned' = partition_scanned /\ work' = work
      /\ false_positives' = false_positives /\ scans' = scans
  BY DEF ReadResult
<1>2. wpc = "scan" /\ wpc' = "judge" /\ gpu' = Unset /\ result' = device_result
  BY DEF ReadResult
<1>3. gpu \in [Threads -> ThreadType] /\ device_result \in ResultType /\ Stride \in Nat \ {0}
      /\ work.nonce_count \in Nat /\ work.start_nonce \in Nat
  BY <1>2, Running
<1>4. \A t \in Threads : gpu[t].pc = "exit"
  BY <1>3 DEF ReadResult
<1>5. Types'
  <2>1. Types
    BY DEF IInv
  <2> QED
    BY <1>1, <1>2, <1>3, <2>1 DEF Types
<1>6. EngineInv'
  <2>1. EngineInv /\ Stride' = Stride
    BY <1>1 DEF IInv, Stride
  <2> QED
    BY <1>1, <1>2, <2>1 DEF EngineInv
<1>7. WorkInv'
  <2>1. WorkInv
    BY DEF IInv
  <2> QED
    BY <1>1, <1>2, <2>1 DEF WorkInv
<1>8. Candidates' = Candidates
  BY <1>1 DEF Candidates, Chunk
<1>9. device_result.found => /\ device_result.nonce \in Candidates
                             /\ device_result.hash = digest[job, device_result.nonce]
  BY <1>2, <1>4 DEF IInv, WinnerInv, Writes
<1>10. ASSUME NEW n \in Candidates PROVE device_result.found
  <2> DEFINE k == n - work.start_nonce
             t == k % Stride
  <2>1. k \in Nat /\ work.start_nonce + k = n
    <3>1. n \in Chunk
      BY DEF Candidates
    <3> QED
      BY <1>3, <3>1 DEF Chunk
  <2> HIDE DEF k
  <2>2. t \in Threads
    BY <1>3, <2>1, Divided DEF Threads
  <2>3. gpu[t].pc = "exit"
    BY <1>4, <2>2
  <2>4. ~device_result.found => ComesTo(t, k)
    BY <1>2, <2>1, <2>2 DEF IInv, CoverInv
  <2> QED
    BY <2>3, <2>4 DEF ComesTo
<1>11. FindsCandidates'
  BY <1>2, <1>8, <1>9, <1>10 DEF FindsCandidates
<1>12. ResultIsGenuine'
  BY <1>1, <1>2, <1>8, <1>9 DEF ResultIsGenuine
<1>13. NoFalsePositives'
  BY <1>1 DEF IInv, NoFalsePositives
<1>14. DeviceInv' /\ CoverInv' /\ WinnerInv'
  BY <1>2, NotRunning
<1> QED
  BY <1>5, <1>6, <1>7, <1>11, <1>12, <1>13, <1>14 DEF IInv

\* After a failure there is nothing left to keep but the types.
LEMMA ScanFailsKeeps ==
  ASSUME IInv, ScanFails
  PROVE  IInv'
<1>1. /\ digest' = digest /\ config' = config /\ engine' = engine /\ device_result' = device_result
      /\ job' = job /\ diff' = diff /\ partition_scanned' = partition_scanned /\ work' = work
      /\ result' = result /\ false_positives' = false_positives /\ scans' = scans
  BY DEF ScanFails
<1>2. wpc' = "end" /\ gpu' = Unset
  BY DEF ScanFails, AfterFailure
<1>3. Types'
  <2>1. Types
    BY DEF IInv
  <2> QED
    BY <1>1, <1>2, <2>1 DEF Types
<1>4. EngineInv'
  <2>1. EngineInv
    BY DEF IInv
  <2> QED
    BY <1>1, <1>2, <2>1 DEF EngineInv
<1>5. WorkInv'
  <2>1. WorkInv
    BY DEF IInv
  <2> QED
    BY <1>1, <1>2, <2>1 DEF WorkInv
<1>6. FindsCandidates' /\ ResultIsGenuine' /\ NoFalsePositives'
  BY <1>1, <1>2 DEF IInv, FindsCandidates, ResultIsGenuine, NoFalsePositives
<1> QED
  BY <1>2, <1>3, <1>4, <1>5, <1>6, NotRunning DEF IInv

\* The CPU confirms what the kernel found: both compare the hash of the job's
\* header with the one target.
LEMMA JudgeKeeps ==
  ASSUME IInv, Judge
  PROVE  IInv'
<1>1. /\ digest' = digest /\ config' = config /\ engine' = engine /\ device_result' = device_result
      /\ job' = job /\ diff' = diff /\ work' = work /\ result' = result /\ gpu' = gpu
      /\ scans' = scans
  BY DEF Judge
<1>2. wpc = "judge" /\ wpc' = "ready"
  BY DEF Judge
<1>3. work.nonce_count \in Nat /\ partition_scanned \in 0 .. Partition.size - 1
      /\ Partition.size \in Nat \ {0}
  <2>1. work \in WorkType /\ partition_scanned \in 0 .. Partition.size - 1
    BY DEF IInv, Types
  <2> QED
    BY <2>1, ScanAssumption DEF WorkType
<1>4. partition_scanned' \in 0 .. Partition.size - 1
  <2> DEFINE scanned == partition_scanned + work.nonce_count
  <2>1. partition_scanned' = IF scanned >= Partition.size THEN 0 ELSE scanned
    BY DEF Judge, PassOver
  <2> QED
    BY <1>3, <2>1
<1>5. Types'
  <2>1. Types
    BY DEF IInv
  <2> QED
    BY <1>1, <1>2, <1>4, <2>1 DEF Types
<1>6. EngineInv'
  <2>1. EngineInv /\ Stride' = Stride
    BY <1>1 DEF IInv, Stride
  <2> QED
    BY <1>1, <1>2, <2>1 DEF EngineInv
<1>7. WorkInv'
  <2>1. WorkInv
    BY DEF IInv
  <2> QED
    BY <1>1, <1>2, <2>1 DEF WorkInv
<1>8. result.found => hash_be_meets_target(digest[job, result.nonce], work.target)
  <2>1. work.target = target_from_difficulty(diff)
    BY <1>2 DEF IInv, WorkInv, Target
  <2>2. result.found => result.nonce \in Candidates
    BY <1>2 DEF IInv, ResultIsGenuine
  <2> QED
    BY <2>1, <2>2 DEF Candidates
<1>9. false_positives' = 0
  <2>1. false_positives = 0
    BY DEF IInv, NoFalsePositives
  <2> DEFINE unconfirmed ==
               result.found /\ ~hash_be_meets_target(digest[job, result.nonce], work.target)
  <2>2. false_positives' = false_positives + IF unconfirmed THEN 1 ELSE 0
    BY DEF Judge
  <2>3. ~unconfirmed
    BY <1>8
  <2> HIDE DEF unconfirmed
  <2> QED
    BY <2>1, <2>2, <2>3
<1>10. FindsCandidates' /\ ResultIsGenuine' /\ NoFalsePositives'
  BY <1>2, <1>9 DEF FindsCandidates, ResultIsGenuine, NoFalsePositives
<1> QED
  BY <1>2, <1>5, <1>6, <1>7, <1>10, NotRunning DEF IInv

\* A launch has blocks only if its threads fit the device.
LEMMA BlocksFit ==
  ASSUME config \in Configs
  PROVE  Blocks \in Nat /\ (Blocks > 0 => config.threads \in 1..MaxThreads)
<1> DEFINE d == config.device
           b == config.blocks
           t == config.threads
           fits == d \in DOMAIN Gpus /\ t \in 1..MaxThreads /\ t % Warp = 0
           a == IF b > 0 THEN b ELSE Gpus[d].sms * BlocksPerSm
           m == Gpus[d].max_grid
<1>1. b \in Nat
  BY ScanAssumption
<1>2. Blocks = IF fits THEN Min({a, m}) ELSE 0
  BY DEF Blocks, resolve_device_and_launch
<1>3. ASSUME fits PROVE Min({a, m}) \in Nat
  <2>1. Gpus[d].sms \in Nat /\ m \in Nat /\ BlocksPerSm \in Nat
    BY <1>3, LaunchAssumption
  <2>2. a \in Nat
    <3>1. Gpus[d].sms * BlocksPerSm \in Nat
      BY <2>1
    <3> QED
      BY <1>1, <3>1
  <2> HIDE DEF a, m
  <2> QED
    BY <2>1, <2>2, MinOfTwo
<1>4. fits => t \in 1..MaxThreads
  OBVIOUS
<1> HIDE DEF fits, a, m
<1> QED
  BY <1>2, <1>3, <1>4

\* The engine there is before one is created has the type of an engine.
LEMMA NoEngineType == NoEngine \in EngineType
BY DEF NoEngine, EngineType, Midstates, Targets

\* The invariant holds at first.
LEMMA InitHolds == Init => IInv
<1> SUFFICES ASSUME Init PROVE IInv
  OBVIOUS
<1>0. Partition.size \in Nat \ {0} /\ MaxScans \in Nat
  BY ScanAssumption
<1>1. Types
  <2>1. NoResult \in ResultType
    BY DEF NoResult, ResultType, Hashes
  <2>2. NoWork \in WorkType
    BY DEF NoWork, WorkType, Midstates, Tails, Targets
  <2>3. 0 \in 0 .. Partition.size - 1 /\ 0 \in 0..MaxScans
    BY <1>0
  <2> QED
    BY <2>1, <2>2, <2>3, NoEngineType DEF Init, Types
<1>2. EngineInv
  <2>1. NoEngine.threads <= MaxThreads
    BY LaunchAssumption DEF NoEngine
  <2>2. ~NoEngine.midstate_valid /\ ~NoEngine.target_valid
    BY DEF NoEngine
  <2> QED
    BY <2>1, <2>2 DEF Init, EngineInv
<1>3. WorkInv
  <2>1. NoWork.nonce_count <= Partition.size
    BY <1>0 DEF NoWork
  <2> QED
    BY <2>1 DEF Init, WorkInv
<1> QED
  BY <1>1, <1>2, <1>3 DEF Init, IInv, DeviceInv, CoverInv, WinnerInv, FindsCandidates,
     ResultIsGenuine, NoFalsePositives

\* An engine is made with threads that fit, and with nothing cached.
LEMMA CreateEngineKeeps ==
  ASSUME IInv, CreateEngine
  PROVE  IInv'
<1> DEFINE e == [NoEngine EXCEPT !.blocks = Blocks, !.threads = config.threads]
<1>1. /\ digest' = digest /\ config' = config /\ device_result' = device_result
      /\ job' = job /\ diff' = diff /\ partition_scanned' = partition_scanned /\ work' = work
      /\ result' = result /\ gpu' = gpu /\ false_positives' = false_positives /\ scans' = scans
  BY DEF CreateEngine
<1>2. wpc = "start" /\ wpc' = "ready" /\ engine' = e /\ Blocks > 0
  BY DEF CreateEngine
<1>3. Blocks \in Nat /\ config.threads \in 1..MaxThreads
  <2>1. config \in Configs
    BY DEF IInv, Types
  <2> QED
    BY <1>2, <2>1, BlocksFit
<1>4. /\ e \in EngineType /\ e.blocks = Blocks /\ e.threads = config.threads
      /\ ~e.midstate_valid /\ ~e.target_valid
  <2>1. config.threads \in Nat
    BY <1>3
  <2>2. NoEngine \in EngineType /\ ~NoEngine.midstate_valid /\ ~NoEngine.target_valid
    BY NoEngineType DEF NoEngine
  <2> HIDE DEF e
  <2>3. e = [NoEngine EXCEPT !.blocks = Blocks, !.threads = config.threads]
    BY DEF e
  <2> QED
    BY <1>3, <2>1, <2>2, <2>3 DEF EngineType
<1> HIDE DEF e
<1>5. Types'
  <2>1. Types
    BY DEF IInv
  <2> QED
    BY <1>1, <1>2, <1>4, <2>1 DEF Types
<1>6. EngineInv'
  <2>1. Stride' # 0
    <3>1. Stride' = Blocks * config.threads
      BY <1>2, <1>4 DEF Stride
    <3> QED
      BY <1>2, <1>3, <3>1
  <2>2. config.threads <= MaxThreads
    BY <1>3, LaunchAssumption
  <2> QED
    BY <1>2, <1>4, <2>1, <2>2 DEF EngineInv
<1>7. WorkInv'
  <2>1. WorkInv
    BY DEF IInv
  <2> QED
    BY <1>1, <1>2, <2>1 DEF WorkInv
<1>8. FindsCandidates' /\ ResultIsGenuine' /\ NoFalsePositives'
  BY <1>1, <1>2 DEF IInv, FindsCandidates, ResultIsGenuine, NoFalsePositives
<1> QED
  BY <1>2, <1>5, <1>6, <1>7, <1>8, NotRunning DEF IInv

\* A device that is refused ends the worker.
LEMMA CreateEngineFailsKeeps ==
  ASSUME IInv, CreateEngineFails
  PROVE  IInv'
<1>1. /\ digest' = digest /\ config' = config /\ engine' = engine /\ device_result' = device_result
      /\ job' = job /\ diff' = diff /\ partition_scanned' = partition_scanned /\ work' = work
      /\ result' = result /\ gpu' = gpu /\ false_positives' = false_positives /\ scans' = scans
  BY DEF CreateEngineFails
<1>2. wpc = "start" /\ wpc' = "end"
  BY DEF CreateEngineFails
<1>3. Types'
  <2>1. Types
    BY DEF IInv
  <2> QED
    BY <1>1, <1>2, <2>1 DEF Types
<1>4. EngineInv'
  <2>1. EngineInv
    BY DEF IInv
  <2> QED
    BY <1>1, <1>2, <2>1 DEF EngineInv
<1>5. WorkInv'
  <2>1. WorkInv
    BY DEF IInv
  <2> QED
    BY <1>1, <1>2, <2>1 DEF WorkInv
<1>6. FindsCandidates' /\ ResultIsGenuine' /\ NoFalsePositives'
  BY <1>1, <1>2 DEF IInv, FindsCandidates, ResultIsGenuine, NoFalsePositives
<1> QED
  BY <1>2, <1>3, <1>4, <1>5, <1>6, NotRunning DEF IInv

\* The chunk of a device is a number, however it is configured.
LEMMA TunedChunkIs ==
  ASSUME IInv
  PROVE  TunedChunk \in Nat
<1> DEFINE c == config.chunk
           x == engine.blocks * engine.threads * PerThread
           y == Max({x, MinChunk})
<1>1. c \in Nat
  <2>1. config \in Configs
    BY DEF IInv, Types
  <2> QED
    BY <2>1, ScanAssumption
<1>2. MaxManual \in Nat /\ MinChunk \in Nat /\ MaxChunk \in Nat /\ PerThread \in Nat
  BY ScanAssumption
<1>3. x \in Nat
  <2>1. engine \in EngineType
    BY DEF IInv, Types
  <2>2. engine.blocks \in Nat /\ engine.threads \in Nat
    BY <2>1 DEF EngineType
  <2>3. engine.blocks * engine.threads \in Nat
    BY <2>2
  <2> QED
    BY <1>2, <2>3
<1> HIDE DEF x
<1>4. y \in Nat
  BY <1>2, <1>3, MaxOfTwo
<1> HIDE DEF y, c
<1>5. Min({c, MaxManual}) \in Nat
  BY <1>1, <1>2, MinOfTwo
<1>6. Min({y, MaxChunk}) \in Nat
  BY <1>2, <1>4, MinOfTwo
<1>7. TunedChunk = IF c # 0 THEN Min({c, MaxManual}) ELSE Min({y, MaxChunk})
  BY DEF TunedChunk, c, y, x
<1> QED
  BY <1>5, <1>6, <1>7

\* The chunk the worker takes starts where its partition goes on, and ends in
\* it.
LEMMA NextWorkIs ==
  ASSUME IInv, NEW j \in Jobs, NEW d \in Difficulties,
         NEW scanned, scanned = IF j = job THEN partition_scanned ELSE 0,
         NEW w, w = NextWork(j, d)
  PROVE  /\ w \in WorkType /\ scanned \in 0 .. Partition.size - 1
         /\ w.start_nonce = Partition.start + scanned
         /\ w.nonce_count <= Partition.size /\ w.nonce_count + scanned <= Partition.size
         /\ w.midstate = Built[j].midstate /\ w.tail = Built[j].tail /\ w.target = Target[d]
<1> DEFINE n == Min({TunedChunk, Partition.size - scanned})
<1>1. Partition.size \in Nat \ {0} /\ Partition.start \in Nat
  BY ScanAssumption
<1>2. scanned \in 0 .. Partition.size - 1
  <2>1. partition_scanned \in 0 .. Partition.size - 1
    BY DEF IInv, Types
  <2> QED
    BY <1>1, <2>1
<1>3. n \in Nat /\ n <= Partition.size - scanned
  <2> DEFINE rest == Partition.size - scanned
  <2>1. rest \in Nat
    BY <1>1, <1>2
  <2> HIDE DEF rest
  <2>2. Min({TunedChunk, rest}) \in Nat /\ Min({TunedChunk, rest}) <= rest
    BY <2>1, TunedChunkIs, MinOfTwo
  <2> QED
    BY <2>2 DEF rest
<1>4. w = [nonce_count |-> n, start_nonce |-> Partition.start + scanned,
           midstate |-> Built[j].midstate, tail |-> Built[j].tail, target |-> Target[d]]
  BY DEF NextWork
<1> HIDE DEF n
<1>5. Built[j].midstate \in Midstates /\ Built[j].tail \in Tails /\ Target[d] \in Targets
  BY DEF Midstates, Tails, Targets
<1>6. Partition.start + scanned \in Nat
  BY <1>1, <1>2
<1>7. w \in WorkType
  BY <1>3, <1>4, <1>5, <1>6 DEF WorkType
<1>8. n <= Partition.size /\ n + scanned <= Partition.size
  BY <1>1, <1>2, <1>3
<1> QED
  BY <1>2, <1>4, <1>7, <1>8

\* What the engine has marked valid is what the device holds.
Cached(e) ==
  /\ e.midstate_valid => e.d_midstate = e.cached_midstate
  /\ e.target_valid => e.d_target = e.cached_target

\* A copy of the midstate that succeeds, or is saved, leaves it in place.
LEMMA MidstateIs ==
  ASSUME NEW e \in EngineType, NEW w \in WorkType, NEW ok \in BOOLEAN,
         NEW f, f = MidstateCopied(e, w, ok)
  PROVE  /\ f \in EngineType /\ f.blocks = e.blocks /\ f.threads = e.threads
         /\ ok /\ Cached(e) => f.d_midstate = w.midstate /\ Cached(f)
<1>1. w.midstate \in Midstates
  BY DEF WorkType
<1>2. CASE e.midstate_valid /\ e.cached_midstate = w.midstate
  <2>1. f = e
    BY <1>2 DEF MidstateCopied
  <2> QED
    BY <1>2, <2>1 DEF Cached
<1>3. CASE ~(e.midstate_valid /\ e.cached_midstate = w.midstate) /\ ok
  <2>1. f = [e EXCEPT !.cached_midstate = w.midstate, !.d_midstate = w.midstate,
                      !.midstate_valid = TRUE]
    BY <1>3 DEF MidstateCopied
  <2>2. f \in EngineType /\ f.blocks = e.blocks /\ f.threads = e.threads
        /\ f.d_midstate = w.midstate /\ f.cached_midstate = w.midstate
        /\ f.target_valid = e.target_valid /\ f.d_target = e.d_target
        /\ f.cached_target = e.cached_target
    BY <1>1, <2>1 DEF EngineType
  <2> QED
    BY <2>2 DEF Cached
<1>4. CASE ~(e.midstate_valid /\ e.cached_midstate = w.midstate) /\ ~ok
  <2>1. f = [e EXCEPT !.cached_midstate = w.midstate]
    BY <1>4 DEF MidstateCopied
  <2>2. f \in EngineType /\ f.blocks = e.blocks /\ f.threads = e.threads
    BY <1>1, <2>1 DEF EngineType
  <2> QED
    BY <1>4, <2>2
<1> QED
  BY <1>2, <1>3, <1>4

\* So does a copy of the target, which keeps the midstate.
LEMMA TargetIs ==
  ASSUME NEW e \in EngineType, NEW w \in WorkType, NEW ok \in BOOLEAN,
         NEW f, f = TargetCopied(e, w, ok)
  PROVE  /\ f \in EngineType /\ f.blocks = e.blocks /\ f.threads = e.threads
         /\ f.d_midstate = e.d_midstate
         /\ ok /\ Cached(e) => f.d_target = w.target /\ Cached(f)
<1>1. w.target \in Targets
  BY DEF WorkType
<1>2. CASE e.target_valid /\ e.cached_target = w.target
  <2>1. f = e
    BY <1>2 DEF TargetCopied
  <2> QED
    BY <1>2, <2>1 DEF Cached
<1>3. CASE ~(e.target_valid /\ e.cached_target = w.target) /\ ok
  <2>1. f = [e EXCEPT !.cached_target = w.target, !.d_target = w.target, !.target_valid = TRUE]
    BY <1>3 DEF TargetCopied
  <2>2. f \in EngineType /\ f.blocks = e.blocks /\ f.threads = e.threads
        /\ f.d_target = w.target /\ f.cached_target = w.target
        /\ f.midstate_valid = e.midstate_valid /\ f.d_midstate = e.d_midstate
        /\ f.cached_midstate = e.cached_midstate
    BY <1>1, <2>1 DEF EngineType
  <2> QED
    BY <2>2 DEF Cached
<1>4. CASE ~(e.target_valid /\ e.cached_target = w.target) /\ ~ok
  <2>1. f = [e EXCEPT !.cached_target = w.target]
    BY <1>4 DEF TargetCopied
  <2>2. f \in EngineType /\ f.blocks = e.blocks /\ f.threads = e.threads
        /\ f.d_midstate = e.d_midstate
    BY <1>1, <2>1 DEF EngineType
  <2> QED
    BY <1>4, <2>2
<1> QED
  BY <1>2, <1>3, <1>4

\* What taking a chunk keeps: the types of the worker and the chunk in place.
LEMMA TakeChunkIs ==
  ASSUME IInv, NEW j \in Jobs, NEW d \in Difficulties, TakeChunk(j, d)
  PROVE  /\ digest' \in Digests /\ config' \in Configs /\ result' \in ResultType
         /\ job' \in Jobs /\ diff' \in Difficulties /\ work' \in WorkType
         /\ partition_scanned' \in 0 .. Partition.size - 1 /\ scans' \in 0..MaxScans
         /\ WorkInv' /\ NoFalsePositives' /\ work' = NextWork(j, d) /\ wpc = "ready"
<1> DEFINE scanned == IF j = job THEN partition_scanned ELSE 0
           w == NextWork(j, d)
<1>1. /\ digest' = digest /\ config' = config /\ false_positives' = false_positives
      /\ job' = j /\ diff' = d /\ work' = w /\ result' = NoResult /\ scans' = scans + 1
      /\ wpc = "ready" /\ scans < MaxScans
  BY DEF TakeChunk
<1>2. partition_scanned' = scanned
  BY DEF TakeChunk
<1>3. w \in WorkType /\ scanned \in 0 .. Partition.size - 1
  BY NextWorkIs
<1>4. w.start_nonce = Partition.start + scanned
  BY NextWorkIs
<1>5. w.nonce_count <= Partition.size /\ w.nonce_count + scanned <= Partition.size
  BY NextWorkIs
<1>6. w.midstate = Built[j].midstate /\ w.tail = Built[j].tail /\ w.target = Target[d]
  BY NextWorkIs
<1> HIDE DEF scanned, w
<1>7. WorkInv'
  BY <1>1, <1>2, <1>4, <1>5, <1>6 DEF WorkInv
<1>8. scans' \in 0..MaxScans
  <2>1. scans \in 0..MaxScans /\ MaxScans \in Nat
    BY ScanAssumption DEF IInv, Types
  <2> QED
    BY <1>1, <2>1
<1>9. NoResult \in ResultType
  BY DEF NoResult, ResultType, Hashes
<1>10. digest \in Digests /\ config \in Configs
  BY DEF IInv, Types
<1>11. NoFalsePositives'
  BY <1>1 DEF IInv, NoFalsePositives
<1> QED
  BY <1>1, <1>2, <1>3, <1>7, <1>8, <1>9, <1>10, <1>11 DEF w

\* A launch puts the chunk's midstate and target in place, and every index of
\* the chunk is ahead of a thread.
LEMMA LaunchKeeps ==
  ASSUME IInv, NEW j \in Jobs, NEW d \in Difficulties, Launch(j, d)
  PROVE  IInv'
<1> DEFINE w == NextWork(j, d)
           e == MidstateCopied(engine, w, TRUE)
           f == TargetCopied(e, w, TRUE)
<1>1. TakeChunk(j, d)
  BY DEF Launch
<1>2. engine' = f /\ device_result' = NoResult /\ gpu' = Launched /\ wpc' = "scan"
  BY DEF Launch
<1>3. /\ digest' \in Digests /\ config' \in Configs /\ result' \in ResultType
      /\ job' \in Jobs /\ diff' \in Difficulties /\ work' \in WorkType
      /\ partition_scanned' \in 0 .. Partition.size - 1 /\ scans' \in 0..MaxScans
  BY <1>1, TakeChunkIs
<1>4. WorkInv' /\ NoFalsePositives' /\ work' = w /\ wpc = "ready"
  BY <1>1, TakeChunkIs
<1>5. engine \in EngineType /\ Cached(engine) /\ engine.threads <= MaxThreads /\ Stride # 0
  BY <1>4 DEF IInv, Types, EngineInv, Cached
<1>6. w \in WorkType
  BY <1>3, <1>4
<1> HIDE DEF w
<1>7. /\ e \in EngineType /\ e.blocks = engine.blocks /\ e.threads = engine.threads
      /\ e.d_midstate = w.midstate /\ Cached(e)
  <2>1. e = MidstateCopied(engine, w, TRUE)
    OBVIOUS
  <2> HIDE DEF e
  <2> QED
    BY <1>5, <1>6, <2>1, MidstateIs
<1> HIDE DEF e
<1>8. /\ f \in EngineType /\ f.blocks = engine.blocks /\ f.threads = engine.threads
      /\ f.d_midstate = w.midstate /\ f.d_target = w.target /\ Cached(f)
  <2>1. f = TargetCopied(e, w, TRUE)
    OBVIOUS
  <2> HIDE DEF f
  <2>2. /\ f \in EngineType /\ f.blocks = e.blocks /\ f.threads = e.threads
        /\ f.d_midstate = e.d_midstate /\ f.d_target = w.target /\ Cached(f)
    BY <1>6, <1>7, <2>1, TargetIs
  <2> QED
    BY <1>7, <2>2
<1> HIDE DEF f
<1>9. Stride' = Stride /\ Threads' = Threads /\ Stride \in Nat \ {0}
  <2>1. engine.blocks \in Nat /\ engine.threads \in Nat
    BY <1>5 DEF EngineType
  <2>2. Stride \in Nat
    BY <2>1 DEF Stride
  <2> QED
    BY <1>2, <1>5, <1>8, <2>2 DEF Stride, Threads
<1>10. NoResult \in ResultType /\ ~NoResult.found
  BY DEF NoResult, ResultType, Hashes
<1>11. Types'
  BY <1>2, <1>3, <1>8, <1>10 DEF Types
<1>12. EngineInv'
  BY <1>2, <1>5, <1>8, <1>9 DEF EngineInv, Cached
<1>13. /\ gpu' \in [Threads -> ThreadType]
       /\ \A t \in Threads : gpu'[t].pc = "head" /\ gpu'[t].i = t
  <2>1. 0 \in 0 .. PollEvery - 1
    <3>1. PollEvery \in Nat \ {0}
      BY ScanAssumption
    <3> QED
      BY <3>1
  <2>2. \A t \in Threads : t \in Nat
    BY <1>9 DEF Threads
  <2>3. Launched = [t \in Threads |-> [pc |-> "head", i |-> t, poll_counter |-> 0, nonce |-> 0]]
    BY DEF Launched, Threads, Stride
  <2> QED
    BY <1>2, <2>1, <2>2, <2>3 DEF ThreadType
<1>14. DeviceInv'
  BY <1>2, <1>4, <1>8, <1>9, <1>13 DEF DeviceInv
<1>15. CoverInv'
  <2>1. \A t \in Threads : t % Stride = t
    BY <1>9 DEF Threads
  <2>2. \A k \in Nat : k % Stride <= k
    BY <1>9, Divided
  <2>3. \A t \in Threads, k \in Nat : k % Stride = t => gpu'[t].i <= k
    BY <1>13, <2>2
  <2> QED
    BY <1>9, <1>13, <2>1, <2>3 DEF CoverInv, ComesTo
<1>16. WinnerInv'
  BY <1>2, <1>9, <1>10, <1>13 DEF WinnerInv, Writes
<1>17. FindsCandidates' /\ ResultIsGenuine'
  BY <1>2 DEF FindsCandidates, ResultIsGenuine
<1> QED
  BY <1>4, <1>11, <1>12, <1>14, <1>15, <1>16, <1>17 DEF IInv

\* A launch that fails may leave the cache and the device apart, and ends the
\* worker.
LEMMA LaunchFailsKeeps ==
  ASSUME IInv, NEW j \in Jobs, NEW d \in Difficulties, LaunchFails(j, d)
  PROVE  IInv'
<1> DEFINE w == NextWork(j, d)
           e(ok) == MidstateCopied(engine, w, ok)
           f(ok) == TargetCopied(e(TRUE), w, ok)
<1>1. TakeChunk(j, d)
  BY DEF LaunchFails
<1>2. engine' \in {engine, e(FALSE), f(FALSE), f(TRUE)}
  BY DEF LaunchFails
<1>3. device_result' \in {device_result, NoResult}
  BY DEF LaunchFails
<1>4. wpc' = "end" /\ gpu' = gpu
  BY DEF LaunchFails, AfterFailure
<1>5. /\ digest' \in Digests /\ config' \in Configs /\ result' \in ResultType
      /\ job' \in Jobs /\ diff' \in Difficulties /\ work' \in WorkType
      /\ partition_scanned' \in 0 .. Partition.size - 1 /\ scans' \in 0..MaxScans
  BY <1>1, TakeChunkIs
<1>6. WorkInv' /\ NoFalsePositives' /\ work' = w /\ wpc = "ready"
  BY <1>1, TakeChunkIs
<1>7. engine \in EngineType /\ engine.threads <= MaxThreads /\ device_result \in ResultType
      /\ gpu = Unset
  BY <1>6 DEF IInv, Types, EngineInv
<1>8. w \in WorkType
  BY <1>5, <1>6
<1>9. NoResult \in ResultType
  BY DEF NoResult, ResultType, Hashes
<1> HIDE DEF w
<1>10. \A ok \in BOOLEAN : e(ok) \in EngineType /\ e(ok).threads = engine.threads
  BY <1>7, <1>8, MidstateIs
<1> HIDE DEF e
<1>11. \A ok \in BOOLEAN : f(ok) \in EngineType /\ f(ok).threads = engine.threads
  <2> DEFINE g == e(TRUE)
  <2>1. g \in EngineType /\ g.threads = engine.threads
    BY <1>10
  <2>2. \A ok \in BOOLEAN : f(ok) = TargetCopied(g, w, ok)
    OBVIOUS
  <2> HIDE DEF f, g
  <2> QED
    BY <1>8, <2>1, <2>2, TargetIs
<1> HIDE DEF f
<1>12. engine' \in EngineType /\ engine'.threads = engine.threads
  BY <1>2, <1>7, <1>10, <1>11
<1>13. Types'
  BY <1>3, <1>4, <1>5, <1>7, <1>9, <1>12 DEF Types
<1>14. EngineInv'
  BY <1>4, <1>7, <1>12 DEF EngineInv
<1>15. FindsCandidates' /\ ResultIsGenuine'
  BY <1>4 DEF FindsCandidates, ResultIsGenuine
<1> QED
  BY <1>4, <1>6, <1>13, <1>14, <1>15, NotRunning DEF IInv

\* Every step keeps the invariant.
LEMMA NextKeeps == IInv /\ [Next]_vars => IInv'
<1> SUFFICES ASSUME IInv, [Next]_vars PROVE IInv'
  OBVIOUS
<1>1. CASE CreateEngine
  BY <1>1, CreateEngineKeeps
<1>2. CASE CreateEngineFails
  BY <1>2, CreateEngineFailsKeeps
<1>3. CASE \E j \in Jobs, d \in Difficulties : Launch(j, d) \/ LaunchFails(j, d)
  BY <1>3, LaunchKeeps, LaunchFailsKeeps
<1>4. CASE \E t \in DOMAIN gpu : Thread(t)
  <2>1. PICK t \in DOMAIN gpu : Thread(t)
    BY <1>4
  <2> QED
    BY <2>1, LoopHeadKeeps, FirstKeeps, SecondKeeps, WriteNonceKeeps, WriteHashKeeps DEF Thread
<1>5. CASE ReadResult
  BY <1>5, ReadResultKeeps
<1>6. CASE ScanFails
  BY <1>6, ScanFailsKeeps
<1>7. CASE Judge
  BY <1>7, JudgeKeeps
<1>8. CASE Ended \/ UNCHANGED vars
  <2>1. UNCHANGED vars
    BY <1>8 DEF Ended
  <2>2. /\ digest' = digest /\ config' = config /\ engine' = engine /\ wpc' = wpc
        /\ device_result' = device_result /\ job' = job /\ diff' = diff /\ gpu' = gpu
        /\ partition_scanned' = partition_scanned /\ work' = work /\ result' = result
        /\ false_positives' = false_positives /\ scans' = scans
    BY <2>1 DEF vars
  <2>3. Stride' = Stride /\ Threads' = Threads /\ Candidates' = Candidates
    BY <2>2 DEF Stride, Threads, Candidates, Chunk
  <2>4. Types' /\ EngineInv' /\ WorkInv'
    BY <2>2, <2>3 DEF IInv, Types, EngineInv, WorkInv
  <2>5. DeviceInv'
    BY <2>2, <2>3 DEF IInv, DeviceInv
  <2>6. CoverInv'
    <3>1. CoverInv
      BY DEF IInv
    <3> QED
      BY <2>2, <2>3, <3>1 DEF CoverInv, ComesTo, InChunk
  <2>7. WinnerInv'
    <3>1. WinnerInv
      BY DEF IInv
    <3> QED
      BY <2>2, <2>3, <3>1 DEF WinnerInv, Writes
  <2>8. FindsCandidates' /\ ResultIsGenuine' /\ NoFalsePositives'
    BY <2>2, <2>3 DEF IInv, FindsCandidates, ResultIsGenuine, NoFalsePositives
  <2> QED
    BY <2>4, <2>5, <2>6, <2>7, <2>8 DEF IInv
<1> QED
  BY <1>1, <1>2, <1>3, <1>4, <1>5, <1>6, <1>7, <1>8 DEF Next

\* The invariant implies the type invariant of the runs.
LEMMA TypesImply == IInv => TypeOK
<1> SUFFICES ASSUME IInv PROVE TypeOK
  OBVIOUS
<1>1. Types /\ EngineInv /\ WorkInv /\ DeviceInv
  BY DEF IInv
<1>2. engine \in EngineType /\ work \in WorkType
  BY <1>1 DEF Types
<1>3. engine.blocks \in Nat /\ engine.threads \in Nat
      /\ engine.midstate_valid \in BOOLEAN /\ engine.target_valid \in BOOLEAN
  BY <1>2 DEF EngineType
<1>4. engine.threads \in 0..MaxThreads
  <2>1. engine.threads <= MaxThreads /\ MaxThreads \in Nat
    BY <1>1, LaunchAssumption DEF EngineInv
  <2> QED
    BY <1>3, <2>1
<1>5. work.nonce_count \in 0..Partition.size
  <2>1. work.nonce_count \in Nat
    BY <1>2 DEF WorkType
  <2>2. work.nonce_count <= Partition.size
    BY <1>1 DEF WorkInv
  <2>3. Partition.size \in Nat
    BY ScanAssumption
  <2> QED
    BY <2>1, <2>2, <2>3
<1>6. device_result.found \in BOOLEAN /\ result.found \in BOOLEAN
  <2>1. device_result \in ResultType /\ result \in ResultType
    BY <1>1 DEF Types
  <2> QED
    BY <2>1 DEF ResultType
<1>7. ASSUME NEW t \in DOMAIN gpu
      PROVE  /\ t \in 0..Stride-1
             /\ gpu[t].pc \in {"head", "first", "second", "nonce", "hash", "exit"}
             /\ gpu[t].poll_counter \in 0..PollEvery-1
  <2>1. CASE wpc = "scan"
    <3>1. gpu \in [Threads -> ThreadType]
      BY <1>1, <2>1 DEF DeviceInv
    <3>2. t \in Threads /\ gpu[t] \in ThreadType
      BY <3>1
    <3> QED
      BY <3>2 DEF ThreadType, Threads
  <2>2. CASE wpc # "scan"
    <3>1. gpu = <<>>
      BY <1>1, <2>2 DEF Types, Unset
    <3> QED
      BY <3>1
  <2> QED
    BY <2>1, <2>2
<1>8. false_positives \in 0..MaxScans
  <2>1. false_positives = 0 /\ MaxScans \in Nat
    BY ScanAssumption DEF IInv, NoFalsePositives
  <2> QED
    BY <2>1
<1>9. /\ digest \in Digests /\ config \in Configs
      /\ wpc \in {"start", "ready", "scan", "judge", "end"}
      /\ job \in Jobs \cup {NoJob} /\ diff \in Difficulties \cup {0}
      /\ partition_scanned \in 0 .. Partition.size - 1 /\ scans \in 0..MaxScans
  BY <1>1 DEF Types
<1> QED
  BY <1>3, <1>4, <1>5, <1>6, <1>7, <1>8, <1>9 DEF TypeOK

\* The inductive invariant is one of every device, worker, partition and set of
\* headers, for any number of threads.
THEOREM ScanSafety == Spec => []IInv
BY InitHolds, NextKeeps, PTL DEF Spec

\* The types of the worker, the engine and the kernel's threads.
THEOREM ScanTypes == Spec => []TypeOK
BY ScanSafety, TypesImply, PTL

\* A scan that returns reports a nonce exactly when its chunk has a share: the
\* loop's two tries a round step over no candidate, a thread that stops early
\* stops for a share, and the cached midstate and target are the chunk's.
THEOREM CandidatesFound == Spec => []FindsCandidates
<1>1. IInv => FindsCandidates
  BY DEF IInv
<1> QED
  BY ScanSafety, <1>1, PTL

\* What it reports is one share of the chunk: nonce and hash are of one thread.
THEOREM GenuineResult == Spec => []ResultIsGenuine
<1>1. IInv => ResultIsGenuine
  BY DEF IInv
<1> QED
  BY ScanSafety, <1>1, PTL

\* The CPU confirms every nonce that the GPU reports.
THEOREM AllConfirmed == Spec => []NoFalsePositives
<1>1. IInv => NoFalsePositives
  BY DEF IInv
<1> QED
  BY ScanSafety, <1>1, PTL

-----------------------------------------------------------------------------
(* The target in place.                                                    *)

\* The chunk last taken, in a failed launch too, is of the job and the
\* difficulty last taken, and inside the partition.
TakenInv ==
  work # NoWork =>
    /\ job \in Jobs /\ diff \in Difficulties /\ work.target = Target[diff]
    /\ work.start_nonce \in Nat /\ work.nonce_count \in Nat
    /\ work.start_nonce >= Partition.start
    /\ work.start_nonce + work.nonce_count <= Partition.start + Partition.size

\* What taking a chunk does for it.
LEMMA TakeChunkTakes ==
  ASSUME IInv, NEW j \in Jobs, NEW d \in Difficulties, TakeChunk(j, d)
  PROVE  TakenInv'
<1> DEFINE scanned == IF j = job THEN partition_scanned ELSE 0
           w == NextWork(j, d)
<1>1. job' = j /\ diff' = d /\ work' = w /\ wpc = "ready"
  BY DEF TakeChunk
<1>2. w \in WorkType /\ scanned \in 0 .. Partition.size - 1
  BY <1>1, NextWorkIs
<1>3. w.start_nonce = Partition.start + scanned
  BY <1>1, NextWorkIs
<1>4. w.nonce_count + scanned <= Partition.size /\ w.target = Target[d]
  BY <1>1, NextWorkIs
<1>5. w.start_nonce \in Nat /\ w.nonce_count \in Nat
  BY <1>2 DEF WorkType
<1> HIDE DEF scanned, w
<1>6. Partition.start \in Nat /\ Partition.size \in Nat
  BY ScanAssumption
<1>7. scanned \in Nat /\ scanned >= 0
  BY <1>2, <1>6
<1>8. /\ w.start_nonce >= Partition.start
      /\ w.start_nonce + w.nonce_count <= Partition.start + Partition.size
  BY <1>3, <1>4, <1>5, <1>6, <1>7
<1> QED BY <1>1, <1>4, <1>5, <1>8 DEF TakenInv

\* Nothing else takes a chunk.
LEMMA TakenKept ==
  ASSUME IInv, TakenInv, [Next]_vars
  PROVE  TakenInv'
<1>1. CASE \E j \in Jobs, d \in Difficulties : Launch(j, d) \/ LaunchFails(j, d)
  BY <1>1, TakeChunkTakes DEF Launch, LaunchFails
<1>2. CASE \E t \in DOMAIN gpu : Thread(t)
  <2>1. UNCHANGED workerVars
    BY <1>2 DEF Thread, LoopHead, First, Second, Try, WriteNonce, WriteHash
  <2> QED BY <2>1 DEF workerVars, TakenInv
<1>3. CASE CreateEngine \/ CreateEngineFails \/ ReadResult \/ ScanFails \/ Judge \/ Ended
           \/ UNCHANGED vars
  <2>1. job' = job /\ diff' = diff /\ work' = work
    BY <1>3 DEF CreateEngine, CreateEngineFails, ReadResult, ScanFails, Judge, Ended, vars
  <2> QED BY <2>1 DEF TakenInv
<1> QED BY <1>1, <1>2, <1>3 DEF Next

\* So the target is exact: the words that the worker compares hashes with are
\* the quotient of the target of difficulty 1 by the whole difficulty, and a
\* hash meets them exactly when its number is at most the quotient's.
LEMMA TakenIsExact == IInv /\ TakenInv => TargetIsExact
<1> SUFFICES ASSUME IInv, TakenInv, work # NoWork
             PROVE  LET quotient == TargetValue(kDiff1Target) \div integer_diff(diff)
                    IN  /\ TargetValue(work.target) = quotient
                        /\ \A n \in Chunk : hash_be_meets_target(digest[job, n], work.target)
                                            <=> HashValue(digest[job, n]) <= quotient
  BY DEF TargetIsExact
<1> DEFINE t == target_from_difficulty(diff)
           quotient == TargetValue(kDiff1Target) \div integer_diff(diff)
<1>1. job \in Jobs /\ diff \in Difficulties /\ work.target = Target[diff]
  BY DEF TakenInv
<1>2. work.target = t
  BY <1>1 DEF Target
<1>3. diff \in Nat /\ integer_diff(diff) <= Word
  BY <1>1, ScanAssumption
<1> HIDE DEF t, quotient
<1>4. t \in [0 .. Words-1 -> 0 .. Word-1] /\ TargetValue(t) = quotient
  BY <1>3, TargetIsQuotient DEF t, quotient
<1>5. ASSUME NEW n \in Chunk PROVE digest[job, n] \in Digits
  <2>1. work.start_nonce \in Nat /\ work.nonce_count \in Nat
    BY DEF TakenInv
  <2>2. /\ work.start_nonce >= Partition.start
        /\ work.start_nonce + work.nonce_count <= Partition.start + Partition.size
    BY DEF TakenInv
  <2>3. Partition.start \in Nat /\ Partition.size \in Nat
    BY ScanAssumption
  <2>4. n \in Nonces
    BY <2>1, <2>2, <2>3 DEF Chunk, Nonces
  <2>5. digest \in Digests
    BY DEF IInv, Types
  <2>6. digest \in [Jobs \X Nonces -> Digits]
    BY <2>5, ScanAssumption DEF Digits
  <2> QED BY <1>1, <2>4, <2>6
<1>6. ASSUME NEW n \in Chunk
      PROVE  hash_be_meets_target(digest[job, n], t) <=> HashValue(digest[job, n]) <= quotient
  <2> DEFINE h == digest[job, n]
  <2>1. h \in Digits
    BY <1>5
  <2> HIDE DEF h
  <2>2. hash_be_meets_target(h, t) <=> HashValue(h) <= TargetValue(t)
    BY <1>4, <2>1, MeetsIsAtMost
  <2> QED BY <1>4, <2>2 DEF h
<1> QED BY <1>2, <1>4, <1>6 DEF quotient

\* The target a scan runs with is exact, for any number and base of words and
\* every difficulty that fits a word.
THEOREM TargetExact == Spec => []TargetIsExact
<1>1. Init => TakenInv
  BY DEF Init, TakenInv
<1>2. IInv /\ TakenInv /\ [Next]_vars => TakenInv'
  BY TakenKept
<1> QED
  BY <1>1, <1>2, ScanSafety, TakenIsExact, PTL DEF Spec

=============================================================================
