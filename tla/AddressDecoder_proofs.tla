----------------------- MODULE AddressDecoder_proofs -----------------------
(***************************************************************************)
(* What the address decoder computes, for texts of any length: what it     *)
(* takes from a base58 text is the only sequence of bytes that the text    *)
(* spells, and it finds it, since no carry is ever lost in the bytes that  *)
(* it sets aside; the bits of a bech32 program are those of its values.    *)
(*                                                                         *)
(* Intervals of numbers are written Below(n): the provers list an interval *)
(* of given ends number by number.                                         *)
(***************************************************************************)
EXTENDS AddressDecoder, NoncePartition_proofs, SequenceTheorems

-----------------------------------------------------------------------------
(* Reading a number, and multiplying one digit after the other.            *)

\* The numbers so far are those of a reading from the first digit on.
ReadsAs(f, s, radix) ==
  /\ f \in [0..Len(s) -> Nat] /\ f[0] = 0
  /\ \A k \in 1..Len(s) : f[k] = radix * f[k - 1] + s[k]

\* The recursion of NumberSoFar is the reading it looks like.
LEMMA NumberIs ==
  ASSUME NEW s \in Seq(Nat), NEW radix \in Nat
  PROVE  /\ ReadsAs(NumberSoFar(s, radix), s, radix)
         /\ Number(s, radix) = NumberSoFar(s, radix)[Len(s)] /\ Number(s, radix) \in Nat
<1> DEFINE n == Len(s)
           R == NumberSoFar(s, radix)
           step == [k \in 1..n |-> [x \in Nat |-> radix * x + s[k]]]
<1>1. n \in Nat /\ \A k \in 1..n : s[k] \in Nat
  OBVIOUS
<1>2. step \in [1..n -> [Nat -> Nat]]
  BY <1>1
<1>3. PICK f : Iterates(f, n, Nat, 0, step)
  <2> DEFINE T == Nat
             base == 0
  <2>1. n \in Nat /\ base \in T /\ step \in [1..n -> [T -> T]]
    BY <1>1, <1>2
  <2>2. \E f : Iterates(f, n, T, base, step)
    <3> HIDE DEF step, n, T, base
    <3> QED BY <2>1, Iteration
  <2> QED BY <2>2
<1>4. f \in [0..n -> Nat] /\ f[0] = 0 /\ \A k \in 1..n : f[k] = radix * f[k - 1] + s[k]
  <2>1. \A k \in 1..n : \A x \in Nat : step[k][x] = radix * x + s[k]
    OBVIOUS
  <2>2. f \in [0..n -> Nat] /\ f[0] = 0 /\ \A k \in 1..n : f[k] = step[k][f[k - 1]]
    BY <1>3 DEF Iterates
  <2>3. \A k \in 1..n : k - 1 \in 0..n
    BY <1>1
  <2> HIDE DEF step, n
  <2> QED BY <2>1, <2>2, <2>3
<1>5. f = [k \in 0..n |-> IF k = 0 THEN 0 ELSE radix * f[k - 1] + s[k]]
  <2>1. \A k \in 0..n : f[k] = IF k = 0 THEN 0 ELSE radix * f[k - 1] + s[k]
    BY <1>4
  <2> QED BY <1>4, <2>1
<1>6. R = [k \in 0..n |-> IF k = 0 THEN 0 ELSE radix * R[k - 1] + s[k]]
  BY <1>5, Zenon DEF NumberSoFar
<1> HIDE DEF R
<1>7. ASSUME NEW k \in 1..n PROVE R[k] = radix * R[k - 1] + s[k]
  BY <1>1, <1>6
<1>8. R[0] = 0
  BY <1>1, <1>6
<1> DEFINE S == {k \in 0..n : R[k] \in Nat}
<1>9. \A k \in 0..n-1 : k \in S => k + 1 \in S
  <2> TAKE k \in 0..n-1
  <2>1. R[k + 1] = radix * R[k] + s[k + 1]
    BY <1>1, <1>7
  <2>2. k \in S => R[k + 1] \in Nat
    <3> SUFFICES ASSUME k \in S PROVE R[k + 1] \in Nat
      OBVIOUS
    <3> DEFINE x == R[k]
               y == s[k + 1]
    <3>1. x \in Nat /\ y \in Nat
      BY <1>1
    <3>2. R[k + 1] = radix * x + y
      BY <2>1
    <3> HIDE DEF x, y
    <3>3. radix * x + y \in Nat
      BY <3>1
    <3> QED BY <3>2, <3>3
  <2> QED BY <1>1, <2>2
<1>10. 0..n \subseteq S
  <2>1. 0 \in S
    BY <1>1, <1>8
  <2> HIDE DEF S, n
  <2> QED BY <1>1, <1>9, <2>1, UpTo
<1>11. R \in [0..n -> Nat]
  BY <1>6, <1>10
<1>12. ReadsAs(R, s, radix)
  BY <1>7, <1>8, <1>11 DEF ReadsAs
<1> QED BY <1>1, <1>11, <1>12 DEF Number, R

\* Numbers below another.
Below(n) == {k \in Nat : k < n}

\* What the byte k from the end adds to a carry.
Added(bytes, k) == IF k <= Len(bytes) THEN 58 * bytes[Len(bytes) - k + 1] ELSE 0

\* What a byte adds to a carry is at most 58 * 255.
LEMMA AddedFits ==
  ASSUME NEW bytes \in Seq(Below(256)), NEW k \in Nat \ {0}
  PROVE  Added(bytes, k) \in Below(14791)
<1>1. CASE k <= Len(bytes)
  <2> DEFINE i == Len(bytes) - k + 1
             b == bytes[i]
  <2>1. i \in 1..Len(bytes)
    BY <1>1
  <2>2. b \in Below(256)
    <3> HIDE DEF i
    <3> QED BY <2>1, ElementOfSeq
  <2>3. Added(bytes, k) = 58 * b
    BY <1>1 DEF Added
  <2> HIDE DEF b
  <2> QED BY <2>2, <2>3 DEF Below
<1>2. CASE ~(k <= Len(bytes))
  BY <1>2 DEF Added, Below
<1> QED BY <1>1, <1>2

\* A carry and what a byte adds give a carry again.
LEMMA CarryFits ==
  ASSUME NEW x \in Below(58), NEW y \in Below(14791)
  PROVE  (x + y) \div 256 \in Below(58)
<1> DEFINE z == x + y
           q == z \div 256
<1>1. z \in Nat /\ z < 14848
  BY DEF Below
<1> HIDE DEF z
<1>2. z = 256 * q + (z % 256) /\ q \in Nat /\ z % 256 \in 0 .. 256-1
  BY <1>1, Divided
<1> HIDE DEF q
<1>3. q \in Below(58)
  BY <1>1, <1>2 DEF Below
<1> QED BY <1>3 DEF q, z

\* The recursion of carries, for any bytes, has a solution, and only small ones.
CarryOf(R, value, add, room) ==
  R = [k \in 0..room |-> IF k = 0 THEN value ELSE (R[k - 1] + add[k]) \div 256]

\* There is a carry for every position.
LEMMA CarryExists ==
  ASSUME NEW value \in Below(58), NEW room \in Nat, NEW add \in [1..room -> Below(14791)]
  PROVE  \E R : CarryOf(R, value, add, room)
<1> DEFINE step == [k \in 1..room |-> [x \in Below(58) |-> (x + add[k]) \div 256]]
<1>1. step \in [1..room -> [Below(58) -> Below(58)]]
  <2>1. \A k \in 1..room : \A x \in Below(58) : (x + add[k]) \div 256 \in Below(58)
    <3> TAKE k \in 1..room
    <3> DEFINE y == add[k]
    <3>1. y \in Below(14791)
      OBVIOUS
    <3> HIDE DEF y
    <3> QED BY <3>1, CarryFits
  <2> QED BY <2>1
<1>2. PICK f : Iterates(f, room, Below(58), value, step)
  <2> DEFINE T == Below(58)
  <2>1. value \in T /\ step \in [1..room -> [T -> T]]
    BY <1>1
  <2>2. \E f : Iterates(f, room, T, value, step)
    <3> HIDE DEF step, T
    <3> QED BY <2>1, Iteration
  <2> HIDE DEF step
  <2> QED BY <2>2
<1>3. /\ f \in [0..room -> Below(58)] /\ f[0] = value
      /\ \A k \in 1..room : f[k] = (f[k - 1] + add[k]) \div 256
  <2>1. \A k \in 1..room : \A x \in Below(58) : step[k][x] = (x + add[k]) \div 256
    OBVIOUS
  <2>2. f \in [0..room -> Below(58)] /\ f[0] = value /\ \A k \in 1..room : f[k] = step[k][f[k - 1]]
    BY <1>2 DEF Iterates
  <2>3. \A k \in 1..room : k - 1 \in 0..room
    OBVIOUS
  <2> HIDE DEF step
  <2> QED BY <2>1, <2>2, <2>3
<1>4. \A k \in 0..room : f[k] = IF k = 0 THEN value ELSE (f[k - 1] + add[k]) \div 256
  BY <1>3
<1>5. f = [k \in 0..room |-> IF k = 0 THEN value ELSE (f[k - 1] + add[k]) \div 256]
  <2> DEFINE e(k) == IF k = 0 THEN value ELSE (f[k - 1] + add[k]) \div 256
  <2>1. f \in [0..room -> Below(58)] /\ \A k \in 0..room : f[k] = e(k)
    BY <1>3, <1>4
  <2> HIDE DEF e, step
  <2>2. f = [k \in 0..room |-> e(k)]
    BY <2>1
  <2> QED BY <2>2 DEF e
<1>6. CarryOf(f, value, add, room)
  BY <1>5 DEF CarryOf
<1> QED BY <1>6

CarryAt(R, value, add, room) ==
  /\ R \in [0..room -> Below(58)] /\ R[0] = value
  /\ \A k \in 1..room : R[k] = (R[k - 1] + add[k]) \div 256

\* Whatever carries like that is a carry at every position.
LEMMA CarryIs ==
  ASSUME NEW value \in Below(58), NEW room \in Nat, NEW add \in [1..room -> Below(14791)],
         NEW R, CarryOf(R, value, add, room)
  PROVE  CarryAt(R, value, add, room)
<1>1. R[0] = value
  BY DEF CarryOf
<1>2. \A k \in 1..room : R[k] = (R[k - 1] + add[k]) \div 256
  BY DEF CarryOf
<1> DEFINE S == {k \in 0..room : R[k] \in Below(58)}
<1>3. 0 \in S
  BY <1>1
<1>4. ASSUME NEW k \in 0..room-1, k \in S PROVE k + 1 \in S
  <2> DEFINE x == R[k]
             y == add[k + 1]
  <2>1. k + 1 \in 1..room /\ (k + 1) - 1 = k /\ k + 1 \in 0..room
    OBVIOUS
  <2>2. x \in Below(58)
    BY <1>4
  <2>3. y \in Below(14791)
    BY <2>1
  <2>4. R[k + 1] = (x + y) \div 256
    BY <1>2, <2>1
  <2> HIDE DEF x, y
  <2>5. (x + y) \div 256 \in Below(58)
    BY <2>2, <2>3, CarryFits
  <2> QED BY <2>1, <2>4, <2>5
<1>5. 0..room \subseteq S
  <2> HIDE DEF S
  <2> DEFINE n == room
  <2>1. n \in Nat /\ \A k \in 0 .. n-1 : k \in S => k + 1 \in S
    BY <1>4
  <2> HIDE DEF n
  <2>2. 0..n \subseteq S
    BY ONLY <1>3, <2>1, UpTo
  <2> QED BY <2>2 DEF n
<1>6. R \in [0..room -> Below(58)]
  BY <1>5 DEF CarryOf
<1> QED BY <1>1, <1>2, <1>6 DEF CarryAt

\* A carry is less than the radix.
Carrying(carry, bytes, value, room) ==
  /\ carry \in [0..room -> Below(58)] /\ carry[0] = value
  /\ \A k \in 1..room : carry[k] = (carry[k - 1] + Added(bytes, k)) \div 256

\* So Carries is: each carry is what its byte leaves.
LEMMA CarriesAre ==
  ASSUME NEW bytes \in Seq(Below(256)), NEW value \in Below(58), NEW room \in Nat
  PROVE  Carrying(Carries(bytes, value, room), bytes, value, room)
<1> DEFINE R == Carries(bytes, value, room)
           add == [k \in 1..room |-> Added(bytes, k)]
<1>1. add \in [1..room -> Below(14791)]
  <2>1. \A k \in 1..room : k \in Nat \ {0}
    OBVIOUS
  <2> QED BY <2>1, AddedFits
<1>2. PICK f : CarryOf(f, value, add, room)
  <2> HIDE DEF add
  <2> QED BY <1>1, CarryExists
<1>3. f = [k \in 0..room |-> IF k = 0 THEN value ELSE (f[k - 1] + Added(bytes, k)) \div 256]
  BY <1>2 DEF CarryOf
<1> HIDE DEF add
<1>4. R = [k \in 0..room |-> IF k = 0 THEN value ELSE (R[k - 1] + Added(bytes, k)) \div 256]
  BY <1>3, Zenon DEF Carries, Added, Radix, Byte
<1>0. R = Carries(bytes, value, room)
  OBVIOUS
<1> USE DEF add
<1> HIDE DEF R
<1>5. CarryOf(R, value, add, room)
  BY <1>4 DEF CarryOf
<1>6. \A k \in 1..room : add[k] = Added(bytes, k)
  OBVIOUS
<1> HIDE DEF add
<1>7. /\ R \in [0..room -> Below(58)] /\ R[0] = value
      /\ \A k \in 1..room : R[k] = (R[k - 1] + add[k]) \div 256
  <2>1. CarryAt(R, value, add, room)
    BY <1>1, <1>5, CarryIs
  <2> QED BY <2>1 DEF CarryAt
<1>8. ASSUME NEW k \in 1..room PROVE R[k] = (R[k - 1] + Added(bytes, k)) \div 256
  <2>1. R[k] = (R[k - 1] + add[k]) \div 256 /\ add[k] = Added(bytes, k)
    BY <1>6, <1>7
  <2> QED BY ONLY <2>1
<1>9. Carrying(R, bytes, value, room)
  BY ONLY <1>7, <1>8 DEF Carrying
<1> QED BY <1>0, <1>9

\* A number by its bytes.
LEMMA ByteRest ==
  ASSUME NEW z \in Nat
  PROVE  z % 256 \in Below(256) /\ z \div 256 \in Nat /\ z = 256 * (z \div 256) + (z % 256)
BY DEF Below

\* A set of numbers has a least one.
LEMMA LeastNumber ==
  ASSUME NEW T, T \subseteq Nat, T # {}
  PROVE  \E x \in T : \A y \in T : x <= y
<1>1. PICK x \in T : \A y \in T : <<y, x>> \notin OpToRel(<, Nat)
  BY WFMin, NatLessThanWellFounded
<1>2. ASSUME NEW y \in T PROVE x <= y
  <2>1. x \in Nat /\ y \in Nat
    OBVIOUS
  <2>2. ~(y < x)
    BY <1>1, <2>1, SmallerIsBefore
  <2> QED BY <2>1, <2>2
<1> QED BY <1>2

\* The bytes of a product.
ProductOf(out, n, carry, bytes) ==
  out = [k \in 1..n |-> (carry[n - k] + Added(bytes, n - k + 1)) % 256]

\* What Multiplied gives, by its carries: as many bytes as the carry needs,
\* each the rest of what its carry and its byte make.
MultiplyOf(m, n, carry, bytes, value, room) ==
  /\ n \in Len(bytes) .. room /\ (n = room \/ carry[n] = 0)
  /\ \A j \in Len(bytes) .. n-1 : carry[j] # 0
  /\ Carrying(carry, bytes, value, room)
  /\ ProductOf(m.bytes, n, carry, bytes) /\ m.over = carry[n]
  /\ m = [bytes |-> m.bytes, over |-> m.over]

\* What Multiplied returns has some length and is the product's digits.
LEMMA MultipliedShape ==
  ASSUME NEW bytes \in Seq(Below(256)), NEW value \in Below(58), NEW room \in Nat,
         Len(bytes) <= room
  PROVE  \E n, carry : MultiplyOf(Multiplied(bytes, value, room), n, carry, bytes, value, room)
<1> DEFINE carry == Carries(bytes, value, room)
           m == Multiplied(bytes, value, room)
<1>0. Carrying(carry, bytes, value, room)
  BY CarriesAre
<1> DEFINE count == Len(bytes)
           P(n) == /\ n >= count /\ (n = room \/ carry[n] = 0)
                   /\ \A k \in count .. n-1 : carry[k] # 0
           length == CHOOSE n \in 0..room : P(n)
<1>1. count \in Nat
  OBVIOUS
<1>2. \E n \in 0..room : P(n)
  <2> DEFINE T == {n \in count..room : n = room \/ carry[n] = 0}
  <2> HIDE DEF count
  <2>1. T \subseteq Nat /\ room \in T
    BY <1>1 DEF count
  <2>2. PICK n \in T : \A k \in T : n <= k
    <3> HIDE DEF T
    <3> QED BY <2>1, LeastNumber
  <2>3. \A k \in count .. n-1 : carry[k] # 0
    BY <1>1, <2>2
  <2> QED BY <1>1, <2>2, <2>3
<1>3. length \in 0..room /\ P(length)
  <2> HIDE DEF P
  <2> QED BY <1>2
<1> DEFINE digit(k) == (carry[k] + (IF k < count THEN 58 * bytes[count - k] ELSE 0)) % 256
<1>4. m = [bytes |-> [k \in 1..length |-> digit(length - k)], over |-> carry[length]]
  BY DEF Multiplied, Radix, Byte
<1> HIDE DEF length
<1>5. \A k \in 1..length : digit(length - k) = (carry[length - k] + Added(bytes, length - k + 1)) % 256
  <2> TAKE k \in 1..length
  <2> DEFINE j == length - k
  <2>1. j \in Nat
    BY <1>3
  <2> HIDE DEF j
  <2>2. (IF j < count THEN 58 * bytes[count - j] ELSE 0) = Added(bytes, j + 1)
    BY <1>1, <2>1 DEF Added
  <2> QED BY <2>2 DEF j
<1>6. [k \in 1..length |-> digit(length - k)]
        = [k \in 1..length |-> (carry[length - k] + Added(bytes, length - k + 1)) % 256]
  BY <1>5
<1> HIDE DEF carry, m, P, digit
<1>7. /\ m.bytes = [k \in 1..length |-> digit(length - k)] /\ m.over = carry[length]
      /\ m = [bytes |-> m.bytes, over |-> m.over]
  BY <1>4
<1>8. ProductOf(m.bytes, length, carry, bytes)
  BY <1>6, <1>7 DEF ProductOf
<1>9. MultiplyOf(m, length, carry, bytes, value, room)
  <2>1. length \in Len(bytes) .. room
    BY <1>1, <1>3 DEF P
  <2> QED BY <1>0, <1>3, <1>7, <1>8, <2>1 DEF MultiplyOf, P
<1> QED BY <1>9 DEF m

\* A number that grows by the radix from one place to the next.
Scaled(q, n, radix) ==
  /\ \A k \in 0..n : q[k] \in Nat
  /\ \A k \in 1..n : q[k] = radix * q[k - 1]

\* They are bytes.
LEMMA MultipliedBytes ==
  ASSUME NEW n \in Nat, NEW room \in Nat, n <= room, NEW carry \in [0..room -> Below(58)],
         NEW bytes \in Seq(Below(256)),
         NEW out, ProductOf(out, n, carry, bytes)
  PROVE  out \in Seq(Below(256)) /\ Len(out) = n
<1>1. ASSUME NEW k \in 1..n
      PROVE  (carry[n - k] + Added(bytes, n - k + 1)) % 256 \in Below(256)
  <2> DEFINE x == carry[n - k]
             y == Added(bytes, n - k + 1)
  <2>1. n - k \in 0..room /\ n - k + 1 \in Nat \ {0}
    OBVIOUS
  <2>2. x \in Below(58)
    BY <2>1
  <2>4. y \in Below(14791)
    BY <2>1, AddedFits
  <2> HIDE DEF x, y
  <2>5. x \in Nat /\ y \in Nat /\ x + y \in Nat
    BY <2>2, <2>4 DEF Below
  <2>6. (x + y) % 256 \in Below(256)
    BY <2>5, ByteRest
  <2> QED BY <2>6 DEF x, y
<1>2. out \in [1..n -> Below(256)]
  BY <1>1 DEF ProductOf
<1>3. out \in Seq(Below(256)) /\ Len(out) = n
  BY <1>2
<1> QED BY <1>3

\* Read from its first byte on, the product is 58 times the number so far
\* and the carry out of what is left; q is an overflow, or a part of it, as
\* the value of the byte before the first.
LEMMA MultipliedValue ==
  ASSUME NEW bytes \in Seq(Below(256)), NEW value \in Below(58), NEW room \in Nat,
         NEW n \in Len(bytes) .. room,
         NEW carry, Carrying(carry, bytes, value, room),
         NEW out, ProductOf(out, n, carry, bytes),
         NEW q, Scaled(q, n, 256), q[0] <= carry[n]
  PROVE  /\ Number(out, 256) + q[n] <= 58 * Number(bytes, 256) + value
         /\ q[0] = carry[n] => Number(out, 256) + q[n] = 58 * Number(bytes, 256) + value
<1> DEFINE count == Len(bytes)
           shift == n - count
           N == NumberSoFar(bytes, 256)
           O == NumberSoFar(out, 256)
           Before(k) == IF k <= shift THEN 0 ELSE N[k - shift]
<1>1. count \in Nat /\ n \in Nat /\ n <= room /\ shift \in 0..n
  OBVIOUS
<1>2. /\ carry \in [0..room -> Below(58)] /\ carry[0] = value
      /\ \A k \in 1..room : carry[k] = (carry[k - 1] + Added(bytes, k)) \div 256
  BY DEF Carrying
<1>3. /\ out \in Seq(Below(256)) /\ Len(out) = n
      /\ \A k \in 1..n : out[k] = (carry[n - k] + Added(bytes, n - k + 1)) % 256
  <2>1. carry \in [0..room -> Below(58)]
    BY DEF Carrying
  <2>2. out \in Seq(Below(256)) /\ Len(out) = n
    BY <1>1, <2>1, MultipliedBytes
  <2>3. \A k \in 1..n : out[k] = (carry[n - k] + Added(bytes, n - k + 1)) % 256
    BY DEF ProductOf
  <2> QED BY <2>2, <2>3
<1>4. out \in Seq(Nat) /\ bytes \in Seq(Nat)
  BY <1>3 DEF Below
<1>5. /\ O \in [0..n -> Nat] /\ O[0] = 0 /\ Number(out, 256) = O[n]
      /\ \A k \in 1..n : O[k] = 256 * O[k - 1] + out[k]
  <2>1. ReadsAs(O, out, 256) /\ Number(out, 256) = O[Len(out)]
    BY <1>4, NumberIs
  <2> HIDE DEF O
  <2> QED BY <1>3, <2>1 DEF ReadsAs
<1>6. /\ N \in [0..count -> Nat] /\ N[0] = 0 /\ Number(bytes, 256) = N[count]
      /\ \A k \in 1..count : N[k] = 256 * N[k - 1] + bytes[k]
  <2>1. ReadsAs(N, bytes, 256) /\ Number(bytes, 256) = N[Len(bytes)]
    BY <1>4, NumberIs
  <2> HIDE DEF N
  <2> QED BY <2>1 DEF ReadsAs
<1> HIDE DEF O, N, shift
<1> DEFINE S == {k \in 0..n : /\ O[k] + q[k] <= 58 * Before(k) + carry[n - k]
                              /\ q[0] = carry[n] => O[k] + q[k] = 58 * Before(k) + carry[n - k]}
<1>7. 0 \in S
  <2>1. Before(0) = 0
    BY <1>1
  <2> HIDE DEF Before
  <2>2. carry[0] = value /\ carry[n] \in Nat /\ value \in Nat /\ q[0] \in Nat
    BY <1>1 DEF Below, Carrying, Scaled
  <2> QED BY <1>1, <1>5, <2>1, <2>2
<1>8. ASSUME NEW k \in 0 .. n-1, k \in S PROVE k + 1 \in S
  <2> DEFINE j == n - k
             a == Added(bytes, j)
             b == IF j <= count THEN bytes[count - j + 1] ELSE 0
  <2>1. j \in 1..room /\ j - 1 = n - (k + 1) /\ j = n - (k + 1) + 1 /\ k + 1 \in 1..n /\ (k + 1) - 1 = k
    BY <1>1
  <2>2. carry[j - 1] \in Nat /\ a \in Nat /\ a = 58 * b
    <3>1. j \in Nat \ {0} /\ j - 1 \in 0..room
      BY <2>1
    <3>2. a \in Below(14791)
      <4> HIDE DEF j
      <4> QED BY <3>1, AddedFits
    <3>3. carry[j - 1] \in Below(58)
      <4> HIDE DEF j
      <4> QED BY <1>2, <3>1
    <3>4. a = 58 * b
      BY DEF Added
    <3> HIDE DEF a, b
    <3> QED BY <3>2, <3>3, <3>4 DEF Below
  <2>3. carry[j - 1] + a = 256 * carry[j] + out[k + 1]
    <3> DEFINE z == carry[j - 1] + a
    <3>1. carry[j] = z \div 256 /\ out[k + 1] = z % 256
      BY <1>2, <1>3, <2>1
    <3>2. z \in Nat
      BY <2>2
    <3> HIDE DEF z, j
    <3>3. z = 256 * (z \div 256) + (z % 256)
      BY <3>2, ByteRest
    <3> QED BY <3>1, <3>3 DEF z
  <2>4. b \in Nat /\ Before(k) \in Nat /\ Before(k + 1) = 256 * Before(k) + b
    <3>1. CASE j <= count
      <4> DEFINE i == count - j + 1
      <4>1. i \in 1..count /\ i = (k + 1) - shift /\ i - 1 = k - shift /\ ~(k + 1 <= shift)
            /\ (k <= shift => i - 1 = 0) /\ i - 1 \in 0..count
        <5>1. j \in Nat /\ count \in Nat /\ n \in Nat /\ k \in Nat /\ j = n - k /\ j # 0
              /\ j <= count /\ shift = n - count
          BY <1>1, <2>1, <3>1 DEF shift
        <5> HIDE DEF j, count, shift
        <5> QED BY <5>1
      <4>2. b = bytes[i] /\ b \in Nat
        <5>1. b = bytes[i]
          BY <3>1
        <5> HIDE DEF i
        <5>2. bytes[i] \in Nat
          BY <1>4, <4>1, ElementOfSeq
        <5> QED BY <5>1, <5>2
      <4>3. Before(k + 1) = N[i] /\ Before(k) = N[i - 1] /\ N[i - 1] \in Nat
        <5> HIDE DEF i
        <5>1. N[i - 1] \in Nat
          BY <1>6, <4>1
        <5>2. Before(k + 1) = N[i]
          BY <4>1
        <5>3. Before(k) = N[i - 1]
          BY <1>6, <4>1
        <5> QED BY <5>1, <5>2, <5>3
      <4> HIDE DEF i, b, Before
      <4> QED BY <1>6, <4>1, <4>2, <4>3
    <3>2. CASE ~(j <= count)
      <4>1. k + 1 <= shift /\ k <= shift
        BY <1>1, <2>1, <3>2 DEF shift
      <4> QED BY <3>2, <4>1
    <3> QED BY <3>1, <3>2
  <2>5. O[k + 1] = 256 * O[k] + out[k + 1] /\ q[k + 1] = 256 * q[k]
    <3> HIDE DEF j, Before
    <3>1. O[k + 1] = 256 * O[k] + out[k + 1]
      BY <1>5, <2>1
    <3>2. q[k + 1] = 256 * q[k]
      BY <2>1 DEF Scaled
    <3> QED BY <3>1, <3>2
  <2>6. O[k] \in Nat /\ q[k] \in Nat /\ carry[j] \in Nat /\ out[k + 1] \in Nat
    <3>0. k \in 0..n
      BY <1>1
    <3>1. O[k] \in Nat
      BY <1>5, <3>0
    <3>4. q[k] \in Nat
      BY <3>0 DEF Scaled
    <3>2. carry[j] \in Nat
      BY <2>1 DEF Below, Carrying
    <3>3. out[k + 1] \in Nat
      BY <1>3, <1>4, <2>1
    <3> QED BY <3>1, <3>2, <3>3, <3>4
  <2>7. /\ O[k] + q[k] <= 58 * Before(k) + carry[j]
        /\ q[0] = carry[n] => O[k] + q[k] = 58 * Before(k) + carry[j]
    BY <1>8
  <2>8. carry[n - (k + 1)] = carry[j - 1] /\ k + 1 \in 0..n
    BY <2>1
  <2> HIDE DEF a, b, Before, j
  <2>9. Before(k) \in Nat
    BY <2>4
  <2>12. out[k + 1] \in Nat /\ carry[j - 1] + 58 * b = 256 * carry[j] + out[k + 1]
    BY <2>2, <2>3, <2>6
  <2>13. /\ O[k] + q[k] <= 58 * Before(k) + carry[j] => O[k + 1] + q[k + 1] <= 58 * Before(k + 1) + carry[j - 1]
         /\ O[k] + q[k] = 58 * Before(k) + carry[j] => O[k + 1] + q[k + 1] = 58 * Before(k + 1) + carry[j - 1]
    <3> DEFINE o == O[k]
               p == q[k]
               B == Before(k)
               c == carry[j]
               d == carry[j - 1]
               e == out[k + 1]
               o1 == O[k + 1]
               p1 == q[k + 1]
               B1 == Before(k + 1)
    <3>1. o \in Nat /\ p \in Nat /\ B \in Nat /\ c \in Nat /\ d \in Nat /\ e \in Nat /\ b \in Nat
      BY <2>2, <2>4, <2>6, <2>9, <2>12
    <3>2. o1 = 256 * o + e /\ p1 = 256 * p /\ B1 = 256 * B + b /\ d + 58 * b = 256 * c + e
      BY <2>4, <2>5, <2>12
    <3> HIDE DEF o, p, B, c, d, e, o1, p1, B1
    <3>3. o1 + p1 = 256 * (o + p) + e
      BY <3>1, <3>2
    <3>4. 58 * B1 + d = 256 * (58 * B + c) + e
      BY <3>1, <3>2
    <3>5. /\ o + p <= 58 * B + c => o1 + p1 <= 58 * B1 + d
          /\ o + p = 58 * B + c => o1 + p1 = 58 * B1 + d
      BY <3>1, <3>3, <3>4
    <3> QED BY <3>5 DEF o, p, B, c, d, o1, p1, B1
  <2>10. O[k + 1] + q[k + 1] <= 58 * Before(k + 1) + carry[j - 1]
    BY <2>7, <2>13
  <2>11. q[0] = carry[n] => O[k + 1] + q[k + 1] = 58 * Before(k + 1) + carry[j - 1]
    BY <2>7, <2>13
  <2> QED BY <2>8, <2>10, <2>11
<1>9. n \in S
  <2>1. 0..n \subseteq S
    <3> HIDE DEF S
    <3> QED BY <1>1, <1>7, <1>8, UpTo
  <2> QED BY <1>1, <2>1
<1>10. Before(n) = N[count]
  BY <1>1, <1>6 DEF shift
<1> HIDE DEF Before
<1> QED BY <1>1, <1>2, <1>5, <1>6, <1>9, <1>10

\* A number of at most so many bytes, and what it leaves out.
Parts(room) == {p \in [bytes : Seq(Below(256)), over : Below(58)] : Len(p.bytes) <= room}

\* The first of its bytes is not 0.
Headed(bytes) == bytes = <<>> \/ bytes[1] # 0

\* There are multiples by the radix from any number on.
LEMMA ScaledExists ==
  ASSUME NEW n \in Nat, NEW radix \in Nat, NEW first \in Nat
  PROVE  \E q : Scaled(q, n, radix) /\ q[0] = first
<1> DEFINE step == [k \in 1..n |-> [x \in Nat |-> radix * x]]
           T == Nat
<1>1. step \in [1..n -> [T -> T]] /\ first \in T
  OBVIOUS
<1>2. PICK q : Iterates(q, n, T, first, step)
  <2>1. \E q : Iterates(q, n, T, first, step)
    <3> HIDE DEF step, T
    <3> QED BY <1>1, Iteration
  <2> QED BY <2>1
<1>3. q \in [0..n -> Nat] /\ q[0] = first /\ \A k \in 1..n : q[k] = step[k][q[k - 1]]
  BY <1>2 DEF Iterates
<1>4. \A k \in 1..n : q[k] = radix * q[k - 1]
  <2> TAKE k \in 1..n
  <2>1. k - 1 \in 0..n
    OBVIOUS
  <2>2. q[k - 1] \in Nat
    BY <1>3, <2>1
  <2>3. step[k][q[k - 1]] = radix * q[k - 1]
    BY <2>2
  <2> HIDE DEF step
  <2> QED BY <1>3, <2>3
<1>5. Scaled(q, n, radix)
  BY <1>3, <1>4 DEF Scaled
<1> QED BY <1>3, <1>5

\* NumberSoFar reads, alone.
LEMMA NumberReads ==
  ASSUME NEW s \in Seq(Nat), NEW radix \in Nat
  PROVE  ReadsAs(NumberSoFar(s, radix), s, radix)
BY NumberIs

\* The number of a sequence is a natural one.
LEMMA NumberIsNat ==
  ASSUME NEW s \in Seq(Nat), NEW radix \in Nat
  PROVE  Number(s, radix) \in Nat
BY NumberIs

\* A multiplication gives bytes that have room, and a carry.
LEMMA MultipliedTyped ==
  ASSUME NEW bytes \in Seq(Below(256)), NEW value \in Below(58), NEW room \in Nat, Len(bytes) <= room,
         NEW m, m = Multiplied(bytes, value, room)
  PROVE  m \in Parts(room) /\ \E n, carry : MultiplyOf(m, n, carry, bytes, value, room)
<1>1. PICK n, carry : MultiplyOf(m, n, carry, bytes, value, room)
  BY MultipliedShape
<1>2. /\ n \in Nat /\ n <= room /\ Carrying(carry, bytes, value, room)
      /\ ProductOf(m.bytes, n, carry, bytes) /\ m.over = carry[n]
      /\ m = [bytes |-> m.bytes, over |-> m.over]
  BY <1>1 DEF MultiplyOf
<1>7. carry \in [0..room -> Below(58)]
  BY <1>2 DEF Carrying
<1>8. m.bytes \in Seq(Below(256)) /\ Len(m.bytes) = n
  <2> HIDE DEF Carrying
  <2> QED BY <1>2, <1>7, MultipliedBytes
<1>9. m.over \in Below(58)
  BY <1>2, <1>7
<1>10. m \in Parts(room)
  <2> DEFINE b == m.bytes
             o == m.over
  <2>1. m = [bytes |-> b, over |-> o] /\ b \in Seq(Below(256)) /\ o \in Below(58) /\ Len(b) <= room
    BY <1>2, <1>8, <1>9
  <2> HIDE DEF b, o
  <2> QED BY <2>1 DEF Parts
<1> QED BY <1>1, <1>10

\* The product of a number that starts with no zero starts with none, and
\* without an overflow it is 58 times the number and the value.
LEMMA MultipliedIs ==
  ASSUME NEW bytes \in Seq(Below(256)), NEW value \in Below(58), NEW room \in Nat, Len(bytes) <= room,
         NEW m, m = Multiplied(bytes, value, room), Headed(bytes), m.over = 0
  PROVE  Headed(m.bytes) /\ Number(m.bytes, 256) = 58 * Number(bytes, 256) + value
<1>1. PICK n, carry : MultiplyOf(m, n, carry, bytes, value, room)
  BY MultipliedTyped
<1>2. /\ n \in Len(bytes) .. room /\ Carrying(carry, bytes, value, room)
      /\ \A j \in Len(bytes) .. n-1 : carry[j] # 0
      /\ ProductOf(m.bytes, n, carry, bytes) /\ carry[n] = 0
  BY <1>1 DEF MultiplyOf
<1>3. carry \in [0..room -> Below(58)]
  BY <1>2 DEF Carrying
<1>4. /\ m.bytes \in Seq(Below(256)) /\ Len(m.bytes) = n
      /\ \A k \in 1..n : m.bytes[k] = (carry[n - k] + Added(bytes, n - k + 1)) % 256
  <2>1. m.bytes \in Seq(Below(256)) /\ Len(m.bytes) = n
    BY <1>2, <1>3, MultipliedBytes
  <2> QED BY <1>2, <2>1 DEF ProductOf
<1>5. Headed(m.bytes)
  <2>1. CASE n = 0
    BY <1>4, <2>1 DEF Headed
  <2>2. CASE n # 0
    <3> DEFINE c == carry[n - 1]
               a == Added(bytes, n)
    <3>1. n \in Nat \ {0} /\ n - 1 \in 0..room /\ 1 \in 1..n /\ n - 1 + 1 = n
      BY <1>2, <2>2
    <3>2. c \in Below(58) /\ a \in Below(14791)
      BY <1>3, <3>1, AddedFits
    <3>3. m.bytes[1] = (c + a) % 256
      BY <1>4, <3>1
    <3>4. (c + a) \div 256 = 0
      BY <1>2, <3>1 DEF Carrying
    <3>5. c + a # 0
      <4>1. CASE n > Len(bytes)
        BY <1>2, <3>1, <3>2, <4>1 DEF Below
      <4>2. CASE n = Len(bytes)
        <5>1. bytes[1] # 0 /\ a = 58 * bytes[1]
          BY <2>2, <4>2 DEF Headed, Added
        <5>2. bytes[1] \in Below(256)
          BY <3>1, <4>2, ElementOfSeq
        <5> HIDE DEF a
        <5> QED BY <3>2, <5>1, <5>2 DEF Below
      <4> QED BY <1>2, <4>1, <4>2
    <3> HIDE DEF c, a
    <3>6. c + a \in Nat
      BY <3>2 DEF Below
    <3>7. c + a = 256 * ((c + a) \div 256) + ((c + a) % 256)
      BY <3>6, ByteRest
    <3>8. m.bytes[1] # 0
      BY <3>3, <3>4, <3>5, <3>7
    <3> QED BY <3>8 DEF Headed
  <2> QED BY <2>1, <2>2
<1>6. Number(m.bytes, 256) = 58 * Number(bytes, 256) + value
  <2> DEFINE q == [k \in 0..n |-> 0]
             out == m.bytes
  <2>1. Scaled(q, n, 256) /\ q[0] = 0 /\ q[n] = 0
    BY <1>2 DEF Scaled
  <2>2. out \in Seq(Nat) /\ bytes \in Seq(Nat)
    BY <1>4 DEF Below
  <2>4. ProductOf(out, n, carry, bytes)
    BY <1>2
  <2> HIDE DEF q, out
  <2>3. Number(out, 256) \in Nat /\ Number(bytes, 256) \in Nat
    BY <2>2, NumberIsNat
  <2>5. q[0] <= carry[n] /\ q[0] = carry[n]
    BY <1>2, <2>1
  <2>6. Number(out, 256) + q[n] = 58 * Number(bytes, 256) + value
    BY <1>2, <2>1, <2>4, <2>5, MultipliedValue
  <2>7. Number(out, 256) = 58 * Number(bytes, 256) + value
    BY <2>1, <2>3, <2>6
  <2> QED BY <2>7 DEF out
<1> QED BY <1>5, <1>6

\* An overflow is at least what one more byte would be worth.
LEMMA OverflowIsLarge ==
  ASSUME NEW bytes \in Seq(Below(256)), NEW value \in Below(58), NEW room \in Nat, Len(bytes) <= room,
         NEW m, m = Multiplied(bytes, value, room), m.over # 0,
         NEW q, Scaled(q, room, 256), q[0] = 1
  PROVE  q[room] <= 58 * Number(bytes, 256) + value
<1>1. PICK n, carry : MultiplyOf(m, n, carry, bytes, value, room)
  BY MultipliedTyped
<1>2. /\ n = room /\ n \in Len(bytes) .. room /\ Carrying(carry, bytes, value, room)
      /\ ProductOf(m.bytes, n, carry, bytes) /\ carry[n] # 0
  BY <1>1 DEF MultiplyOf
<1>3. carry \in [0..room -> Below(58)]
  BY <1>2 DEF Carrying
<1> DEFINE out == m.bytes
<1>4. out \in Seq(Below(256))
  BY <1>2, <1>3, MultipliedBytes
<1>5. out \in Seq(Nat) /\ bytes \in Seq(Nat)
  BY <1>4 DEF Below
<1>6. Number(out, 256) \in Nat /\ Number(bytes, 256) \in Nat
  <2>1. 256 \in Nat
    OBVIOUS
  <2> HIDE DEF out
  <2> QED BY <1>5, <2>1, NumberIsNat, Zenon
<1>7. ProductOf(out, n, carry, bytes)
  BY <1>2
<1>8. q[0] <= carry[n] /\ q[n] \in Nat /\ value \in Nat
  BY <1>2, <1>3 DEF Below, Scaled
<1> HIDE DEF out
<1>9. Scaled(q, n, 256)
  BY <1>2
<1>10. Number(out, 256) + q[n] <= 58 * Number(bytes, 256) + value
  BY <1>2, <1>7, <1>8, <1>9, MultipliedValue
<1>11. q[n] <= 58 * Number(bytes, 256) + value
  BY <1>6, <1>8, <1>10
<1> QED BY <1>2, <1>11

-----------------------------------------------------------------------------
(* Reading the digits of a text.                                           *)

\* A number with one more digit; an overflow stays.
OneMore(n, digit, room) == IF n.over # 0 THEN n ELSE Multiplied(n.bytes, digit, room)

Folding(N, digits, room) ==
  /\ N \in [0..Len(digits) -> Parts(room)]
  /\ N[0] = [bytes |-> <<>>, over |-> 0]
  /\ \A k \in 1..Len(digits) : N[k] = OneMore(N[k - 1], digits[k], room)

\* One digit more gives a number that has room.
LEMMA OneMoreFits ==
  ASSUME NEW room \in Nat, NEW n \in Parts(room), NEW digit \in Below(58)
  PROVE  OneMore(n, digit, room) \in Parts(room)
<1>1. CASE n.over # 0
  BY <1>1 DEF OneMore
<1>2. CASE ~(n.over # 0)
  <2>1. OneMore(n, digit, room) = Multiplied(n.bytes, digit, room)
    BY <1>2 DEF OneMore
  <2>2. n.bytes \in Seq(Below(256)) /\ Len(n.bytes) <= room
    BY DEF Parts
  <2> DEFINE b == n.bytes
             m == Multiplied(b, digit, room)
  <2>3. b \in Seq(Below(256)) /\ Len(b) <= room /\ m = Multiplied(b, digit, room)
    BY <2>2
  <2> HIDE DEF b, m
  <2>4. m \in Parts(room)
    BY <2>3, MultipliedTyped
  <2> QED BY <2>1, <2>4 DEF m, b
<1> QED BY <1>1, <1>2

\* The recursion over the digits.
FoldOf(R, digits, room) ==
  R = [k \in 0..Len(digits) |-> IF k = 0 THEN [bytes |-> <<>>, over |-> 0]
                                ELSE OneMore(R[k - 1], digits[k], room)]

\* Whatever folds the digits is a number at every digit.
LEMMA FoldIs ==
  ASSUME NEW digits \in Seq(Below(58)), NEW room \in Nat, NEW R, FoldOf(R, digits, room)
  PROVE  Folding(R, digits, room)
<1> DEFINE n == Len(digits)
           none == [bytes |-> <<>>, over |-> 0]
           S == {k \in 0..n : R[k] \in Parts(room)}
<1>1. n \in Nat /\ R[0] = none /\ DOMAIN R = 0..n
  BY DEF FoldOf
<1>2. \A k \in 1..n : R[k] = OneMore(R[k - 1], digits[k], room)
  BY DEF FoldOf
<1>3. 0 \in S
  <2>1. none \in Parts(room)
    BY DEF Parts, Below
  <2> HIDE DEF none
  <2> QED BY <1>1, <2>1
<1>4. ASSUME NEW k \in 0..n-1, k \in S PROVE k + 1 \in S
  <2> DEFINE x == R[k]
             y == digits[k + 1]
  <2>1. k + 1 \in 1..n /\ (k + 1) - 1 = k /\ k + 1 \in 0..n
    BY <1>1
  <2>2. y \in Below(58)
    BY <2>1, ElementOfSeq
  <2>3. x \in Parts(room) /\ R[k + 1] = OneMore(x, y, room)
    BY <1>2, <1>4, <2>1
  <2> HIDE DEF x, y
  <2>4. R[k + 1] \in Parts(room)
    BY <2>2, <2>3, OneMoreFits
  <2> QED BY <2>1, <2>4
<1>5. 0..n \subseteq S
  <2> HIDE DEF S, n
  <2> QED BY <1>1, <1>3, <1>4, UpTo
<1>6. R \in [0..n -> Parts(room)]
  BY <1>5 DEF FoldOf
<1> QED BY <1>1, <1>2, <1>6 DEF Folding

\* There is a number after every digit.
LEMMA FoldExists ==
  ASSUME NEW digits \in Seq(Below(58)), NEW room \in Nat
  PROVE  \E R : FoldOf(R, digits, room)
<1> DEFINE n == Len(digits)
           none == [bytes |-> <<>>, over |-> 0]
           T == Parts(room)
           step == [k \in 1..n |-> [x \in T |-> OneMore(x, digits[k], room)]]
<1>1. n \in Nat /\ none \in T
  BY DEF Parts, Below
<1>2. step \in [1..n -> [T -> T]]
  <2>1. \A k \in 1..n : digits[k] \in Below(58)
    BY ElementOfSeq
  <2>2. \A k \in 1..n : \A x \in T : OneMore(x, digits[k], room) \in T
    <3> HIDE DEF n
    <3> QED BY <2>1, OneMoreFits
  <2> HIDE DEF T
  <2> QED BY <2>2
<1>3. PICK f : Iterates(f, n, T, none, step)
  <2>1. \E f : Iterates(f, n, T, none, step)
    <3> HIDE DEF n, T, none, step
    <3> QED BY <1>1, <1>2, Iteration
  <2> QED BY <2>1
<1>4. /\ f \in [0..n -> T] /\ f[0] = none
      /\ \A k \in 1..n : f[k] = OneMore(f[k - 1], digits[k], room)
  <2>1. \A k \in 1..n : \A x \in T : step[k][x] = OneMore(x, digits[k], room)
    OBVIOUS
  <2>2. f \in [0..n -> T] /\ f[0] = none /\ \A k \in 1..n : f[k] = step[k][f[k - 1]]
    BY <1>3 DEF Iterates
  <2>3. \A k \in 1..n : k - 1 \in 0..n
    BY <1>1
  <2> HIDE DEF step, n, T, none
  <2> QED BY <2>1, <2>2, <2>3
<1> DEFINE e(k) == IF k = 0 THEN none ELSE OneMore(f[k - 1], digits[k], room)
<1>5. f = [k \in 0..n |-> e(k)]
  <2>1. \A k \in 0..n : f[k] = e(k)
    BY <1>1, <1>4
  <2> HIDE DEF e, step, n, T, none
  <2> QED BY <1>4, <2>1
<1>6. FoldOf(f, digits, room)
  <2> HIDE DEF step, T
  <2> QED BY <1>5 DEF FoldOf
<1> QED BY <1>6

\* So Numbers is.
LEMMA NumbersAre ==
  ASSUME NEW digits \in Seq(Below(58)), NEW room \in Nat
  PROVE  Folding(Numbers(digits, room), digits, room)
<1> DEFINE R == Numbers(digits, room)
<1>1. PICK f : FoldOf(f, digits, room)
  BY FoldExists
<1>2. f = [k \in 0..Len(digits) |-> IF k = 0 THEN [bytes |-> <<>>, over |-> 0]
                                    ELSE IF f[k - 1].over # 0 THEN f[k - 1]
                                    ELSE Multiplied(f[k - 1].bytes, digits[k], room)]
  BY <1>1, Zenon DEF FoldOf, OneMore
<1>3. R = [k \in 0..Len(digits) |-> IF k = 0 THEN [bytes |-> <<>>, over |-> 0]
                                    ELSE IF R[k - 1].over # 0 THEN R[k - 1]
                                    ELSE Multiplied(R[k - 1].bytes, digits[k], room)]
  BY <1>2, Zenon DEF Numbers
<1> HIDE DEF R
<1>4. FoldOf(R, digits, room)
  BY <1>3, Zenon DEF FoldOf, OneMore
<1>5. Folding(R, digits, room)
  BY <1>4, FoldIs
<1> QED BY <1>5 DEF R

\* No digits stand for zero.
LEMMA NothingIsZero ==
  ASSUME NEW radix \in Nat
  PROVE  Number(<<>>, radix) = 0
<1>1. <<>> \in Seq(Nat) /\ Len(<<>>) = 0
  OBVIOUS
<1>2. ASSUME NEW e \in Seq(Nat), Len(e) = 0 PROVE Number(e, radix) = 0
  <2>1. ReadsAs(NumberSoFar(e, radix), e, radix) /\ Number(e, radix) = NumberSoFar(e, radix)[Len(e)]
    BY NumberIs
  <2> QED BY <1>2, <2>1 DEF ReadsAs
<1> QED BY <1>1, <1>2

\* As long as nothing overflows, the bytes are the number that the digits so
\* far stand for, and the first of them is not 0.
LEMMA BytesSoFar ==
  ASSUME NEW digits \in Seq(Below(58)), NEW room \in Nat,
         NEW N, Folding(N, digits, room), NEW V, ReadsAs(V, digits, 58)
  PROVE  \A k \in 0..Len(digits) :
           N[k].over = 0 => Headed(N[k].bytes) /\ Number(N[k].bytes, 256) = V[k]
<1> DEFINE n == Len(digits)
           S == {k \in 0..n : N[k].over = 0 => Headed(N[k].bytes) /\ Number(N[k].bytes, 256) = V[k]}
<1>1. /\ n \in Nat /\ N[0] = [bytes |-> <<>>, over |-> 0]
      /\ \A k \in 1..n : N[k] = OneMore(N[k - 1], digits[k], room)
  BY DEF Folding
<1>2. 0 \in S
  <2>1. Number(<<>>, 256) = 0
    BY NothingIsZero
  <2>2. N[0].bytes = <<>>
    BY <1>1
  <2> QED BY <1>1, <2>1, <2>2 DEF Headed, ReadsAs
<1>3. ASSUME NEW k \in 0..n-1, k \in S PROVE k + 1 \in S
  <2> DEFINE x == N[k]
             y == digits[k + 1]
             b == x.bytes
             m == N[k + 1]
  <2>1. k + 1 \in 1..n /\ (k + 1) - 1 = k /\ k + 1 \in 0..n /\ k \in 0..n
    BY <1>1
  <2>2. y \in Below(58)
    BY <2>1, ElementOfSeq
  <2>3. m = OneMore(x, y, room)
    BY <1>1, <2>1
  <2>4. b \in Seq(Below(256)) /\ Len(b) <= room
    BY <2>1 DEF Folding, Parts
  <2>5. x.over = 0 => Headed(b) /\ Number(b, 256) = V[k]
    BY <1>3
  <2>6. V[k + 1] = 58 * V[k] + y
    BY <2>1 DEF ReadsAs
  <2>7. ASSUME m.over = 0 PROVE Headed(m.bytes) /\ Number(m.bytes, 256) = V[k + 1]
    <3>1. x.over = 0 /\ m = Multiplied(b, y, room)
      BY <2>3, <2>7 DEF OneMore
    <3> HIDE DEF x, y, b, m
    <3>2. Headed(b) /\ Number(b, 256) = V[k]
      BY <2>5, <3>1
    <3>3. Headed(m.bytes) /\ Number(m.bytes, 256) = 58 * Number(b, 256) + y
      BY <2>2, <2>4, <2>7, <3>1, <3>2, MultipliedIs
    <3> QED BY <2>6, <3>2, <3>3
  <2> QED BY <2>1, <2>7
<1>4. 0..n \subseteq S
  <2> HIDE DEF S, n
  <2> QED BY <1>1, <1>2, <1>3, UpTo
<1> QED BY <1>4

-----------------------------------------------------------------------------
(* Leading zeroes.                                                         *)

\* The zeroes that a sequence starts with.
ZeroesOf(s, n) ==
  /\ n \in 0..Len(s)
  /\ \A k \in 1..n : s[k] = 0
  /\ n < Len(s) => s[n + 1] # 0

\* LeadingZeroes counts the zeroes that a sequence starts with.
LEMMA LeadingIs ==
  ASSUME NEW s \in Seq(Nat)
  PROVE  ZeroesOf(s, LeadingZeroes(s))
<1> DEFINE n == Len(s)
           P(z) == /\ \A k \in 1..z : s[k] = 0
                   /\ z < n => s[z + 1] # 0
           T == {z \in 0..n : z < n => s[z + 1] # 0}
<1>1. n \in Nat
  OBVIOUS
<1>2. \E z \in 0..n : P(z)
  <2>1. T \subseteq Nat /\ n \in T
    BY <1>1
  <2>2. PICK z \in T : \A y \in T : z <= y
    <3> HIDE DEF T
    <3> QED BY <2>1, LeastNumber
  <2>3. ASSUME NEW k \in 1..z PROVE s[k] = 0
    <3>1. z \in 0..n
      OBVIOUS
    <3>2. k - 1 \in 0..n /\ k - 1 < n /\ (k - 1) + 1 = k /\ ~(z <= k - 1)
      BY <1>1, <3>1
    <3>3. k - 1 \notin T
      <4> HIDE DEF T
      <4> QED BY <2>2, <3>2
    <3> QED BY <3>2, <3>3
  <2> QED BY <2>2, <2>3
<1>3. LeadingZeroes(s) = CHOOSE z \in 0..n : P(z)
  BY DEF LeadingZeroes
<1>4. LeadingZeroes(s) \in 0..n /\ P(LeadingZeroes(s))
  <2> HIDE DEF P, n
  <2> QED BY <1>2, <1>3
<1> QED BY <1>4 DEF ZeroesOf

\* No other count of them is right.
LEMMA LeadingOnly ==
  ASSUME NEW s \in Seq(Nat), NEW n, ZeroesOf(s, n)
  PROVE  LeadingZeroes(s) = n
<1> DEFINE m == LeadingZeroes(s)
<1>1. ZeroesOf(s, m)
  BY LeadingIs
<1> HIDE DEF m
<1>2. m \in Nat /\ n \in Nat /\ Len(s) \in Nat
  BY <1>1 DEF ZeroesOf
<1>3. ~(m < n)
  BY <1>1, <1>2 DEF ZeroesOf
<1>4. ~(n < m)
  BY <1>1, <1>2 DEF ZeroesOf
<1>5. m = n
  BY <1>2, <1>3, <1>4
<1> QED BY <1>5 DEF m

\* A number is 0 up to there, and not after.
LEMMA ZeroSoFar ==
  ASSUME NEW s \in Seq(Nat), NEW radix \in Nat, NEW F, ReadsAs(F, s, radix),
         NEW z \in 0..Len(s), \A k \in 1..z : s[k] = 0
  PROVE  \A k \in 0..z : F[k] = 0
<1> DEFINE S == {k \in 0..z : F[k] = 0}
<1>1. z \in Nat /\ 0 \in S
  BY DEF ReadsAs
<1>2. ASSUME NEW k \in 0..z-1, k \in S PROVE k + 1 \in S
  <2>1. F[k + 1] = radix * F[k] + s[k + 1]
    BY DEF ReadsAs
  <2>2. F[k] = 0 /\ s[k + 1] = 0
    BY <1>2
  <2>3. radix * 0 + 0 = 0
    OBVIOUS
  <2> QED BY <2>1, <2>2, <2>3
<1>3. 0..z \subseteq S
  <2> HIDE DEF S
  <2> QED BY <1>1, <1>2, UpTo
<1> QED BY <1>3

\* Bounded numbers are numbers.
LEMMA ByteSeqs ==
  ASSUME NEW n \in Nat, NEW s \in Seq(Below(n))
  PROVE  s \in Seq(Nat)
<1>1. Below(n) \subseteq Nat
  BY DEF Below
<1> QED BY <1>1

\* Zeroes in front change the zeroes it starts with, and not the number.
LEMMA Padded ==
  ASSUME NEW bytes \in Seq(Below(256)), NEW zeroes \in Nat, Headed(bytes),
         NEW P, P = WithLeading(bytes, zeroes)
  PROVE  /\ P \in Seq(Below(256)) /\ ZeroesOf(P, zeroes)
         /\ Number(P, 256) = Number(bytes, 256)
<1> DEFINE n == Len(bytes)
           Z == [k \in 1..zeroes |-> 0]
<1>1. n \in Nat /\ Z \in Seq(Below(256)) /\ Len(Z) = zeroes
  BY DEF Below
<1>2. P = Z \o bytes
  BY DEF WithLeading
<1>3. \A k \in 1..zeroes : Z[k] = 0
  OBVIOUS
<1> HIDE DEF Z
<1>4. P \in Seq(Below(256)) /\ Len(P) = zeroes + n
  BY <1>1, <1>2
<1>5. \A k \in 1..zeroes : P[k] = 0
  BY <1>1, <1>2, <1>3
<1>6. \A k \in 1..n : P[zeroes + k] = bytes[k]
  BY <1>1, <1>2
<1>7. ZeroesOf(P, zeroes)
  <2>1. zeroes < Len(P) => P[zeroes + 1] # 0
    <3> SUFFICES ASSUME zeroes < Len(P) PROVE P[zeroes + 1] # 0
      OBVIOUS
    <3>1. n >= 1
      BY <1>1, <1>4
    <3>2. bytes[1] # 0
      BY <3>1 DEF Headed
    <3> QED BY <1>1, <1>6, <3>1, <3>2
  <2> QED BY <1>1, <1>4, <1>5, <2>1 DEF ZeroesOf
<1> DEFINE F == NumberSoFar(P, 256)
           G == NumberSoFar(bytes, 256)
<1>8. P \in Seq(Nat) /\ bytes \in Seq(Nat)
  BY <1>4, ByteSeqs
<1>9. ReadsAs(F, P, 256) /\ Number(P, 256) = F[Len(P)]
  <2>1. ReadsAs(F, P, 256)
    BY <1>8, NumberReads
  <2> QED BY <2>1 DEF Number
<1>10. ReadsAs(G, bytes, 256) /\ Number(bytes, 256) = G[n]
  <2>1. ReadsAs(G, bytes, 256)
    BY <1>8, NumberReads
  <2> QED BY <2>1 DEF Number
<1> HIDE DEF F, G
<1>11. F[zeroes] = 0
  <2>1. zeroes \in 0..Len(P)
    BY <1>1, <1>4
  <2>2. /\ P \in Seq(Nat) /\ 256 \in Nat /\ ReadsAs(F, P, 256)
        /\ \A k \in 1..zeroes : P[k] = 0
    BY <1>5, <1>8, <1>9
  <2>3. zeroes \in 0..zeroes
    BY <1>1
  <2>4. \A k \in 0..zeroes : F[k] = 0
    BY <2>1, <2>2, ZeroSoFar, Zenon
  <2> QED BY <2>3, <2>4
<1> DEFINE S == {k \in 0..n : F[zeroes + k] = G[k]}
<1>12. 0 \in S
  BY <1>1, <1>10, <1>11 DEF ReadsAs
<1>13. ASSUME NEW k \in 0..n-1, k \in S PROVE k + 1 \in S
  <2>1. k + 1 \in 1..n /\ (k + 1) - 1 = k /\ zeroes + (k + 1) \in 1..Len(P)
        /\ (zeroes + (k + 1)) - 1 = zeroes + k
    BY <1>1, <1>4
  <2> DEFINE j == zeroes + (k + 1)
  <2>2. F[j] = 256 * F[j - 1] + P[j]
    <3> HIDE DEF j
    <3> QED BY <1>9, <2>1 DEF ReadsAs, j
  <2>3. G[k + 1] = 256 * G[k] + bytes[k + 1]
    BY <1>10, <2>1 DEF ReadsAs
  <2>4. P[j] = bytes[k + 1] /\ F[j - 1] = G[k]
    BY <1>6, <1>13, <2>1
  <2>5. F[j] = G[k + 1]
    BY <2>2, <2>3, <2>4
  <2> QED BY <2>1, <2>5
<1>14. 0..n \subseteq S
  <2> HIDE DEF S, n
  <2> QED BY <1>1, <1>12, <1>13, UpTo
<1>15. F[zeroes + n] = G[n]
  BY <1>1, <1>14
<1> QED BY <1>4, <1>7, <1>9, <1>10, <1>15

-----------------------------------------------------------------------------
(* What is decoded is what the text spells.                                *)

\* The bytes set aside are some number.
LEMMA RoomIsNat ==
  ASSUME NEW k \in Nat
  PROVE  Room(k) \in Nat
<1> DEFINE a == k * 733
           b == a \div 1000
<1>1. a \in Nat
  OBVIOUS
<1> HIDE DEF a
<1>2. b \in Nat
  BY <1>1
<1> HIDE DEF b
<1>3. b + 1 \in Nat
  BY <1>2
<1> QED BY <1>3 DEF Room, a, b

\* The number that the digits are read into, and its bytes with the zeroes.
NumberOf(digits) == Numbers(digits, Room(Len(digits) - LeadingZeroes(digits)))[Len(digits)]
BytesOf(digits) == WithLeading(NumberOf(digits).bytes, LeadingZeroes(digits))

\* Without an overflow the bytes spell what the digits do.
LEMMA BytesSpell ==
  ASSUME NEW digits \in Seq(Below(58)), NumberOf(digits).over = 0
  PROVE  /\ BytesOf(digits) \in Seq(Below(256))
         /\ LeadingZeroes(BytesOf(digits)) = LeadingZeroes(digits)
         /\ Number(BytesOf(digits), 256) = Number(digits, 58)
<1> DEFINE n == Len(digits)
           z == LeadingZeroes(digits)
           room == Room(n - z)
           N == Numbers(digits, room)
           V == NumberSoFar(digits, 58)
           b == N[n].bytes
           D == BytesOf(digits)
<1>1. digits \in Seq(Nat) /\ n \in Nat
  BY ByteSeqs
<1>2. z \in 0..n
  BY <1>1, LeadingIs DEF ZeroesOf
<1>3. room \in Nat
  <2>1. n - z \in Nat
    BY <1>1, <1>2
  <2> HIDE DEF n, z
  <2> QED BY <2>1, RoomIsNat
<1>4. D = WithLeading(b, z) /\ N[n].over = 0
  BY DEF BytesOf, NumberOf
<1> HIDE DEF z, room, D
<1>5. Folding(N, digits, room)
  BY <1>3, NumbersAre
<1>6. ReadsAs(V, digits, 58) /\ Number(digits, 58) = V[n]
  <2>1. ReadsAs(V, digits, 58)
    BY <1>1, NumberReads
  <2> QED BY <2>1 DEF Number
<1> HIDE DEF N, V
<1>7. Headed(b) /\ Number(b, 256) = V[n]
  <2>1. n \in 0..Len(digits)
    BY <1>1
  <2> QED BY <1>3, <1>4, <1>5, <1>6, <2>1, BytesSoFar
<1>8. b \in Seq(Below(256))
  <2>1. N[n] \in Parts(room)
    BY <1>1, <1>5 DEF Folding
  <2> QED BY <2>1 DEF Parts
<1> HIDE DEF b
<1>9. D \in Seq(Below(256)) /\ ZeroesOf(D, z) /\ Number(D, 256) = Number(b, 256)
  <2>1. z \in Nat
    BY <1>1, <1>2
  <2> QED BY <1>4, <1>7, <1>8, <2>1, Padded
<1>10. LeadingZeroes(D) = z
  <2>1. D \in Seq(Nat)
    BY <1>9, ByteSeqs
  <2> QED BY <1>9, <2>1, LeadingOnly
<1> QED BY <1>6, <1>7, <1>9, <1>10 DEF z, D

\* The decoder's answer, by the bytes and their checksum.
LEMMA DecodeIs ==
  ASSUME NEW digits, digits # <<>>, \A k \in DOMAIN digits : digits[k] # Bad
  PROVE  LET bytes == BytesOf(digits)
             size == Len(bytes) - CheckSize
         IN  decode_base58check(digits)
               = IF NumberOf(digits).over # 0 \/ size < 1 THEN <<>>
                 ELSE IF SubSeq(bytes, size + 1, Len(bytes)) # Checksum(SubSeq(bytes, 1, size))
                      THEN <<>>
                 ELSE SubSeq(bytes, 1, size)
BY Zenon DEF decode_base58check, BytesOf, NumberOf

\* What the decoder takes is what the text spells, with its checksum.
LEMMA DecodedSpells ==
  ASSUME CheckSize \in Nat, Bad \notin Below(58),
         NEW digits \in Seq(Below(58) \cup {Bad}),
         NEW P, P = decode_base58check(digits), P # <<>>
  PROVE  P \in Seq(Below(256)) /\ Spells(digits, P \o Checksum(P))
<1>1. digits # <<>> /\ \A k \in DOMAIN digits : digits[k] # Bad
  BY Zenon DEF decode_base58check
<1>2. digits \in Seq(Below(58))
  <2>1. \A k \in 1..Len(digits) : digits[k] \in Below(58)
    <3> TAKE k \in 1..Len(digits)
    <3>1. k \in DOMAIN digits
      OBVIOUS
    <3>2. digits[k] \in Below(58) \cup {Bad}
      BY ElementOfSeq
    <3> QED BY <1>1, <3>1, <3>2
  <2> QED BY <2>1
<1> DEFINE D == BytesOf(digits)
           size == Len(D) - CheckSize
<1>3. /\ NumberOf(digits).over = 0 /\ ~(size < 1)
      /\ SubSeq(D, size + 1, Len(D)) = Checksum(SubSeq(D, 1, size))
      /\ P = SubSeq(D, 1, size)
  <2> DEFINE over == NumberOf(digits).over
             check == SubSeq(D, size + 1, Len(D))
             payload == SubSeq(D, 1, size)
  <2>1. P = IF over # 0 \/ size < 1 THEN <<>> ELSE IF check # Checksum(payload) THEN <<>> ELSE payload
    BY <1>1, DecodeIs
  <2> HIDE DEF over, check, payload, size
  <2> QED BY <2>1 DEF over, check, payload, size
<1>4. /\ D \in Seq(Below(256)) /\ LeadingZeroes(D) = LeadingZeroes(digits)
      /\ Number(D, 256) = Number(digits, 58)
  BY <1>2, <1>3, BytesSpell
<1> HIDE DEF D
<1>5. Len(D) \in Nat /\ size \in 1..Len(D)
  BY <1>3, <1>4
<1> HIDE DEF size
<1>6. P \in Seq(Below(256)) /\ P \o Checksum(P) = D
  BY <1>3, <1>4, <1>5
<1>7. Spells(digits, D)
  BY <1>1, <1>4 DEF Spells, Radix, Byte
<1> QED BY <1>6, <1>7

-----------------------------------------------------------------------------
(* Groups of five bits into bytes.                                         *)

\* A number with one digit more.
LEMMA NumberAppended ==
  ASSUME NEW s \in Seq(Nat), NEW digit \in Nat, NEW radix \in Nat
  PROVE  Number(Append(s, digit), radix) = radix * Number(s, radix) + digit
<1> DEFINE n == Len(s)
           t == Append(s, digit)
           F == NumberSoFar(t, radix)
           G == NumberSoFar(s, radix)
<1>1. n \in Nat /\ t \in Seq(Nat) /\ Len(t) = n + 1 /\ t[n + 1] = digit /\ \A k \in 1..n : t[k] = s[k]
  OBVIOUS
<1> HIDE DEF t
<1>2. ReadsAs(F, t, radix)
  BY <1>1, NumberReads
<1>3. ReadsAs(G, s, radix)
  BY NumberReads
<1>4. Number(t, radix) = F[n + 1] /\ Number(s, radix) = G[n]
  BY <1>1 DEF Number
<1> HIDE DEF F, G
<1> DEFINE S == {k \in 0..n : F[k] = G[k]}
<1>5. 0 \in S
  BY <1>1, <1>2, <1>3 DEF ReadsAs
<1>6. ASSUME NEW k \in 0..n-1, k \in S PROVE k + 1 \in S
  <2>1. k + 1 \in 1..n /\ (k + 1) - 1 = k /\ k + 1 \in 0..n /\ k + 1 \in 1..Len(t)
    BY <1>1
  <2> DEFINE j == k + 1
  <2>2. F[j] = radix * F[j - 1] + t[j]
    <3> HIDE DEF j
    <3> QED BY <1>2, <2>1 DEF ReadsAs, j
  <2>3. G[j] = radix * G[j - 1] + s[j]
    <3> HIDE DEF j
    <3> QED BY <1>3, <2>1 DEF ReadsAs, j
  <2>4. F[j - 1] = G[j - 1] /\ t[j] = s[j]
    BY <1>1, <1>6, <2>1
  <2>5. F[j] = G[j]
    <3> HIDE DEF j
    <3> QED BY <2>2, <2>3, <2>4
  <2> QED BY <2>1, <2>5
<1>7. 0..n \subseteq S
  <2> HIDE DEF S, n
  <2> QED BY <1>1, <1>5, <1>6, UpTo
<1>8. F[n] = G[n]
  BY <1>1, <1>7
<1>9. F[n + 1] = radix * F[n] + t[n + 1]
  <2>1. n + 1 \in 1..Len(t) /\ (n + 1) - 1 = n
    BY <1>1
  <2> DEFINE j == n + 1
  <2>2. F[j] = radix * F[j - 1] + t[j]
    <3> HIDE DEF j, n
    <3> QED BY <1>2, <2>1 DEF ReadsAs, j
  <2> QED BY <2>1, <2>2
<1>10. Number(t, radix) = radix * Number(s, radix) + digit
  <2> HIDE DEF n
  <2> QED BY <1>1, <1>4, <1>8, <1>9
<1> QED BY <1>10 DEF t

\* What a conversion holds: its bytes, and the bits that wait.
Conversions == [acc : Below(4096), bits : Below(8), out : Seq(Below(256))]

Held(s) == Number(s.out, 256) * 2 ^ s.bits + (s.acc % 2 ^ s.bits)

\* Taking the bits of a value: each case is a number of bits that wait.
TookBits(s, value, t) ==
  /\ t \in Conversions
  /\ 8 * Len(t.out) + t.bits = 8 * Len(s.out) + s.bits + 5
  /\ Held(t) = 32 * Held(s) + value

\* Five bits after the low bits of those that wait, for each number of them:
\* they wait too, or a byte leaves from the top.
LEMMA LowBits ==
  ASSUME NEW a \in Nat, NEW v \in Nat, v < 32, NEW x \in Nat, NEW w, w = (a * 32 + v) % 4096
  PROVE  /\ w \in Nat /\ w < 4096
         /\ x * 32 + (w % 32) = 32 * (x * 1 + (a % 1)) + v
         /\ x * 64 + (w % 64) = 32 * (x * 2 + (a % 2)) + v
         /\ x * 128 + (w % 128) = 32 * (x * 4 + (a % 4)) + v
         /\ (256 * x + ((w \div 1) % 256)) * 1 + (w % 1) = 32 * (x * 8 + (a % 8)) + v
         /\ (256 * x + ((w \div 2) % 256)) * 2 + (w % 2) = 32 * (x * 16 + (a % 16)) + v
         /\ (256 * x + ((w \div 4) % 256)) * 4 + (w % 4) = 32 * (x * 32 + (a % 32)) + v
         /\ (256 * x + ((w \div 8) % 256)) * 8 + (w % 8) = 32 * (x * 64 + (a % 64)) + v
         /\ (256 * x + ((w \div 16) % 256)) * 16 + (w % 16) = 32 * (x * 128 + (a % 128)) + v
<1>1. w \in Nat /\ w < 4096
  OBVIOUS
<1>2. x * 32 + (w % 32) = 32 * (x * 1 + (a % 1)) + v
  OBVIOUS
<1>3. x * 64 + (w % 64) = 32 * (x * 2 + (a % 2)) + v
  OBVIOUS
<1>4. x * 128 + (w % 128) = 32 * (x * 4 + (a % 4)) + v
  OBVIOUS
<1>5. (256 * x + ((w \div 1) % 256)) * 1 + (w % 1) = 32 * (x * 8 + (a % 8)) + v
  OBVIOUS
<1>6. (256 * x + ((w \div 2) % 256)) * 2 + (w % 2) = 32 * (x * 16 + (a % 16)) + v
  OBVIOUS
<1>7. (256 * x + ((w \div 4) % 256)) * 4 + (w % 4) = 32 * (x * 32 + (a % 32)) + v
  OBVIOUS
<1>8. (256 * x + ((w \div 8) % 256)) * 8 + (w % 8) = 32 * (x * 64 + (a % 64)) + v
  OBVIOUS
<1>9. (256 * x + ((w \div 16) % 256)) * 16 + (w % 16) = 32 * (x * 128 + (a % 128)) + v
  OBVIOUS
<1> QED BY <1>1, <1>2, <1>3, <1>4, <1>5, <1>6, <1>7, <1>8, <1>9

Shifted(x, w, a, value, P, Q) == x * Q + (w % Q) = 32 * (x * P + (a % P)) + value
Moved(x, w, a, value, P, R) ==
  /\ (256 * x + ((w \div R) % 256)) * R + (w % R) = 32 * (x * P + (a % P)) + value
  /\ w \div R \in Nat
Waits(c, P, Q) == c \in Nat /\ c < 3 /\ P = 2 ^ c /\ Q = 2 ^ (c + 5)
Fills(c, P, R) == c \in Nat /\ 3 <= c /\ c < 8 /\ P = 2 ^ c /\ R = 2 ^ (c - 3)

\* TakeBits takes the bits of a value.
LEMMA TakeBitsIs ==
  ASSUME NEW s \in Conversions, NEW value \in Below(32)
  PROVE  TookBits(s, value, TakeBits(s, value))
<1> DEFINE a == s.acc
           b == s.bits
           o == s.out
           x == Number(o, 256)
           w == (a * 32 + value) % 4096
           t == TakeBits(s, value)
<1>1. /\ a \in Nat /\ b \in Nat /\ b < 8 /\ o \in Seq(Below(256))
      /\ s = [acc |-> a, bits |-> b, out |-> o] /\ value \in Nat /\ value < 32
  BY DEF Conversions, Below
<1>2. o \in Seq(Nat) /\ x \in Nat
  BY <1>1, ByteSeqs, NumberIsNat
<1>3. Held(s) = x * 2 ^ b + (a % 2 ^ b)
  BY DEF Held
<1>4. t = IF b + 5 < 8 THEN [s EXCEPT !.acc = w, !.bits = b + 5]
          ELSE [acc |-> w, bits |-> (b + 5) - 8,
                out |-> Append(o, (w \div 2 ^ ((b + 5) - 8)) % 256)]
  BY DEF TakeBits, Byte
<1>5. w \in Nat /\ w < 4096 /\ w \in Below(4096)
  BY <1>1 DEF Below
<1>6. ASSUME NEW c, NEW P, NEW Q, Waits(c, P, Q), b = c,
             Shifted(x, w, a, value, P, Q)
      PROVE  TookBits(s, value, t)
  <2>0. c \in Nat /\ c < 3 /\ P = 2 ^ c /\ Q = 2 ^ (c + 5)
    BY <1>6 DEF Waits
  <2>2. b + 5 \in Below(8) /\ b + 5 < 8
    BY <1>6, <2>0 DEF Below
  <2> HIDE DEF a, b, o, w, t
  <2>1. t = [acc |-> w, bits |-> b + 5, out |-> o]
    BY <1>1, <1>4, <2>2
  <2>3. t \in Conversions /\ t.out = o /\ t.bits = b + 5 /\ t.acc = w
    BY <1>1, <1>5, <2>1, <2>2 DEF Conversions
  <2>4. 8 * Len(t.out) + t.bits = 8 * Len(s.out) + s.bits + 5
    BY <1>1, <2>3 DEF o, b
  <2>5. Held(t) = x * Q + (w % Q)
    BY <1>6, <2>0, <2>3 DEF Held
  <2>6. Held(s) = x * P + (a % P)
    BY <1>3, <1>6, <2>0
  <2> HIDE DEF x
  <2>7. Held(t) = 32 * Held(s) + value
    BY <1>6, <2>5, <2>6 DEF Shifted
  <2> QED BY <2>3, <2>4, <2>7 DEF TookBits
<1>7. ASSUME NEW c, NEW P, NEW R, Fills(c, P, R), b = c,
             Moved(x, w, a, value, P, R)
      PROVE  TookBits(s, value, t)
  <2> DEFINE y == (w \div R) % 256
  <2>0. c \in Nat /\ 3 <= c /\ c < 8 /\ P = 2 ^ c /\ R = 2 ^ (c - 3)
    BY <1>7 DEF Fills
  <2>4. y \in Below(256)
    BY <1>7, ByteRest DEF Moved
  <2> HIDE DEF a, b, o, w, t
  <2>1. (b + 5) - 8 = c - 3 /\ ~(b + 5 < 8)
    BY <1>1, <1>7, <2>0
  <2>2. t = [acc |-> w, bits |-> c - 3, out |-> Append(o, y)]
    BY <1>4, <2>0, <2>1
  <2>3. c - 3 \in Below(8)
    BY <2>0 DEF Below
  <2> HIDE DEF y
  <2>5. t \in Conversions /\ t.out = Append(o, y) /\ t.bits = c - 3 /\ t.acc = w
    BY <1>1, <1>5, <2>2, <2>3, <2>4 DEF Conversions
  <2>6. Len(t.out) = Len(o) + 1 /\ Len(o) \in Nat
    BY <1>1, <2>5
  <2>7. 8 * Len(t.out) + t.bits = 8 * Len(s.out) + s.bits + 5
    BY <1>7, <2>0, <2>5, <2>6 DEF o, b
  <2>8. Number(t.out, 256) = 256 * x + y
    <3>1. y \in Nat
      BY <2>4 DEF Below
    <3> QED BY <1>2, <2>5, <3>1, NumberAppended DEF x
  <2>9. Held(t) = (256 * x + y) * R + (w % R)
    BY <1>7, <2>0, <2>5, <2>8 DEF Held
  <2>10. Held(s) = x * P + (a % P)
    BY <1>3, <1>7, <2>0
  <2> HIDE DEF x
  <2>11. Held(t) = 32 * Held(s) + value
    BY <1>7, <2>9, <2>10 DEF y, Moved
  <2> QED BY <2>5, <2>7, <2>11 DEF TookBits
<1>8. CASE b = 0
  <2>1. Shifted(x, w, a, value, 1, 32)
    <3> HIDE DEF a, x
    <3>1. x * 32 + (w % 32) = 32 * (x * 1 + (a % 1)) + value
      BY <1>1, <1>2, LowBits
    <3> QED BY <3>1 DEF Shifted
  <2>2. Waits(0, 1, 32)
    BY DEF Waits
  <2> HIDE DEF a, b, x, w, t
  <2>3. TookBits(s, value, t)
    BY <1>6, <1>8, <2>1, <2>2
  <2> QED BY <2>3 DEF t
<1>9. CASE b = 1
  <2>1. Shifted(x, w, a, value, 2, 64)
    <3> HIDE DEF a, x
    <3>1. x * 64 + (w % 64) = 32 * (x * 2 + (a % 2)) + value
      BY <1>1, <1>2, LowBits
    <3> QED BY <3>1 DEF Shifted
  <2>2. Waits(1, 2, 64)
    BY DEF Waits
  <2> HIDE DEF a, b, x, w, t
  <2>3. TookBits(s, value, t)
    BY <1>6, <1>9, <2>1, <2>2
  <2> QED BY <2>3 DEF t
<1>10. CASE b = 2
  <2>1. Shifted(x, w, a, value, 4, 128)
    <3> HIDE DEF a, x
    <3>1. x * 128 + (w % 128) = 32 * (x * 4 + (a % 4)) + value
      BY <1>1, <1>2, LowBits
    <3> QED BY <3>1 DEF Shifted
  <2>2. Waits(2, 4, 128)
    BY DEF Waits
  <2> HIDE DEF a, b, x, w, t
  <2>3. TookBits(s, value, t)
    BY <1>6, <1>10, <2>1, <2>2
  <2> QED BY <2>3 DEF t
<1>11. CASE b = 3
  <2>1. Moved(x, w, a, value, 8, 1)
    <3> HIDE DEF a, x
    <3>1. (256 * x + ((w \div 1) % 256)) * 1 + (w % 1) = 32 * (x * 8 + (a % 8)) + value
      BY <1>1, <1>2, LowBits
    <3>2. w \div 1 \in Nat
      BY <1>5
    <3> QED BY <3>1, <3>2 DEF Moved
  <2>2. Fills(3, 8, 1)
    BY DEF Fills
  <2> HIDE DEF a, b, x, w, t
  <2>3. TookBits(s, value, t)
    BY <1>7, <1>11, <2>1, <2>2
  <2> QED BY <2>3 DEF t
<1>12. CASE b = 4
  <2>1. Moved(x, w, a, value, 16, 2)
    <3> HIDE DEF a, x
    <3>1. (256 * x + ((w \div 2) % 256)) * 2 + (w % 2) = 32 * (x * 16 + (a % 16)) + value
      BY <1>1, <1>2, LowBits
    <3>2. w \div 2 \in Nat
      BY <1>5
    <3> QED BY <3>1, <3>2 DEF Moved
  <2>2. Fills(4, 16, 2)
    BY DEF Fills
  <2> HIDE DEF a, b, x, w, t
  <2>3. TookBits(s, value, t)
    BY <1>7, <1>12, <2>1, <2>2
  <2> QED BY <2>3 DEF t
<1>13. CASE b = 5
  <2>1. Moved(x, w, a, value, 32, 4)
    <3> HIDE DEF a, x
    <3>1. (256 * x + ((w \div 4) % 256)) * 4 + (w % 4) = 32 * (x * 32 + (a % 32)) + value
      BY <1>1, <1>2, LowBits
    <3>2. w \div 4 \in Nat
      BY <1>5
    <3> QED BY <3>1, <3>2 DEF Moved
  <2>2. Fills(5, 32, 4)
    BY DEF Fills
  <2> HIDE DEF a, b, x, w, t
  <2>3. TookBits(s, value, t)
    BY <1>7, <1>13, <2>1, <2>2
  <2> QED BY <2>3 DEF t
<1>14. CASE b = 6
  <2>1. Moved(x, w, a, value, 64, 8)
    <3> HIDE DEF a, x
    <3>1. (256 * x + ((w \div 8) % 256)) * 8 + (w % 8) = 32 * (x * 64 + (a % 64)) + value
      BY <1>1, <1>2, LowBits
    <3>2. w \div 8 \in Nat
      BY <1>5
    <3> QED BY <3>1, <3>2 DEF Moved
  <2>2. Fills(6, 64, 8)
    BY DEF Fills
  <2> HIDE DEF a, b, x, w, t
  <2>3. TookBits(s, value, t)
    BY <1>7, <1>14, <2>1, <2>2
  <2> QED BY <2>3 DEF t
<1>15. CASE b = 7
  <2>1. Moved(x, w, a, value, 128, 16)
    <3> HIDE DEF a, x
    <3>1. (256 * x + ((w \div 16) % 256)) * 16 + (w % 16) = 32 * (x * 128 + (a % 128)) + value
      BY <1>1, <1>2, LowBits
    <3>2. w \div 16 \in Nat
      BY <1>5
    <3> QED BY <3>1, <3>2 DEF Moved
  <2>2. Fills(7, 128, 16)
    BY DEF Fills
  <2> HIDE DEF a, b, x, w, t
  <2>3. TookBits(s, value, t)
    BY <1>7, <1>15, <2>1, <2>2
  <2> QED BY <2>3 DEF t
<1> QED BY <1>1, <1>8, <1>9, <1>10, <1>11, <1>12, <1>13, <1>14, <1>15

Nothing == [acc |-> 0, bits |-> 0, out |-> <<>>]

Converting(C, values) ==
  /\ C \in [0..Len(values) -> Conversions] /\ C[0] = Nothing
  /\ \A k \in 1..Len(values) : C[k] = TakeBits(C[k - 1], values[k])

ConversionOf(R, values) ==
  R = [k \in 0..Len(values) |-> IF k = 0 THEN Nothing ELSE TakeBits(R[k - 1], values[k])]

\* A conversion stays one.
LEMMA TakenFits ==
  ASSUME NEW s \in Conversions, NEW value \in Below(32)
  PROVE  TakeBits(s, value) \in Conversions
BY TakeBitsIs DEF TookBits

\* At first a conversion holds nothing.
LEMMA NothingFits == Nothing \in Conversions /\ Held(Nothing) = 0
<1> DEFINE e == <<>>
<1>1. e \in Seq(Below(256)) /\ Number(e, 256) = 0
  BY NothingIsZero
<1>2. Nothing = [acc |-> 0, bits |-> 0, out |-> e]
  BY DEF Nothing
<1> HIDE DEF e
<1>3. Nothing \in Conversions
  BY <1>1, <1>2 DEF Conversions, Below
<1>4. Held(Nothing) = 0 * 2 ^ 0 + (0 % 2 ^ 0)
  BY <1>1, <1>2 DEF Held
<1> QED BY <1>3, <1>4

\* Whatever takes the values one by one is a conversion after each.
LEMMA ConversionIsOne ==
  ASSUME NEW values \in Seq(Below(32)), NEW R, ConversionOf(R, values)
  PROVE  Converting(R, values)
<1> DEFINE n == Len(values)
           S == {k \in 0..n : R[k] \in Conversions}
<1>1. n \in Nat /\ R[0] = Nothing
  BY DEF ConversionOf
<1>2. \A k \in 1..n : R[k] = TakeBits(R[k - 1], values[k])
  BY DEF ConversionOf
<1>3. 0 \in S
  BY <1>1, NothingFits
<1>4. ASSUME NEW k \in 0..n-1, k \in S PROVE k + 1 \in S
  <2> DEFINE x == R[k]
             y == values[k + 1]
  <2>1. k + 1 \in 1..n /\ (k + 1) - 1 = k /\ k + 1 \in 0..n
    BY <1>1
  <2>2. y \in Below(32)
    BY <2>1, ElementOfSeq
  <2>3. x \in Conversions /\ R[k + 1] = TakeBits(x, y)
    BY <1>2, <1>4, <2>1
  <2> HIDE DEF x, y
  <2>4. R[k + 1] \in Conversions
    BY <2>2, <2>3, TakenFits
  <2> QED BY <2>1, <2>4
<1>5. 0..n \subseteq S
  <2> HIDE DEF S, n
  <2> QED BY <1>1, <1>3, <1>4, UpTo
<1>6. R \in [0..n -> Conversions]
  BY <1>5 DEF ConversionOf
<1> QED BY <1>1, <1>2, <1>6 DEF Converting

\* There is a conversion after every value.
LEMMA ConversionExists ==
  ASSUME NEW values \in Seq(Below(32))
  PROVE  \E R : ConversionOf(R, values)
<1> DEFINE n == Len(values)
           T == Conversions
           step == [k \in 1..n |-> [x \in T |-> TakeBits(x, values[k])]]
<1>1. n \in Nat /\ Nothing \in T
  BY NothingFits
<1>2. step \in [1..n -> [T -> T]]
  <2>1. \A k \in 1..n : values[k] \in Below(32)
    BY ElementOfSeq
  <2>2. \A k \in 1..n : \A x \in T : TakeBits(x, values[k]) \in T
    <3> HIDE DEF n
    <3> QED BY <2>1, TakenFits
  <2> HIDE DEF T
  <2> QED BY <2>2
<1>3. PICK f : Iterates(f, n, T, Nothing, step)
  <2>1. \E f : Iterates(f, n, T, Nothing, step)
    <3> HIDE DEF n, T, step
    <3> QED BY <1>1, <1>2, Iteration
  <2> QED BY <2>1
<1>4. /\ f \in [0..n -> T] /\ f[0] = Nothing
      /\ \A k \in 1..n : f[k] = TakeBits(f[k - 1], values[k])
  <2>1. \A k \in 1..n : \A x \in T : step[k][x] = TakeBits(x, values[k])
    OBVIOUS
  <2>2. f \in [0..n -> T] /\ f[0] = Nothing /\ \A k \in 1..n : f[k] = step[k][f[k - 1]]
    BY <1>3 DEF Iterates
  <2>3. \A k \in 1..n : k - 1 \in 0..n
    BY <1>1
  <2> HIDE DEF step, n, T
  <2> QED BY <2>1, <2>2, <2>3
<1> DEFINE e(k) == IF k = 0 THEN Nothing ELSE TakeBits(f[k - 1], values[k])
<1>5. f = [k \in 0..n |-> e(k)]
  <2>1. \A k \in 0..n : f[k] = e(k)
    BY <1>1, <1>4
  <2> HIDE DEF e, step, n, T
  <2> QED BY <1>4, <2>1
<1>6. ConversionOf(f, values)
  <2> HIDE DEF step, T
  <2> QED BY <1>5 DEF ConversionOf
<1> QED BY <1>6

\* So Conversion is.
LEMMA ConversionIs ==
  ASSUME NEW values \in Seq(Below(32))
  PROVE  Converting(Conversion(values), values)
<1> DEFINE R == Conversion(values)
<1>1. PICK f : ConversionOf(f, values)
  BY ConversionExists
<1>2. f = [k \in 0..Len(values) |-> IF k = 0 THEN [acc |-> 0, bits |-> 0, out |-> <<>>]
                                    ELSE TakeBits(f[k - 1], values[k])]
  BY <1>1, Zenon DEF ConversionOf, Nothing
<1>3. R = [k \in 0..Len(values) |-> IF k = 0 THEN [acc |-> 0, bits |-> 0, out |-> <<>>]
                                    ELSE TakeBits(R[k - 1], values[k])]
  BY <1>2, Zenon DEF Conversion
<1> HIDE DEF R
<1>4. ConversionOf(R, values)
  BY <1>3, Zenon DEF ConversionOf, Nothing
<1>5. Converting(R, values)
  BY <1>4, ConversionIsOne
<1> QED BY <1>5 DEF R

\* All the bits so far are held, and make the number so far.
LEMMA AllIsHeld ==
  ASSUME NEW values \in Seq(Below(32)), NEW C, Converting(C, values), NEW V, ReadsAs(V, values, 32)
  PROVE  \A k \in 0..Len(values) :
           C[k] \in Conversions /\ 8 * Len(C[k].out) + C[k].bits = 5 * k /\ Held(C[k]) = V[k]
<1> DEFINE n == Len(values)
           S == {k \in 0..n : 8 * Len(C[k].out) + C[k].bits = 5 * k /\ Held(C[k]) = V[k]}
<1>1. n \in Nat
  OBVIOUS
<1>2. 0 \in S
  <2>1. C[0] = Nothing /\ V[0] = 0
    BY DEF Converting, ReadsAs
  <2>2. Nothing.out = <<>> /\ Nothing.bits = 0
    BY DEF Nothing
  <2>3. 8 * Len(C[0].out) + C[0].bits = 5 * 0
    BY <2>1, <2>2
  <2>4. Held(C[0]) = V[0]
    BY <2>1, NothingFits
  <2> QED BY <1>1, <2>3, <2>4
<1>3. ASSUME NEW k \in 0..n-1, k \in S PROVE k + 1 \in S
  <2> DEFINE x == C[k]
             y == values[k + 1]
             t == C[k + 1]
  <2>1. k + 1 \in 1..n /\ (k + 1) - 1 = k /\ k + 1 \in 0..n /\ k \in 0..n
    BY <1>1
  <2>2. y \in Below(32) /\ y \in Nat
    BY <2>1, ElementOfSeq DEF Below
  <2>3. x \in Conversions /\ t = TakeBits(x, y)
    BY <2>1 DEF Converting
  <2>4. 8 * Len(x.out) + x.bits = 5 * k /\ Held(x) = V[k]
    BY <1>3
  <2>5. V[k + 1] = 32 * V[k] + y
    BY <2>1 DEF ReadsAs
  <2> HIDE DEF x, y, t
  <2>6. TookBits(x, y, t)
    BY <2>2, <2>3, TakeBitsIs
  <2>7. 8 * Len(t.out) + t.bits = 5 * k + 5 /\ Held(t) = V[k + 1]
    BY <2>4, <2>5, <2>6 DEF TookBits
  <2>8. 5 * (k + 1) = 5 * k + 5
    OBVIOUS
  <2> QED BY <2>1, <2>7, <2>8 DEF t
<1>4. 0..n \subseteq S
  <2> HIDE DEF S, n
  <2> QED BY <1>1, <1>2, <1>3, UpTo
<1>5. \A k \in 0..n : C[k] \in Conversions
  BY DEF Converting
<1> QED BY <1>4, <1>5

\* What is left over is zero when its low bits are.
LEMMA PaddingIs ==
  ASSUME NEW acc \in Nat, NEW bits \in Nat
  PROVE  PaddingFits(acc, bits) <=> bits < 5 /\ acc % 2 ^ bits = 0
<1>1. ASSUME NEW P, P = 2 ^ bits, NEW Q, Q = 2 ^ (8 - bits), (acc * Q) % 256 = 0 <=> acc % P = 0
      PROVE  PaddingFits(acc, bits) <=> bits < 5 /\ acc % 2 ^ bits = 0
  BY <1>1 DEF PaddingFits, Byte
<1>2. CASE bits = 0
  <2>1. (acc * 256) % 256 = 0 <=> acc % 1 = 0
    OBVIOUS
  <2>2. PaddingFits(acc, 0) <=> acc % 1 = 0
    BY <2>1 DEF PaddingFits, Byte
  <2>3. 1 = 2 ^ 0
    OBVIOUS
  <2> QED BY <1>2, <2>2, <2>3
<1>3. CASE bits = 1
  <2>1. (acc * 128) % 256 = 0 <=> acc % 2 = 0
    OBVIOUS
  <2>2. PaddingFits(acc, 1) <=> acc % 2 = 0
    BY <2>1 DEF PaddingFits, Byte
  <2>3. 2 = 2 ^ 1
    OBVIOUS
  <2> QED BY <1>3, <2>2, <2>3
<1>4. CASE bits = 2
  <2>1. (acc * 64) % 256 = 0 <=> acc % 4 = 0
    OBVIOUS
  <2>2. PaddingFits(acc, 2) <=> acc % 4 = 0
    BY <2>1 DEF PaddingFits, Byte
  <2>3. 4 = 2 ^ 2
    OBVIOUS
  <2> QED BY <1>4, <2>2, <2>3
<1>5. CASE bits = 3
  <2>1. (acc * 32) % 256 = 0 <=> acc % 8 = 0
    OBVIOUS
  <2>2. PaddingFits(acc, 3) <=> acc % 8 = 0
    BY <2>1 DEF PaddingFits, Byte
  <2>3. 8 = 2 ^ 3
    OBVIOUS
  <2> QED BY <1>5, <2>2, <2>3
<1>6. CASE bits = 4
  <2>1. (acc * 16) % 256 = 0 <=> acc % 16 = 0
    OBVIOUS
  <2>2. PaddingFits(acc, 4) <=> acc % 16 = 0
    BY <2>1 DEF PaddingFits, Byte
  <2>3. 16 = 2 ^ 4
    OBVIOUS
  <2> QED BY <1>6, <2>2, <2>3
<1>7. CASE ~(bits < 5)
  BY <1>7 DEF PaddingFits
<1> QED BY <1>2, <1>3, <1>4, <1>5, <1>6, <1>7

\* The powers of two that bits reach.
LEMMA PowerIsNat ==
  ASSUME NEW bits \in Nat, bits < 8
  PROVE  2 ^ bits \in Nat
<1>1. bits = 0 \/ bits = 1 \/ bits = 2 \/ bits = 3 \/ bits = 4 \/ bits = 5 \/ bits = 6 \/ bits = 7
  OBVIOUS
<1>2. /\ 2 ^ 0 \in Nat /\ 2 ^ 1 \in Nat /\ 2 ^ 2 \in Nat /\ 2 ^ 3 \in Nat
      /\ 2 ^ 4 \in Nat /\ 2 ^ 5 \in Nat /\ 2 ^ 6 \in Nat /\ 2 ^ 7 \in Nat
  OBVIOUS
<1> QED BY <1>1, <1>2

Splits(v, x, a, P) == v = x * P + (a % P)

\* What is converted packs the bytes, and all that packs some is converted.
LEMMA ConvertBits ==
  ASSUME NEW values \in Seq(Below(32)), NEW c, c = convert_bits(values)
  PROVE  /\ c.bytes \in Seq(Below(256))
         /\ c.ok => Packs(values, c.bytes)
         /\ \A size \in Nat :
              LET pad == 5 * Len(values) - 8 * size
              IN  pad \in 0..4 /\ Number(values, 32) % 2 ^ pad = 0 => c.ok /\ Len(c.bytes) = size
<1> DEFINE n == Len(values)
           C == Conversion(values)
           V == NumberSoFar(values, 32)
           e == C[n]
           a == e.acc
           b == e.bits
           o == e.out
           x == Number(o, 256)
<1>1. n \in Nat /\ values \in Seq(Nat)
  BY ByteSeqs
<1>2. Converting(C, values)
  BY ConversionIs
<1>3. ReadsAs(V, values, 32) /\ Number(values, 32) = V[n]
  <2>1. ReadsAs(V, values, 32)
    BY <1>1, NumberReads
  <2> QED BY <2>1 DEF Number
<1>4. c = [ok |-> PaddingFits(a, b), bytes |-> o]
  BY DEF convert_bits
<1> HIDE DEF C, V
<1>5. e \in Conversions /\ 8 * Len(o) + b = 5 * n /\ Held(e) = V[n]
  BY <1>1, <1>2, <1>3, AllIsHeld
<1>6. a \in Nat /\ b \in Nat /\ b < 8 /\ o \in Seq(Below(256))
  BY <1>5 DEF Conversions, Below
<1>7. o \in Seq(Nat) /\ x \in Nat
  <2>1. 256 \in Nat
    OBVIOUS
  <2> HIDE DEF o
  <2>2. o \in Seq(Nat)
    BY <1>6, <2>1, ByteSeqs, Zenon
  <2> QED BY <2>1, <2>2, NumberIsNat, Zenon
<1>8. Number(values, 32) = x * 2 ^ b + (a % 2 ^ b)
  BY <1>3, <1>5 DEF Held
<1> HIDE DEF e, a, b, o
<1>9. c.bytes = o /\ (c.ok <=> b < 5 /\ a % 2 ^ b = 0)
  <2>1. c.bytes = o /\ (c.ok <=> PaddingFits(a, b))
    BY <1>4
  <2> QED BY <1>6, <2>1, PaddingIs
<1>10. Len(o) \in Nat
  BY <1>6
<1> HIDE DEF n, x
<1>11. ASSUME c.ok PROVE Packs(values, c.bytes)
  <2>1. 5 * n - 8 * Len(o) = b /\ b \in 0..4 /\ a % 2 ^ b = 0
    BY <1>1, <1>5, <1>6, <1>9, <1>10, <1>11
  <2>2. Number(values, 32) = x * 2 ^ b
    <3> DEFINE P == 2 ^ b
    <3>1. P \in Nat
      BY <1>6, PowerIsNat
    <3>2. Number(values, 32) = x * P + 0
      BY <1>8, <2>1
    <3> HIDE DEF P
    <3>3. x * P \in Nat
      BY <1>7, <3>1
    <3> QED BY <3>2, <3>3 DEF P
  <2> QED BY <1>9, <2>1, <2>2 DEF Packs, Byte, n, x
<1>12. ASSUME NEW size \in Nat, NEW pad, pad = 5 * n - 8 * size, pad \in 0..4,
              Number(values, 32) % 2 ^ pad = 0
       PROVE  c.ok /\ Len(c.bytes) = size
  <2>1. pad \in Nat /\ pad < 5 /\ 8 * Len(o) + b = 8 * size + pad
    BY <1>1, <1>5, <1>12
  <2>2. Len(o) = size /\ b = pad
    BY <1>6, <1>10, <2>1
  <2> DEFINE v == Number(values, 32)
  <2>4. Splits(v, x, a, 2 ^ b) /\ v % 2 ^ pad = 0
    BY <1>8, <1>12 DEF Splits
  <2> HIDE DEF v
  <2>3. a % 2 ^ b = 0
    <3>1. CASE b = 0
      <4>1. 2 ^ b = 1 /\ 2 ^ pad = 1
        BY <2>2, <3>1
      <4>2. Splits(v, x, a, 1) /\ v % 1 = 0
        BY <2>4, <4>1
      <4>3. a % 1 = 0
        BY <1>6, <1>7, <4>2 DEF Splits
      <4> QED BY <4>1, <4>3
    <3>2. CASE b = 1
      <4>1. 2 ^ b = 2 /\ 2 ^ pad = 2
        BY <2>2, <3>2
      <4>2. Splits(v, x, a, 2) /\ v % 2 = 0
        BY <2>4, <4>1
      <4>3. a % 2 = 0
        BY <1>6, <1>7, <4>2 DEF Splits
      <4> QED BY <4>1, <4>3
    <3>3. CASE b = 2
      <4>1. 2 ^ b = 4 /\ 2 ^ pad = 4
        BY <2>2, <3>3
      <4>2. Splits(v, x, a, 4) /\ v % 4 = 0
        BY <2>4, <4>1
      <4>3. a % 4 = 0
        BY <1>6, <1>7, <4>2 DEF Splits
      <4> QED BY <4>1, <4>3
    <3>4. CASE b = 3
      <4>1. 2 ^ b = 8 /\ 2 ^ pad = 8
        BY <2>2, <3>4
      <4>2. Splits(v, x, a, 8) /\ v % 8 = 0
        BY <2>4, <4>1
      <4>3. a % 8 = 0
        BY <1>6, <1>7, <4>2 DEF Splits
      <4> QED BY <4>1, <4>3
    <3>5. CASE b = 4
      <4>1. 2 ^ b = 16 /\ 2 ^ pad = 16
        BY <2>2, <3>5
      <4>2. Splits(v, x, a, 16) /\ v % 16 = 0
        BY <2>4, <4>1
      <4>3. a % 16 = 0
        BY <1>6, <1>7, <4>2 DEF Splits
      <4> QED BY <4>1, <4>3
    <3> QED BY <1>6, <2>1, <2>2, <3>1, <3>2, <3>3, <3>4, <3>5
  <2> QED BY <1>9, <2>1, <2>2, <2>3
<1> QED BY <1>6, <1>9, <1>11, <1>12 DEF n

-----------------------------------------------------------------------------
(* No two sequences of bytes spell the same.                               *)

\* After its zeroes a number is not 0.
LEMMA AfterZeroes ==
  ASSUME NEW s \in Seq(Nat), NEW radix \in Nat, radix >= 1, NEW F, ReadsAs(F, s, radix),
         NEW z, ZeroesOf(s, z)
  PROVE  F[z] = 0 /\ \A k \in z+1..Len(s) : F[k] >= 1
<1> DEFINE n == Len(s)
           m == n - z
           S == {k \in 0..m : k > 0 => F[z + k] >= 1}
<1>1. n \in Nat /\ z \in 0..n /\ m \in Nat /\ \A k \in 1..z : s[k] = 0
  BY DEF ZeroesOf
<1>2. F[z] = 0
  BY <1>1, ZeroSoFar
<1>3. 0 \in S
  BY <1>1
<1>4. ASSUME NEW k \in 0..m-1, k \in S PROVE k + 1 \in S
  <2> DEFINE j == z + (k + 1)
  <2>1. j \in 1..n /\ j - 1 = z + k /\ k + 1 \in 0..m /\ j - 1 \in 0..n
    BY <1>1
  <2>2. F[j] = radix * F[j - 1] + s[j] /\ F[j - 1] \in Nat /\ s[j] \in Nat
    <3> HIDE DEF j
    <3>1. F[j] = radix * F[j - 1] + s[j]
      BY <2>1 DEF ReadsAs
    <3>2. F[j - 1] \in Nat
      BY <2>1 DEF ReadsAs
    <3>3. s[j] \in Nat
      BY <2>1, ElementOfSeq
    <3> QED BY <3>1, <3>2, <3>3
  <2>3. F[j - 1] >= 1 \/ s[j] >= 1
    <3>1. CASE k = 0
      <4>1. j = z + 1 /\ z < n
        BY <1>1, <2>1, <3>1
      <4>2. s[z + 1] # 0
        BY <4>1 DEF ZeroesOf
      <4> QED BY <2>2, <4>1, <4>2
    <3>2. CASE k # 0
      BY <1>4, <2>1, <3>2
    <3> QED BY <3>1, <3>2
  <2>4. F[j] >= 1
    <3> DEFINE x == F[j - 1]
               y == s[j]
    <3>1. x \in Nat /\ y \in Nat /\ F[j] = radix * x + y /\ (x >= 1 \/ y >= 1)
      BY <2>2, <2>3
    <3> HIDE DEF x, y
    <3>2. radix * x \in Nat /\ (x >= 1 => radix * x >= 1)
      BY <3>1
    <3> QED BY <3>1, <3>2
  <2> QED BY <2>1, <2>4
<1>5. 0..m \subseteq S
  <2> HIDE DEF S, m
  <2> QED BY <1>1, <1>3, <1>4, UpTo
<1>6. ASSUME NEW k \in z+1..n PROVE F[k] >= 1
  <2>1. k - z \in 0..m /\ k - z > 0 /\ z + (k - z) = k
    BY <1>1
  <2>2. k - z \in S
    BY <1>5, <2>1
  <2> QED BY <2>1, <2>2
<1> QED BY <1>2, <1>6

\* Numbers that are the same have the same last bytes.
LEMMA SameEnds ==
  ASSUME NEW s \in Seq(Below(256)), NEW t \in Seq(Below(256)), Len(s) <= Len(t),
         NEW F, ReadsAs(F, s, 256), NEW G, ReadsAs(G, t, 256), F[Len(s)] = G[Len(t)]
  PROVE  \A j \in 0..Len(s) :
           /\ F[Len(s) - j] = G[Len(t) - j]
           /\ j > 0 => s[Len(s) - j + 1] = t[Len(t) - j + 1]
<1> DEFINE m == Len(s)
           n == Len(t)
           S == {j \in 0..m : F[m - j] = G[n - j] /\ (j > 0 => s[m - j + 1] = t[n - j + 1])}
<1>1. m \in Nat /\ n \in Nat /\ m <= n
  OBVIOUS
<1>2. 0 \in S
  BY <1>1
<1>3. ASSUME NEW j \in 0..m-1, j \in S PROVE j + 1 \in S
  <2> DEFINE a == m - j
             b == n - j
             f == F[a - 1]
             g == G[b - 1]
             x == s[a]
             y == t[b]
  <2>1. /\ a \in 1..m /\ b \in 1..n /\ a - 1 \in 0..m /\ b - 1 \in 0..n /\ j + 1 \in 0..m
        /\ m - (j + 1) = a - 1 /\ n - (j + 1) = b - 1
        /\ m - (j + 1) + 1 = a /\ n - (j + 1) + 1 = b
    BY <1>1
  <2> HIDE DEF a, b
  <2>2. F[a] = G[b]
    BY <1>3 DEF a, b
  <2>3. F[a] = 256 * f + x /\ f \in Nat
    <3>1. F \in [0..Len(s) -> Nat] /\ \A k \in 1..Len(s) : F[k] = 256 * F[k - 1] + s[k]
      BY DEF ReadsAs
    <3>2. a \in 1..Len(s) /\ a - 1 \in 0..Len(s)
      BY <2>1
    <3> QED BY <3>1, <3>2
  <2>4. G[b] = 256 * g + y /\ g \in Nat
    BY <2>1 DEF ReadsAs
  <2>5. x \in Below(256) /\ y \in Below(256)
    BY <2>1, ElementOfSeq
  <2> HIDE DEF f, g, x, y
  <2>6. f = g /\ x = y
    <3>1. x \in Nat /\ x < 256 /\ y \in Nat /\ y < 256
      BY <2>5 DEF Below
    <3>2. 256 * f + x = 256 * g + y
      BY <2>2, <2>3, <2>4
    <3> QED BY <2>3, <2>4, <3>1, <3>2
  <2> QED BY <2>1, <2>6 DEF f, g, x, y
<1>4. 0..m \subseteq S
  <2> HIDE DEF S, m
  <2> QED BY <1>1, <1>2, <1>3, UpTo
<1> QED BY <1>4

\* Of two sequences with the same zeroes and the same number the longer one
\* has nothing more.
LEMMA NoLonger ==
  ASSUME NEW s \in Seq(Below(256)), NEW t \in Seq(Below(256)), NEW z, ZeroesOf(s, z), ZeroesOf(t, z),
         Number(s, 256) = Number(t, 256), Len(s) <= Len(t)
  PROVE  s = t
<1> DEFINE m == Len(s)
           n == Len(t)
           F == NumberSoFar(s, 256)
           G == NumberSoFar(t, 256)
<1>1. s \in Seq(Nat) /\ t \in Seq(Nat) /\ m \in Nat /\ n \in Nat /\ z \in 0..m
  BY ByteSeqs DEF ZeroesOf
<1>2. ReadsAs(F, s, 256)
  BY <1>1, NumberReads
<1>3. ReadsAs(G, t, 256)
  BY <1>1, NumberReads
<1>4. F[m] = G[n]
  BY DEF Number
<1> HIDE DEF F, G
<1>5. \A j \in 0..m : /\ F[m - j] = G[n - j]
                      /\ j > 0 => s[m - j + 1] = t[n - j + 1]
  BY <1>2, <1>3, <1>4, SameEnds
<1>6. F[z] = 0
  BY <1>1, <1>2, AfterZeroes
<1>7. \A k \in z+1..n : G[k] >= 1
  BY <1>1, <1>3, AfterZeroes
<1>8. m = n
  <2>1. SUFFICES ASSUME m < n PROVE FALSE
    BY <1>1
  <2>2. m - z \in 0..m /\ m - (m - z) = z /\ n - (m - z) \in z+1..n
    BY <1>1, <2>1
  <2>3. F[m - (m - z)] = G[n - (m - z)]
    BY <1>5, <2>2
  <2>4. G[n - (m - z)] >= 1
    BY <1>7, <2>2
  <2> QED BY <1>6, <2>2, <2>3, <2>4
<1>9. ASSUME NEW k \in 1..m PROVE s[k] = t[k]
  <2> DEFINE j == m - k + 1
  <2>1. j \in 0..m /\ j > 0 /\ m - j + 1 = k /\ n - j + 1 = k
    BY <1>1, <1>8
  <2> HIDE DEF j
  <2> QED BY <1>5, <2>1
<1> QED BY <1>8, <1>9, SeqEqual

\* The same zeroes and the same number are the same bytes.
LEMMA SameBytes ==
  ASSUME NEW s \in Seq(Below(256)), NEW t \in Seq(Below(256)),
         LeadingZeroes(s) = LeadingZeroes(t), Number(s, 256) = Number(t, 256)
  PROVE  s = t
<1> DEFINE z == LeadingZeroes(s)
<1>1. s \in Seq(Nat) /\ t \in Seq(Nat) /\ Len(s) \in Nat /\ Len(t) \in Nat
  BY ByteSeqs
<1>2. ZeroesOf(s, z) /\ ZeroesOf(t, z)
  BY <1>1, LeadingIs
<1> HIDE DEF z
<1>3. CASE Len(s) <= Len(t)
  BY <1>2, <1>3, NoLonger
<1>4. CASE Len(t) <= Len(s)
  <2>1. t = s
    BY <1>2, <1>4, NoLonger
  <2> QED BY <2>1
<1> QED BY <1>1, <1>3, <1>4

-----------------------------------------------------------------------------
(* Room for every number of so many digits.                                *)

\* So many places are worth a factor.
Leaps(p, n, a, c) == \A j \in Nat : j + a <= n => p[j + a] = c * p[j]

\* Leaps add up.
LEMMA LeapsAdd ==
  ASSUME NEW n \in Nat, NEW radix \in Nat, NEW p, Scaled(p, n, radix),
         NEW a \in Nat, NEW b \in Nat, NEW c \in Nat, NEW d \in Nat,
         Leaps(p, n, a, c), Leaps(p, n, b, d)
  PROVE  Leaps(p, n, a + b, d * c)
<1> SUFFICES ASSUME NEW j \in Nat, j + (a + b) <= n PROVE p[j + (a + b)] = (d * c) * p[j]
  BY DEF Leaps
<1> DEFINE i == j + a
<1>1. i \in Nat /\ i <= n /\ i + b = j + (a + b) /\ i + b <= n /\ j <= n /\ j \in 0..n
  OBVIOUS
<1>2. p[i] = c * p[j]
  BY <1>1 DEF Leaps
<1> HIDE DEF i
<1>3. p[i + b] = d * p[i]
  BY <1>1 DEF Leaps
<1>4. p[j] \in Nat
  BY <1>1 DEF Scaled
<1>5. d * (c * p[j]) = (d * c) * p[j]
  <2> DEFINE x == p[j]
  <2> HIDE DEF x
  <2>1. x \in Nat
    BY <1>4 DEF x
  <2>2. d * (c * x) = (d * c) * x
    BY <2>1
  <2> QED BY <2>2 DEF x
<1> QED BY <1>1, <1>2, <1>3, <1>5

\* A leap of one is the radix.
LEMMA LeapOne ==
  ASSUME NEW n \in Nat, NEW radix \in Nat, NEW p, Scaled(p, n, radix)
  PROVE  Leaps(p, n, 1, radix)
<1> SUFFICES ASSUME NEW j \in Nat, j + 1 <= n PROVE p[j + 1] = radix * p[j]
  BY DEF Leaps
<1>1. j + 1 \in 1..n /\ (j + 1) - 1 = j
  OBVIOUS
<1> QED BY <1>1 DEF Scaled

\* Leaps of digits that the proofs use.
LEMMA DigitLeaps ==
  ASSUME NEW n \in Nat, NEW p, Scaled(p, n, 58)
  PROVE  Leaps(p, n, 1, 58) /\ Leaps(p, n, 3, 195112) /\ Leaps(p, n, 4, 11316496)
<1>1. Leaps(p, n, 1, 58)
  BY LeapOne
<1>2. Leaps(p, n, 2, 3364)
  <2>1. Leaps(p, n, 1 + 1, 58 * 58)
    BY <1>1, LeapsAdd
  <2>2. 1 + 1 = 2 /\ 58 * 58 = 3364
    OBVIOUS
  <2> QED BY <2>1, <2>2
<1>3. Leaps(p, n, 3, 195112)
  <2>1. Leaps(p, n, 2 + 1, 58 * 3364)
    BY <1>2, <1>1, LeapsAdd
  <2>2. 2 + 1 = 3 /\ 58 * 3364 = 195112
    OBVIOUS
  <2> QED BY <2>1, <2>2
<1>4. Leaps(p, n, 4, 11316496)
  <2>1. Leaps(p, n, 2 + 2, 3364 * 3364)
    BY <1>2, LeapsAdd
  <2>2. 2 + 2 = 4 /\ 3364 * 3364 = 11316496
    OBVIOUS
  <2> QED BY <2>1, <2>2
<1> QED BY <1>1, <1>3, <1>4

\* Leaps of bytes that the proofs use.
LEMMA ByteLeaps ==
  ASSUME NEW n \in Nat, NEW p, Scaled(p, n, 256)
  PROVE  Leaps(p, n, 1, 256) /\ Leaps(p, n, 2, 65536) /\ Leaps(p, n, 3, 16777216)
<1>1. Leaps(p, n, 1, 256)
  BY LeapOne
<1>2. Leaps(p, n, 2, 65536)
  <2>1. Leaps(p, n, 1 + 1, 256 * 256)
    BY <1>1, LeapsAdd
  <2>2. 1 + 1 = 2 /\ 256 * 256 = 65536
    OBVIOUS
  <2> QED BY <2>1, <2>2
<1>3. Leaps(p, n, 3, 16777216)
  <2>1. Leaps(p, n, 2 + 1, 256 * 65536)
    BY <1>2, <1>1, LeapsAdd
  <2>2. 2 + 1 = 3 /\ 256 * 65536 = 16777216
    OBVIOUS
  <2> QED BY <2>1, <2>2
<1> QED BY <1>1, <1>2, <1>3

\* The powers of 58 and 256 side by side: from a place of each, so many
\* places further on.
Climbing(p, n, q, m) == Scaled(p, n, 58) /\ Scaled(q, m, 256)

\* One digit takes no more than one byte.
LEMMA ClimbOne ==
  ASSUME NEW n \in Nat, NEW m \in Nat, NEW p, NEW q, Climbing(p, n, q, m),
         NEW j \in Nat, NEW k \in Nat, j + 1 <= n, k + 1 <= m, p[j] <= q[k]
  PROVE  p[j + 1] <= q[k + 1]
<1>1. Scaled(p, n, 58) /\ Scaled(q, m, 256)
  BY DEF Climbing
<1>2. p[j + 1] = 58 * p[j] /\ q[k + 1] = 256 * q[k]
  BY <1>1, DigitLeaps, ByteLeaps DEF Leaps
<1>3. p[j] \in Nat /\ q[k] \in Nat
  BY <1>1 DEF Scaled
<1> QED BY <1>2, <1>3

\* Four digits take no more than three bytes: 58 ^ 4 <= 256 ^ 3.
LEMMA ClimbFour ==
  ASSUME NEW n \in Nat, NEW m \in Nat, NEW p, NEW q, Climbing(p, n, q, m),
         NEW j \in Nat, NEW k \in Nat, j + 4 <= n, k + 3 <= m, p[j] <= q[k]
  PROVE  p[j + 4] <= q[k + 3]
<1>1. Scaled(p, n, 58) /\ Scaled(q, m, 256)
  BY DEF Climbing
<1>2. p[j + 4] = 11316496 * p[j] /\ q[k + 3] = 16777216 * q[k]
  BY <1>1, DigitLeaps, ByteLeaps DEF Leaps
<1>3. p[j] \in Nat /\ q[k] \in Nat
  BY <1>1 DEF Scaled
<1> QED BY <1>2, <1>3

\* Eleven digits, as 4 and 4 and 3, and eight bytes, as 3 and 3 and 2.
Eleven(p, j, q, k) ==
  /\ p[j] \in Nat /\ q[k] \in Nat
  /\ p[j + 4] = 11316496 * p[j] /\ p[j + 8] = 11316496 * p[j + 4] /\ p[j + 11] = 195112 * p[j + 8]
  /\ q[k + 3] = 16777216 * q[k] /\ q[k + 6] = 16777216 * q[k + 3] /\ q[k + 8] = 65536 * q[k + 6]

\* Eleven digits take eight bytes when there is some room left.
LEMMA ClimbEleven ==
  ASSUME NEW n \in Nat, NEW m \in Nat, NEW p, NEW q, Climbing(p, n, q, m),
         NEW j \in Nat, NEW k \in Nat, j + 11 <= n, k + 8 <= m
  PROVE  1000 * p[j] <= 699 * q[k] => p[j + 11] <= q[k + 8]
<1>1. Scaled(p, n, 58) /\ Scaled(q, m, 256)
  BY DEF Climbing
<1>2. /\ (j + 4) + 4 = j + 8 /\ (j + 8) + 3 = j + 11
      /\ (k + 3) + 3 = k + 6 /\ (k + 6) + 2 = k + 8
  OBVIOUS
<1>3. Leaps(p, n, 4, 11316496) /\ Leaps(p, n, 3, 195112) /\ Leaps(q, m, 3, 16777216) /\ Leaps(q, m, 2, 65536)
  BY <1>1, DigitLeaps, ByteLeaps
<1>4. p[j + 4] = 11316496 * p[j]
  BY <1>3 DEF Leaps
<1>5. p[j + 8] = 11316496 * p[j + 4]
  BY <1>2, <1>3 DEF Leaps
<1>6. p[j + 11] = 195112 * p[j + 8]
  BY <1>2, <1>3 DEF Leaps
<1>7. q[k + 3] = 16777216 * q[k]
  BY <1>3 DEF Leaps
<1>8. q[k + 6] = 16777216 * q[k + 3]
  BY <1>2, <1>3 DEF Leaps
<1>9. q[k + 8] = 65536 * q[k + 6]
  BY <1>2, <1>3 DEF Leaps
<1>10. p[j] \in Nat /\ q[k] \in Nat
  BY <1>1 DEF Scaled
<1> DEFINE p0 == p[j]
           p4 == p[j + 4]
           p8 == p[j + 8]
           p11 == p[j + 11]
           q0 == q[k]
           q3 == q[k + 3]
           q6 == q[k + 6]
           q8 == q[k + 8]
<1>11. /\ p0 \in Nat /\ p4 = 11316496 * p0 /\ p8 = 11316496 * p4 /\ p11 = 195112 * p8
       /\ q0 \in Nat /\ q3 = 16777216 * q0 /\ q6 = 16777216 * q3 /\ q8 = 65536 * q6
  BY <1>4, <1>5, <1>6, <1>7, <1>8, <1>9, <1>10
<1> HIDE DEF p0, p4, p8, p11, q0, q3, q6, q8
<1>12. 1000 * p0 <= 699 * q0 => p11 <= q8
  BY <1>11
<1> QED BY <1>12 DEF p0, p11, q0, q8

\* Fifteen digits, as three times 4 and 3, need less than eleven bytes, as
\* three times 3 and 2: the slack adds up.
LEMMA ClimbFifteen ==
  ASSUME NEW n \in Nat, NEW m \in Nat, NEW p, NEW q, Climbing(p, n, q, m),
         NEW j \in Nat, NEW k \in Nat, j + 15 <= n, k + 11 <= m
  PROVE  /\ p[j] <= q[k] => 1000 * p[j + 15] <= 914 * q[k + 11]
         /\ 1000 * p[j] <= 914 * q[k] => 1000 * p[j + 15] <= 836 * q[k + 11]
         /\ 1000 * p[j] <= 836 * q[k] => 1000 * p[j + 15] <= 764 * q[k + 11]
         /\ 1000 * p[j] <= 764 * q[k] => 1000 * p[j + 15] <= 699 * q[k + 11]
<1>1. Scaled(p, n, 58) /\ Scaled(q, m, 256)
  BY DEF Climbing
<1>2. /\ (j + 4) + 4 = j + 8 /\ (j + 8) + 4 = j + 12 /\ (j + 12) + 3 = j + 15
      /\ (k + 3) + 3 = k + 6 /\ (k + 6) + 3 = k + 9 /\ (k + 9) + 2 = k + 11
  OBVIOUS
<1>3. Leaps(p, n, 4, 11316496) /\ Leaps(p, n, 3, 195112) /\ Leaps(q, m, 3, 16777216) /\ Leaps(q, m, 2, 65536)
  BY <1>1, DigitLeaps, ByteLeaps
<1>4. p[j + 4] = 11316496 * p[j]
  BY <1>3 DEF Leaps
<1>5. p[j + 8] = 11316496 * p[j + 4]
  BY <1>2, <1>3 DEF Leaps
<1>6. p[j + 12] = 11316496 * p[j + 8]
  BY <1>2, <1>3 DEF Leaps
<1>7. p[j + 15] = 195112 * p[j + 12]
  BY <1>2, <1>3 DEF Leaps
<1>8. q[k + 3] = 16777216 * q[k]
  BY <1>3 DEF Leaps
<1>9. q[k + 6] = 16777216 * q[k + 3]
  BY <1>2, <1>3 DEF Leaps
<1>10. q[k + 9] = 16777216 * q[k + 6]
  BY <1>2, <1>3 DEF Leaps
<1>11. q[k + 11] = 65536 * q[k + 9]
  BY <1>2, <1>3 DEF Leaps
<1>12. p[j] \in Nat /\ q[k] \in Nat
  BY <1>1 DEF Scaled
<1> DEFINE p0 == p[j]
           p4 == p[j + 4]
           p8 == p[j + 8]
           p12 == p[j + 12]
           p15 == p[j + 15]
           q0 == q[k]
           q3 == q[k + 3]
           q6 == q[k + 6]
           q9 == q[k + 9]
           q11 == q[k + 11]
<1>13. /\ p0 \in Nat /\ p4 = 11316496 * p0 /\ p8 = 11316496 * p4 /\ p12 = 11316496 * p8 /\ p15 = 195112 * p12
       /\ q0 \in Nat /\ q3 = 16777216 * q0 /\ q6 = 16777216 * q3 /\ q9 = 16777216 * q6 /\ q11 = 65536 * q9
  BY <1>4, <1>5, <1>6, <1>7, <1>8, <1>9, <1>10, <1>11, <1>12
<1> HIDE DEF p0, p4, p8, p12, p15, q0, q3, q6, q9, q11
<1>14. p0 <= q0 => 1000 * p15 <= 914 * q11
  BY <1>13
<1>15. 1000 * p0 <= 914 * q0 => 1000 * p15 <= 836 * q11
  BY <1>13
<1>16. 1000 * p0 <= 836 * q0 => 1000 * p15 <= 764 * q11
  BY <1>13
<1>17. 1000 * p0 <= 764 * q0 => 1000 * p15 <= 699 * q11
  BY <1>13
<1> QED BY <1>14, <1>15, <1>16, <1>17 DEF p0, p15, q0, q11

\* 71 digits take no more than 52 bytes, four times 15 and then 11.
LEMMA ClimbSeventyOne ==
  ASSUME NEW n \in Nat, NEW m \in Nat, NEW p, NEW q, Climbing(p, n, q, m),
         NEW j \in Nat, NEW k \in Nat, j + 71 <= n, k + 52 <= m, p[j] <= q[k]
  PROVE  p[j + 71] <= q[k + 52]
<1>1. /\ (j + 15) + 15 = j + 30 /\ (j + 30) + 15 = j + 45 /\ (j + 45) + 15 = j + 60 /\ (j + 60) + 11 = j + 71
      /\ (k + 11) + 11 = k + 22 /\ (k + 22) + 11 = k + 33 /\ (k + 33) + 11 = k + 44 /\ (k + 44) + 8 = k + 52
  OBVIOUS
<1>2. 1000 * p[j + 15] <= 914 * q[k + 11]
  BY ClimbFifteen
<1>3. 1000 * p[j + 30] <= 836 * q[k + 22]
  <2>1. j + 15 \in Nat /\ k + 11 \in Nat /\ (j + 15) + 15 <= n /\ (k + 11) + 11 <= m
    OBVIOUS
  <2> QED BY <1>1, <1>2, <2>1, ClimbFifteen
<1>4. 1000 * p[j + 45] <= 764 * q[k + 33]
  <2>1. j + 30 \in Nat /\ k + 22 \in Nat /\ (j + 30) + 15 <= n /\ (k + 22) + 11 <= m
    OBVIOUS
  <2> QED BY <1>1, <1>3, <2>1, ClimbFifteen
<1>5. 1000 * p[j + 60] <= 699 * q[k + 44]
  <2>1. j + 45 \in Nat /\ k + 33 \in Nat /\ (j + 45) + 15 <= n /\ (k + 33) + 11 <= m
    OBVIOUS
  <2> QED BY <1>1, <1>4, <2>1, ClimbFifteen
<1>6. p[j + 71] <= q[k + 52]
  <2>1. j + 60 \in Nat /\ k + 44 \in Nat /\ (j + 60) + 11 <= n /\ (k + 44) + 8 <= m
    OBVIOUS
  <2> QED BY <1>1, <1>5, <2>1, ClimbEleven
<1> QED BY <1>6

\* So many digits in stretches of 71, 15, 4 and 1 need that many bytes.
Climbs(p, n, q) ==
  \A x, y, z, w \in Nat :
    n = 71 * x + 15 * y + 4 * z + w => p[n] <= q[52 * x + 11 * y + 3 * z + w]

\* By stretches, whatever order they come in.
LEMMA ClimbAll ==
  ASSUME NEW n \in Nat, NEW p, NEW q, Climbing(p, n, q, n), p[0] <= q[0]
  PROVE  Climbs(p, n, q)
<1> DEFINE Q(m) == \A x, y, z, w \in Nat :
                     m = 71 * x + 15 * y + 4 * z + w => p[m] <= q[52 * x + 11 * y + 3 * z + w]
           S == {m \in 0..n : \A i \in 0..m : Q(i)}
<1>1. 0 \in S
  <2>1. Q(0)
    <3> SUFFICES ASSUME NEW x \in Nat, NEW y \in Nat, NEW z \in Nat, NEW w \in Nat,
                        0 = 71 * x + 15 * y + 4 * z + w
                 PROVE  p[0] <= q[52 * x + 11 * y + 3 * z + w]
      OBVIOUS
    <3>1. 52 * x + 11 * y + 3 * z + w = 0
      OBVIOUS
    <3> QED BY <3>1
  <2> HIDE DEF Q
  <2> QED BY <2>1
<1>2. ASSUME NEW m \in 0..n-1, m \in S PROVE m + 1 \in S
  <2> DEFINE t == m + 1
  <2>1. t \in Nat /\ t <= n /\ \A i \in 0 .. t-1 : Q(i)
    <3> HIDE DEF Q
    <3> QED BY <1>2
  <2> HIDE DEF t
  <2>2. ASSUME NEW x \in Nat, NEW y \in Nat, NEW z \in Nat, NEW w \in Nat,
               t = 71 * x + 15 * y + 4 * z + w
        PROVE  p[t] <= q[52 * x + 11 * y + 3 * z + w]
    <3> DEFINE r == 52 * x + 11 * y + 3 * z + w
    <3>0. r \in Nat /\ r <= t
      BY <2>2
    <3>1. CASE x # 0
      <4> DEFINE j == t - 71
                 k == r - 52
      <4>1. /\ j \in Nat /\ j \in 0 .. t-1 /\ k \in Nat /\ x - 1 \in Nat
            /\ j = 71 * (x - 1) + 15 * y + 4 * z + w /\ k = 52 * (x - 1) + 11 * y + 3 * z + w
            /\ j + 71 = t /\ k + 52 = r /\ j + 71 <= n /\ k + 52 <= n
        BY <2>1, <2>2, <3>1
      <4> HIDE DEF j, k, r
      <4>2. p[j] <= q[k]
        <5>1. Q(j)
          BY <2>1, <4>1
        <5> QED BY <4>1, <5>1
      <4>3. p[j + 71] <= q[k + 52]
        BY <4>1, <4>2, ClimbSeventyOne
      <4> QED BY <4>1, <4>3 DEF r
    <3>2. CASE x = 0 /\ y # 0
      <4> DEFINE j == t - 15
                 k == r - 11
      <4>1. /\ j \in Nat /\ j \in 0 .. t-1 /\ k \in Nat /\ y - 1 \in Nat
            /\ j = 71 * x + 15 * (y - 1) + 4 * z + w /\ k = 52 * x + 11 * (y - 1) + 3 * z + w
            /\ j + 15 = t /\ k + 11 = r /\ j + 15 <= n /\ k + 11 <= n
        BY <2>1, <2>2, <3>2
      <4> HIDE DEF j, k, r
      <4>2. p[j] <= q[k]
        <5>1. Q(j)
          BY <2>1, <4>1
        <5> QED BY <4>1, <5>1
      <4>3. 1000 * p[j + 15] <= 914 * q[k + 11]
        BY <4>1, <4>2, ClimbFifteen
      <4>4. p[j + 15] \in Nat /\ q[k + 11] \in Nat
        BY <4>1 DEF Climbing, Scaled
      <4>5. p[j + 15] <= q[k + 11]
        BY <4>3, <4>4
      <4> QED BY <4>1, <4>5 DEF r
    <3>3. CASE x = 0 /\ y = 0 /\ z # 0
      <4> DEFINE j == t - 4
                 k == r - 3
      <4>1. /\ j \in Nat /\ j \in 0 .. t-1 /\ k \in Nat /\ z - 1 \in Nat
            /\ j = 71 * x + 15 * y + 4 * (z - 1) + w /\ k = 52 * x + 11 * y + 3 * (z - 1) + w
            /\ j + 4 = t /\ k + 3 = r /\ j + 4 <= n /\ k + 3 <= n
        BY <2>1, <2>2, <3>3
      <4> HIDE DEF j, k, r
      <4>2. p[j] <= q[k]
        <5>1. Q(j)
          BY <2>1, <4>1
        <5> QED BY <4>1, <5>1
      <4>3. p[j + 4] <= q[k + 3]
        BY <4>1, <4>2, ClimbFour
      <4> QED BY <4>1, <4>3 DEF r
    <3>4. CASE x = 0 /\ y = 0 /\ z = 0
      <4> DEFINE j == t - 1
                 k == r - 1
      <4>0. t # 0
        <5>1. t = m + 1 /\ m \in Nat
          BY DEF t
        <5> QED BY <5>1
      <4>1. /\ j \in Nat /\ j \in 0 .. t-1 /\ k \in Nat /\ w - 1 \in Nat
            /\ j = 71 * x + 15 * y + 4 * z + (w - 1) /\ k = 52 * x + 11 * y + 3 * z + (w - 1)
            /\ j + 1 = t /\ k + 1 = r /\ j + 1 <= n /\ k + 1 <= n
        BY <2>1, <2>2, <3>4, <4>0
      <4> HIDE DEF j, k, r
      <4>2. p[j] <= q[k]
        <5>1. Q(j)
          BY <2>1, <4>1
        <5> QED BY <4>1, <5>1
      <4>3. p[j + 1] <= q[k + 1]
        BY <4>1, <4>2, ClimbOne
      <4> QED BY <4>1, <4>3 DEF r
    <3> QED BY <3>1, <3>2, <3>3, <3>4
  <2>3. Q(t)
    BY <2>2
  <2> HIDE DEF Q
  <2>4. \A i \in 0..t : Q(i)
    BY <2>1, <2>3
  <2> QED BY <2>1, <2>4 DEF t
<1>3. 0..n \subseteq S
  <2> HIDE DEF S
  <2> QED BY <1>1, <1>2, UpTo
<1>4. Q(n)
  <2> HIDE DEF Q
  <2>1. n \in S /\ n \in 0..n
    BY <1>3
  <2> QED BY <2>1
<1> QED BY <1>4 DEF Climbs

\* Multiples by a radix only grow.
LEMMA ScaledRises ==
  ASSUME NEW n \in Nat, NEW radix \in Nat \ {0}, NEW q, Scaled(q, n, radix),
         NEW k \in 0..n, NEW l \in k..n
  PROVE  q[k] <= q[l]
<1> DEFINE m == n - k
           S == {i \in 0..m : q[k] <= q[k + i]}
<1>1. m \in Nat /\ 0 \in S
  BY DEF Scaled
<1>2. ASSUME NEW i \in 0..m-1, i \in S PROVE i + 1 \in S
  <2>1. k + (i + 1) \in 1..n /\ (k + (i + 1)) - 1 = k + i /\ k + i \in 0..n /\ i + 1 \in 0..m
    OBVIOUS
  <2>2. q[k + (i + 1)] = radix * q[k + i]
    BY <2>1 DEF Scaled
  <2>3. q[k + i] \in Nat /\ q[k] \in Nat /\ q[k] <= q[k + i]
    BY <1>2, <2>1 DEF Scaled
  <2> DEFINE x == q[k + i]
  <2> HIDE DEF x
  <2>4. radix * x >= x
    BY <2>3 DEF x
  <2>5. q[k] <= q[k + (i + 1)]
    BY <2>2, <2>3, <2>4 DEF x
  <2> QED BY <2>1, <2>5
<1>3. 0..m \subseteq S
  <2> HIDE DEF S, m
  <2> QED BY <1>1, <1>2, UpTo
<1>4. l - k \in 0..m /\ k + (l - k) = l
  OBVIOUS
<1>5. l - k \in S
  BY <1>3, <1>4
<1> QED BY <1>4, <1>5

\* Every number of digits is so many stretches.
LEMMA Stretches ==
  ASSUME NEW n \in Nat
  PROVE  \E x, y, z, w \in Nat :
           n = 71 * x + 15 * y + 4 * z + w /\ 15 * y + 4 * z + w <= 70 /\ 4 * z + w <= 14 /\ w <= 3
<1> DEFINE x == n \div 71
           a == n % 71
           y == a \div 15
           b == a % 15
           z == b \div 4
           w == b % 4
<1>1. x \in Nat /\ a \in Nat /\ n = 71 * x + a /\ a <= 70
  OBVIOUS
<1> HIDE DEF x, a
<1>2. y \in Nat /\ b \in Nat /\ a = 15 * y + b /\ b <= 14
  BY <1>1
<1> HIDE DEF y, b
<1>3. z \in Nat /\ w \in Nat /\ b = 4 * z + w /\ w <= 3
  BY <1>2
<1> HIDE DEF z, w
<1>4. n = 71 * x + 15 * y + 4 * z + w /\ 15 * y + 4 * z + w <= 70 /\ 4 * z + w <= 14 /\ w <= 3
  BY <1>1, <1>2, <1>3
<1> QED BY <1>1, <1>2, <1>3, <1>4

\* The bytes set aside are enough: a number of so many digits is less than
\* one more byte would be worth.
LEMMA RoomIsEnough ==
  ASSUME NEW n \in Nat, NEW p, NEW q, Climbing(p, n, q, n + 1), p[0] = 1, q[0] = 1
  PROVE  Room(n) \in 0 .. n+1 /\ p[n] <= q[Room(n)]
<1>1. PICK x, y, z, w \in Nat :
        n = 71 * x + 15 * y + 4 * z + w /\ 15 * y + 4 * z + w <= 70 /\ 4 * z + w <= 14 /\ w <= 3
  BY Stretches
<1> DEFINE r == 52 * x + 11 * y + 3 * z + w
           d == (n * 733) \div 1000
<1>2. d \in Nat /\ 1000 * d <= n * 733 /\ n * 733 < 1000 * (d + 1)
  OBVIOUS
<1> HIDE DEF d
<1>3. r \in Nat /\ r <= d + 1 /\ r <= n
  BY <1>1, <1>2
<1>4. d <= n
  BY <1>2
<1>5. Room(n) = d + 1
  BY DEF Room, d
<1>6. p[n] <= q[r]
  <2>1. n \in Nat /\ Climbing(p, n, q, n) /\ p[0] <= q[0]
    BY DEF Climbing, Scaled
  <2>2. Climbs(p, n, q)
    BY ONLY <2>1, ClimbAll
  <2> QED BY <1>1, <2>2 DEF Climbs
<1> HIDE DEF r
<1>7. q[r] <= q[d + 1]
  <2> DEFINE N == n + 1
             l == d + 1
  <2>1. N \in Nat /\ Scaled(q, N, 256) /\ r \in 0..N /\ l \in r..N
    BY <1>2, <1>3, <1>4 DEF Climbing
  <2> HIDE DEF N, l
  <2>2. q[r] <= q[l]
    BY <2>1, ScaledRises
  <2> QED BY <2>2 DEF l
<1>8. p[n] \in Nat /\ q[r] \in Nat /\ q[d + 1] \in Nat
  BY <1>2, <1>3, <1>4 DEF Climbing, Scaled
<1>9. p[n] <= q[d + 1]
  BY <1>6, <1>7, <1>8
<1> QED BY <1>2, <1>4, <1>5, <1>9

-----------------------------------------------------------------------------
(* What is spelled is decoded.                                             *)

\* Digits after the zeroes stand for less than one more digit would be worth.
LEMMA DigitsAreBelow ==
  ASSUME NEW digits \in Seq(Below(58)), NEW z, ZeroesOf(digits, z),
         NEW V, ReadsAs(V, digits, 58), NEW m, m = Len(digits) - z,
         NEW p, Scaled(p, m, 58), p[0] = 1
  PROVE  \A k \in 0..Len(digits) : V[k] < p[m]
<1> DEFINE n == Len(digits)
           S == {k \in 0..m : V[z + k] < p[k]}
<1>1. n \in Nat /\ z \in 0..n /\ m \in Nat /\ z + m = n /\ digits \in Seq(Nat)
  BY ByteSeqs DEF ZeroesOf
<1>2. \A k \in 0..z : V[k] = 0
  BY <1>1, ZeroSoFar DEF ZeroesOf
<1>3. 0 \in S
  <2>1. z + 0 = z /\ V[z] = 0
    BY <1>1, <1>2
  <2> QED BY <1>1, <2>1
<1>4. ASSUME NEW k \in 0..m-1, k \in S PROVE k + 1 \in S
  <2> DEFINE x == V[z + k]
             y == p[k]
             d == digits[z + k + 1]
  <2>1. /\ z + k + 1 \in 1..n /\ (z + k + 1) - 1 = z + k /\ z + (k + 1) = z + k + 1
        /\ z + k \in 0..n /\ k \in 0..m /\ k + 1 \in 1..m /\ (k + 1) - 1 = k
    BY <1>1
  <2>2. V[z + k + 1] = 58 * x + d
    BY <2>1 DEF ReadsAs
  <2>3. p[k + 1] = 58 * y
    BY <2>1 DEF Scaled
  <2>4. x \in Nat /\ y \in Nat /\ x < y
    BY <1>4, <2>1 DEF ReadsAs, Scaled
  <2>5. d \in Nat /\ d < 58
    BY <2>1, ElementOfSeq DEF Below
  <2> HIDE DEF x, y, d
  <2>6. 58 * x + d < 58 * y
    BY <2>4, <2>5
  <2> QED BY <2>1, <2>2, <2>3, <2>6
<1>5. 0..m \subseteq S
  <2> HIDE DEF S
  <2> QED BY <1>1, <1>3, <1>4, UpTo
<1>6. \A k \in 0..m : p[k] \in Nat /\ p[k] <= p[m]
  <2> TAKE k \in 0..m
  <2>1. m \in k..m /\ 58 \in Nat \ {0}
    BY <1>1
  <2> QED BY <1>1, <2>1, ScaledRises DEF Scaled
<1>7. ASSUME NEW k \in 0..n PROVE V[k] < p[m]
  <2>0. V[k] \in Nat /\ p[m] \in Nat
    <3>1. m \in 0..m
      BY <1>1
    <3> QED BY <1>1, <1>6, <3>1 DEF ReadsAs
  <2>1. CASE k <= z
    <3>1. V[k] = 0 /\ 1 <= p[m]
      BY <1>1, <1>2, <1>6, <2>1
    <3> QED BY <2>0, <3>1
  <2>2. CASE ~(k <= z)
    <3>1. k - z \in 0..m /\ z + (k - z) = k
      BY <1>1, <2>2
    <3>2. V[z + (k - z)] < p[k - z]
      BY <1>5, <3>1
    <3> QED BY <1>6, <2>0, <3>1, <3>2
  <2> QED BY <2>1, <2>2
<1> QED BY <1>7

\* So their number never overflows.
LEMMA NothingOverflows ==
  ASSUME NEW digits \in Seq(Below(58))
  PROVE  NumberOf(digits).over = 0
<1> DEFINE n == Len(digits)
           z == LeadingZeroes(digits)
           m == n - z
           room == Room(m)
           N == Numbers(digits, room)
           V == NumberSoFar(digits, 58)
<1>1. digits \in Seq(Nat) /\ n \in Nat
  BY ByteSeqs
<1>2. ZeroesOf(digits, z) /\ m \in Nat
  BY <1>1, LeadingIs DEF ZeroesOf
<1>3. room \in Nat
  <2> HIDE DEF m
  <2> QED BY <1>2, RoomIsNat
<1>4. NumberOf(digits) = N[n]
  BY DEF NumberOf
<1>5. Folding(N, digits, room)
  <2> HIDE DEF room
  <2> QED BY <1>3, NumbersAre
<1>6. ReadsAs(V, digits, 58)
  BY <1>1, NumberReads
<1>7. PICK p : Scaled(p, m, 58) /\ p[0] = 1
  <2> HIDE DEF m
  <2> QED BY <1>2, ScaledExists
<1>8. PICK q : Scaled(q, m + 1, 256) /\ q[0] = 1
  <2> DEFINE l == m + 1
  <2>1. l \in Nat
    BY <1>2
  <2>2. \E q : Scaled(q, l, 256) /\ q[0] = 1
    <3> HIDE DEF l
    <3> QED BY <2>1, ScaledExists
  <2> QED BY <2>2
<1>9. room \in 0 .. m+1 /\ p[m] <= q[room]
  <2>1. Climbing(p, m, q, m + 1)
    BY <1>7, <1>8 DEF Climbing
  <2> HIDE DEF m
  <2> QED BY <1>2, <1>7, <1>8, <2>1, RoomIsEnough DEF room
<1>10. \A k \in 0..n : V[k] < p[m]
  <2>1. m = Len(digits) - z
    OBVIOUS
  <2> HIDE DEF m, z, V
  <2> QED BY <1>2, <1>6, <1>7, <2>1, DigitsAreBelow
<1> HIDE DEF z, m, room, N, V
<1>11. Scaled(q, room, 256)
  BY <1>2, <1>8, <1>9 DEF Scaled
<1> DEFINE S == {k \in 0..n : N[k].over = 0}
<1>12. 0 \in S
  <2>1. N[0] = [bytes |-> <<>>, over |-> 0]
    BY <1>5 DEF Folding
  <2> QED BY <1>1, <2>1
<1>13. ASSUME NEW k \in 0..n-1, k \in S PROVE k + 1 \in S
  <2> DEFINE b == N[k].bytes
             d == digits[k + 1]
             t == Multiplied(b, d, room)
  <2>1. k + 1 \in 1..n /\ (k + 1) - 1 = k /\ k \in 0..n /\ k + 1 \in 0..n
    BY <1>1
  <2>2. d \in Below(58)
    BY <2>1, ElementOfSeq
  <2>3. b \in Seq(Below(256)) /\ Len(b) <= room
    BY <1>5, <2>1 DEF Folding, Parts
  <2>4. N[k + 1] = t
    BY <1>5, <1>13, <2>1 DEF Folding, OneMore
  <2>5. Number(b, 256) = V[k]
    BY <1>3, <1>5, <1>6, <1>13, <2>1, BytesSoFar
  <2>6. V[k + 1] = 58 * V[k] + d
    BY <1>6, <2>1 DEF ReadsAs
  <2>7. /\ V[k + 1] \in Nat /\ p[m] \in Nat /\ q[room] \in Nat /\ V[k + 1] < p[m]
    <3>1. V[k + 1] \in Nat /\ V[k + 1] < p[m]
      BY <1>6, <1>10, <2>1 DEF ReadsAs
    <3>2. m \in 0..m /\ room \in 0..room
      BY <1>2, <1>3
    <3> QED BY <1>7, <1>11, <3>1, <3>2 DEF Scaled
  <2>8. ASSUME t.over # 0 PROVE FALSE
    <3> HIDE DEF b, d
    <3>1. t = Multiplied(b, d, room)
      OBVIOUS
    <3> HIDE DEF t
    <3>2. q[room] <= 58 * Number(b, 256) + d
      BY <1>3, <1>8, <1>11, <2>2, <2>3, <2>8, <3>1, OverflowIsLarge
    <3>3. q[room] <= V[k + 1]
      BY <2>5, <2>6, <3>2
    <3> QED BY <1>9, <2>7, <3>3
  <2>9. t.over = 0
    BY <2>8
  <2> QED BY <2>1, <2>4, <2>9
<1>14. 0..n \subseteq S
  <2> HIDE DEF S, n
  <2> QED BY <1>1, <1>12, <1>13, UpTo
<1>15. N[n].over = 0
  BY <1>1, <1>14
<1> QED BY <1>4, <1>15

\* A checksum is that many bytes.
LEMMA ChecksumBytes ==
  ASSUME CheckSize \in Nat, NEW s \in Seq(Nat)
  PROVE  Checksum(s) \in Seq(Below(256)) /\ Len(Checksum(s)) = CheckSize
<1>1. Number(s, 1) \in Nat
  BY NumberIsNat
<1> DEFINE v == Number(s, 1)
           C == [k \in 1..CheckSize |-> (7 + k + v) % 256]
<1> HIDE DEF v
<1>2. \A k \in 1..CheckSize : (7 + k + v) % 256 \in Below(256)
  <2> TAKE k \in 1..CheckSize
  <2> DEFINE x == 7 + k + v
  <2>1. x \in Nat
    BY <1>1 DEF v
  <2> HIDE DEF x
  <2>2. x % 256 \in Below(256)
    BY <2>1, ByteRest
  <2> QED BY <2>2 DEF x
<1>3. C \in Seq(Below(256)) /\ Len(C) = CheckSize
  BY <1>2
<1>4. Checksum(s) = C
  BY DEF Checksum, Byte, v
<1> QED BY <1>3, <1>4

\* What spells bytes and their checksum is decoded into the bytes.
LEMMA SpelledIsDecoded ==
  ASSUME CheckSize \in Nat, Bad \notin Below(58),
         NEW digits \in Seq(Below(58) \cup {Bad}),
         NEW P \in Seq(Below(256)), P # <<>>, Spells(digits, P \o Checksum(P))
  PROVE  decode_base58check(digits) = P
<1> DEFINE C == Checksum(P)
           B == P \o C
           D == BytesOf(digits)
<1>1. \A k \in DOMAIN digits : digits[k] # Bad
  BY DEF Spells
<1>2. digits \in Seq(Below(58))
  <2>1. \A k \in 1..Len(digits) : digits[k] \in Below(58)
    <3> TAKE k \in 1..Len(digits)
    <3>1. k \in DOMAIN digits
      OBVIOUS
    <3>2. digits[k] \in Below(58) \cup {Bad}
      BY ElementOfSeq
    <3> QED BY <1>1, <3>1, <3>2
  <2> QED BY <2>1
<1>3. C \in Seq(Below(256)) /\ Len(C) = CheckSize
  BY ByteSeqs, ChecksumBytes
<1>4. /\ LeadingZeroes(digits) = LeadingZeroes(B)
      /\ Number(digits, 58) = Number(B, 256)
  BY DEF Spells, Radix, Byte
<1>5. NumberOf(digits).over = 0
  BY <1>2, NothingOverflows
<1>6. /\ D \in Seq(Below(256)) /\ LeadingZeroes(D) = LeadingZeroes(digits)
      /\ Number(D, 256) = Number(digits, 58)
  BY <1>2, <1>5, BytesSpell
<1>7. digits # <<>>
  <2> SUFFICES ASSUME digits = <<>> PROVE FALSE
    OBVIOUS
  <2>1. <<>> \in Seq(Below(256)) /\ B \in Seq(Below(256)) /\ B # <<>>
    BY <1>3
  <2>2. Number(<<>>, 58) = 0 /\ Number(<<>>, 256) = 0
    BY NothingIsZero
  <2> HIDE DEF B
  <2>3. LeadingZeroes(<<>>) = LeadingZeroes(B) /\ Number(<<>>, 256) = Number(B, 256)
    BY <1>4, <2>2
  <2>4. <<>> = B
    BY <2>1, <2>3, SameBytes
  <2> QED BY <2>1, <2>4
<1>8. D = B
  <2>1. B \in Seq(Below(256))
    BY <1>3
  <2> HIDE DEF B, D
  <2> QED BY <1>4, <1>6, <2>1, SameBytes
<1> DEFINE size == Len(D) - CheckSize
<1>9. /\ size = Len(P) /\ ~(size < 1)
      /\ SubSeq(D, 1, size) = P /\ SubSeq(D, size + 1, Len(D)) = C
  <2> HIDE DEF C
  <2>1. Len(B) = Len(P) + CheckSize /\ Len(P) \in Nat \ {0}
    BY <1>3
  <2>2. SubSeq(B, 1, Len(P)) = P
    BY <1>3
  <2>3. SubSeq(B, Len(P) + 1, Len(P) + Len(C)) = C
    BY <1>3
  <2>4. size = Len(P) /\ Len(D) = Len(P) + Len(C)
    BY <1>3, <1>8, <2>1
  <2> QED BY <1>8, <2>1, <2>2, <2>3, <2>4
<1>10. decode_base58check(digits)
         = IF NumberOf(digits).over # 0 \/ size < 1 THEN <<>>
           ELSE IF SubSeq(D, size + 1, Len(D)) # Checksum(SubSeq(D, 1, size)) THEN <<>>
           ELSE SubSeq(D, 1, size)
  BY <1>1, <1>7, DecodeIs
<1> QED BY <1>5, <1>9, <1>10

=============================================================================
