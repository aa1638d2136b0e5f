--------------------------- MODULE AddressDecoder ---------------------------
(***************************************************************************)
(* Addresses into output scripts (src/src/address_decoder.cpp).  A text is *)
(* [form |-> "base58", digits |-> indices in the alphabet, Bad for others] *)
(* or, when it starts with bc1, tb1 or bcrt1 in any case, a record         *)
(* [form |-> "bech32", mixed, values, sum]: whether it mixes cases, the    *)
(* values after its last 1, and which checksum they have.  The radices and *)
(* the bits are the code's; the sizes of hashes, checksums and programs    *)
(* are scaled.  External: the checksum of a payload (Checksum).            *)
(***************************************************************************)
EXTENDS Integers, Sequences

CONSTANTS
  HashSize,      \* 20: bytes of a base58 payload
  CheckSize,     \* 4: bytes of its checksum
  V0Sizes,       \* {20, 32}: sizes of a version 0 program
  V1Sizes,       \* 2..40: of the others
  Bad            \* the index of a character outside the alphabet

Radix == 58
Byte == 256

\* The numbers that the first digits of a sequence stand for.
NumberSoFar(digits, radix) ==
  LET number[k \in 0..Len(digits)] ==
        IF k = 0 THEN 0 ELSE radix * number[k - 1] + digits[k]
  IN  number

Number(digits, radix) == NumberSoFar(digits, radix)[Len(digits)]

\* Stands for the first bytes of sha256d: some function of the payload.
Checksum(payload) == [k \in 1..CheckSize |-> (7 + k + Number(payload, 1)) % Byte]

Failed(why) == [ok |-> FALSE, throws |-> FALSE, script |-> <<>>, error |-> why]
Throws == [Failed("length_error") EXCEPT !.throws = TRUE]
Script(bytes) == [ok |-> TRUE, throws |-> FALSE, script |-> bytes, error |-> ""]

-----------------------------------------------------------------------------
(* base58check                                                             *)

LeadingZeroes(digits) ==
  CHOOSE n \in 0..Len(digits) :
    /\ \A k \in 1..n : digits[k] = 0
    /\ n < Len(digits) => digits[n + 1] # 0

\* The carries of bytes * 58 + value: the k-th goes into the k-th byte from
\* the end, 0 the last.
Carries(bytes, value, room) ==
  LET count == Len(bytes)
      carry[k \in 0..room] ==
        IF k = 0 THEN value
        ELSE (carry[k - 1] + (IF k <= count THEN Radix * bytes[count - k + 1] ELSE 0)) \div Byte
  IN  carry

\* The carry goes up through the bytes so far and then to one more while the
\* digits have room; over is what finds none.
Multiplied(bytes, value, room) ==
  LET count == Len(bytes)
      carry == Carries(bytes, value, room)
      digit(k) == (carry[k] + (IF k < count THEN Radix * bytes[count - k] ELSE 0)) % Byte
      length == CHOOSE n \in 0..room :
                  /\ n >= count /\ (n = room \/ carry[n] = 0)
                  /\ \A m \in count .. n - 1 : carry[m] # 0
  IN  [bytes |-> [k \in 1..length |-> digit(length - k)], over |-> carry[length]]

\* The number after so many digits; an overflow ends it.
Numbers(digits, room) ==
  LET number[k \in 0..Len(digits)] ==
        IF k = 0 THEN [bytes |-> <<>>, over |-> 0]
        ELSE LET n == number[k - 1]
             IN  IF n.over # 0 THEN n ELSE Multiplied(n.bytes, digits[k], room)
  IN  number

\* Mutant: the leading ones of the text are not kept.
NoLeading(decoded, zeroes) == decoded

WithLeading(decoded, zeroes) == [k \in 1..zeroes |-> 0] \o decoded

\* The bytes set aside for a number of so many digits.
Room(digits) == ((digits * 733) \div 1000) + 1

decode_base58check(digits) ==
  LET zeroes == LeadingZeroes(digits)
      number == Numbers(digits, Room(Len(digits) - zeroes))[Len(digits)]
      decoded == WithLeading(number.bytes, zeroes)
      size == Len(decoded) - CheckSize
  IN  IF digits = <<>> \/ (\E k \in DOMAIN digits : digits[k] = Bad)
         \/ number.over # 0 \/ size < 1
      THEN <<>>
      ELSE IF SubSeq(decoded, size + 1, Len(decoded)) # Checksum(SubSeq(decoded, 1, size))
           THEN <<>>
      ELSE SubSeq(decoded, 1, size)

\* P2PKH and P2SH, of the main network and of the test networks.
build_script_from_version(payload, version) ==
  IF Len(payload) # HashSize THEN Failed("size")
  ELSE IF version \in {0, 111}
       THEN Script(<<118, 169, HashSize>> \o payload \o <<136, 172>>)
  ELSE IF version \in {5, 196}
       THEN Script(<<169, HashSize>> \o payload \o <<135>>)
  ELSE Failed("version")

-----------------------------------------------------------------------------
(* bech32                                                                  *)

\* Mutant: the bits that are left over are not looked at.
PaddingIgnored(acc, bits) == TRUE

\* What is left over is less than a value and zero.
PaddingFits(acc, bits) == bits < 5 /\ (acc * 2 ^ (8 - bits)) % Byte = 0

\* The bits of a value after those that wait, and a byte once there are 8.
TakeBits(s, value) ==
  LET acc == (s.acc * 32 + value) % 2 ^ 12
      bits == s.bits + 5
  IN  IF bits < 8 THEN [s EXCEPT !.acc = acc, !.bits = bits]
      ELSE [acc |-> acc, bits |-> bits - 8,
            out |-> Append(s.out, (acc \div 2 ^ (bits - 8)) % Byte)]

Conversion(values) ==
  LET state[k \in 0..Len(values)] ==
        IF k = 0 THEN [acc |-> 0, bits |-> 0, out |-> <<>>] ELSE TakeBits(state[k - 1], values[k])
  IN  state

\* Values of 5 bits into bytes, without padding.
convert_bits(values) ==
  LET end == Conversion(values)[Len(values)]
  IN  [ok |-> PaddingFits(end.acc, end.bits), bytes |-> end.out]

\* With nothing but a checksum the size of the program underflows, and
\* vector::reserve throws.
decode_bech32(text) ==
  LET values == text.values
      version == values[1]
      program == convert_bits(SubSeq(values, 2, Len(values) - 6))
      size == Len(program.bytes)
  IN  IF text.mixed \/ Len(values) < 6 \/ (\E k \in DOMAIN values : values[k] = Bad)
         \/ text.sum = "none" \/ version > 16
      THEN Failed("bech32")
      ELSE IF Len(values) = 6 THEN Throws
      ELSE IF /\ program.ok
              /\ version = 0 => text.sum = "bech32" /\ size \in V0Sizes
              /\ version # 0 => text.sum = "bech32m" /\ size \in V1Sizes
           THEN Script(<<IF version = 0 THEN 0 ELSE 80 + version, size>> \o program.bytes)
      ELSE Failed("program")

decode_bitcoin_address_script(text) ==
  IF text.form = "bech32" THEN decode_bech32(text)
  ELSE LET decoded == decode_base58check(text.digits)
       IN  IF decoded = <<>> THEN Failed("base58check")
           ELSE build_script_from_version(Tail(decoded), Head(decoded))

-----------------------------------------------------------------------------
(* What an address says, from the other side: the texts of payloads.       *)

\* A sequence of bytes spelled in the alphabet, whose first index is the
\* digit 0 and spells a leading byte 0.
Spells(digits, bytes) ==
  /\ \A k \in DOMAIN digits : digits[k] # Bad
  /\ LeadingZeroes(digits) = LeadingZeroes(bytes)
  /\ Number(digits, Radix) = Number(bytes, Byte)

\* The bits of values of 5 are those of bytes and then at most four zeros.
Packs(values, bytes) ==
  LET pad == 5 * Len(values) - 8 * Len(bytes)
  IN  pad \in 0..4 /\ Number(values, 32) = Number(bytes, Byte) * 2 ^ pad

=============================================================================
