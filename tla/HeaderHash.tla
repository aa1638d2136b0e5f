----------------------------- MODULE HeaderHash -----------------------------
(***************************************************************************)
(* How a header is hashed: byte by byte on the CPU (src/src/sha256_cpu.cpp)*)
(* and from a midstate, three words and a nonce on the GPU                 *)
(* (sha256d_hash_words_be in src/src/sha256_benchmark.cu).  The sizes are  *)
(* the code's.  A byte b of data is <<b>>; a word is the sequence of its   *)
(* four bytes, the most significant first.  The compression function is a  *)
(* pair of its arguments: it only tells different messages apart.          *)
(***************************************************************************)
EXTENDS Integers, SequencesExt

\* The four bytes of a number below 2^31, as a word.
WordOf(n) == << <<(n \div 16777216) % 256>>, <<(n \div 65536) % 256>>,
                <<(n \div 256) % 256>>, <<n % 256>> >>

Zeros(n) == [k \in 1..n |-> <<0>>]

\* The word at a byte offset, read in the one order or the other.
load_be32(bytes, at) == SubSeq(bytes, at + 1, at + 4)
load_le32(bytes, at) == Reverse(load_be32(bytes, at))

\* The bytes with a word stored at an offset, the least significant first.
store_le32(word, bytes, at) ==
  [k \in DOMAIN bytes |-> IF k \in at + 1 .. at + 4 THEN Reverse(word)[k - at] ELSE bytes[k]]

\* Mutant: the nonce goes into the block as it stands.
no_bswap32(word) == word

bswap32(word) == Reverse(word)

kInit == <<>>
sha256_compress(state, block) == <<state, block>>

\* The eight words of a state, and its bytes.
StateWords(state) == [i \in 1..8 |-> [j \in 1..4 |-> <<state, i, j>>]]
write_digest(state) == [k \in 1..32 |-> StateWords(state)[((k - 1) \div 4) + 1][((k - 1) % 4) + 1]]

\* Block b (from 0) of padded data as sixteen words.
Block(bytes, b) == [i \in 1..16 |-> load_be32(bytes, 64 * b + 4 * (i - 1))]

\* Data with the bit 1, zeros and its length in bits.
Padded(data) ==
  LET rem == Len(data) % 64
      tail_size == IF rem >= 56 THEN 128 ELSE 64
  IN  data \o <<<<128>>>> \o Zeros(tail_size - rem - 1 - 4) \o WordOf(8 * Len(data))

sha256_state(data) ==
  LET padded == Padded(data)
      state[b \in 0 .. Len(padded) \div 64] ==   \* after b blocks
        IF b = 0 THEN kInit ELSE sha256_compress(state[b - 1], Block(padded, b - 1))
  IN  state[Len(padded) \div 64]

sha256(data) == write_digest(sha256_state(data))

\* The final state of the double hash on the CPU, whose words are the digest.
sha256d(data) == sha256_state(sha256(data))

\* What a worker passes to the GPU for a header.
build_midstate_from_header(header) ==
  [midstate |-> sha256_compress(kInit, Block(header, 0)),
   tail     |-> <<load_be32(header, 64), load_be32(header, 68), load_be32(header, 72)>>]

\* The first word after the data of a block.
PadWord == <<<<128>>, <<0>>, <<0>>, <<0>>>>

\* The final state of the double hash on the GPU, whose words are the digest.
sha256d_hash_words_be(midstate, tail, nonce_le) ==
  LET zero == WordOf(0)
      block1 == tail \o <<bswap32(nonce_le), PadWord>>
                  \o [i \in 1..10 |-> zero] \o <<WordOf(640)>>
      state1 == sha256_compress(midstate, block1)
      block2 == StateWords(state1) \o <<PadWord>>
                  \o [i \in 1..6 |-> zero] \o <<WordOf(256)>>
  IN  sha256_compress(kInit, block2)

\* The header a worker checks for a nonce it was given: pool_miner.cpp:960,
\* solo_miner.cpp:1478.
verify_header(header, nonce) == store_le32(WordOf(nonce), header, 76)

=============================================================================
