--------------------------- MODULE NoncePartition ---------------------------
(***************************************************************************)
(* split_nonce_space (src/include/nonce_partition.h): how the 32-bit nonce *)
(* space is cut into one range per worker.  The products in the code are   *)
(* below 2^64 for any number of devices (index < 2^32), so they do not wrap*)
(* and the integers here are unbounded.                                    *)
(***************************************************************************)
EXTENDS Integers

CONSTANT NonceSpace   \* kNonceSpace, 2^32 in the code

ASSUME NonceSpaceAssumption == NonceSpace \in Nat \ {0}

\* Where the range of a worker begins, and the one before it ends.
Cut(index, count) == (NonceSpace * index) \div count

Clamped(index, count) == IF index < count THEN index ELSE count - 1

split_nonce_space(index, count) ==
  IF count = 0
    THEN [start |-> 0, size |-> NonceSpace]
    ELSE LET i == Clamped(index, count)
         IN  [start |-> Cut(i, count), size |-> Cut(i + 1, count) - Cut(i, count)]

\* The nonces of a range.
NoncesOf(range) == range.start .. range.start + range.size - 1

=============================================================================
