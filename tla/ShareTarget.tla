---------------------------- MODULE ShareTarget ----------------------------
(***************************************************************************)
(* Targets of shares (src/src/pool_miner.cpp): the division of the target  *)
(* of difficulty 1 by a difficulty, word by word, and the comparison of a  *)
(* hash with a target on the CPU and the GPU.  The code has eight words of *)
(* 32 bits and 64-bit intermediates; here Words words below Word, and      *)
(* intermediates below Word * Word.  A Uint256 is the function w of the code,   *)
(* from 0 (least significant).  Difficulties are in halves, so that there  *)
(* are fractions to floor.                                                 *)
(***************************************************************************)
EXTENDS Integers

CONSTANTS
  Words,      \* words of a target
  Word,       \* values of a word
  HighHalf    \* the word with the upper half of its bits set, 0xFFFF0000

ASSUME TargetAssumption ==
  /\ Words \in Nat /\ Words >= 2
  /\ Word \in Nat /\ Word >= 2 /\ HighHalf \in 1 .. Word - 1

kDiff1Target == [i \in 0 .. Words-1 |-> IF i = Words - 2 THEN HighHalf ELSE 0]

\* The whole difficulty a difficulty of halves/2 is divided by.
integer_diff(halves) ==
  LET bounded == IF halves <= 0 THEN 2 ELSE halves
  IN  IF bounded \div 2 = 0 THEN 1 ELSE bounded \div 2

\* Mutant: the remainder of a position is dropped.
DivideWordAlone(rem, i, diff) ==
  [q |-> kDiff1Target[i] \div diff, rem |-> kDiff1Target[i] % diff]

\* The word at position i of the quotient and the remainder passed on to
\* the next position, in intermediates of two words.
DivideWord(rem, i, diff) ==
  LET cur == ((rem * Word) % (Word * Word)) + kDiff1Target[i]
  IN  [q |-> (cur \div diff) % Word, rem |-> cur % diff]

target_from_difficulty(halves) ==
  LET diff == integer_diff(halves)
      rem[i \in 0..Words] ==   \* what position i passes down
        IF i = Words THEN 0 ELSE DivideWord(rem[i + 1], i, diff).rem
  IN  [i \in 0 .. Words-1 |-> DivideWord(rem[i + 1], i, diff).q]

\* hash_be[1] is the most significant word of a hash.
hash_be_meets_target(hash_be, target) ==
  \/ \A i \in 1..Words : hash_be[i] = target[Words - i]
  \/ \E i \in 1..Words :
       /\ hash_be[i] < target[Words - i]
       /\ \A k \in 1..i-1 : hash_be[k] = target[Words - k]

\* The same comparison in the kernel.
hash_be_meets_target_le(hash_be, target) == hash_be_meets_target(hash_be, target)

-----------------------------------------------------------------------------
\* The integers that words stand for: hash_be[1] has the most significant.
HashValue(hash_be) ==
  LET v[k \in 0..Words] == IF k = 0 THEN 0 ELSE v[k - 1] * Word + hash_be[k]
  IN  v[Words]

TargetValue(target) == HashValue([k \in 1..Words |-> target[Words - k]])

=============================================================================
