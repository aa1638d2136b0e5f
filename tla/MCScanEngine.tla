---------------------------- MODULE MCScanEngine ----------------------------
(* A small instance of ScanEngine for TLC.                                 *)
EXTENDS ScanEngine

\* Headers 1 and 3 have one midstate and differ in the time at 68; header 2
\* has another midstate.
MCHeader == [j \in 1..3 |->
  [k \in 1..80 |-> IF <<k - 1, j>> \in {<<40, 2>>, <<68, 3>>} THEN <<255>>
                   ELSE <<(17 * k - 6) % 256>>]]

\* The partition crosses a boundary of bytes of the nonce.
MCPartition == [start |-> 254, size |-> 6]

\* Two nonces of every job may be shares, one of every difficulty, one of
\* difficulty 1 only; the jobs' shares are at different nonces.
MCDigests == {
  [k \in (1..3) \X (254..259) |->
     LET at == (k[2] - 254 + k[1]) % 6
     IN  IF at = a THEN <<0, 0, 2>> ELSE IF at = (a + b) % 7 THEN <<0, 2, 0>>
         ELSE IF at % 2 = 0 THEN <<1, 0, 0>> ELSE <<0, 2, 1>>] : a \in 0..6, b \in 1..3}

\* Blocks chosen by the engine and more than the grid takes; threads that
\* do not fit; chunks left to the engine and given.
MCConfigs == {
  [device |-> 0, blocks |-> 0, threads |-> 2, chunk |-> 0],
  [device |-> 0, blocks |-> 3, threads |-> 1, chunk |-> 7],
  [device |-> 0, blocks |-> 1, threads |-> 3, chunk |-> 0],
  [device |-> 1, blocks |-> 1, threads |-> 1, chunk |-> 2]}

MCGpus == 0 :> [sms |-> 1, max_grid |-> 2]

=============================================================================
