---------------------------- MODULE MCPoolMiner ----------------------------
(* Small instances of PoolMiner for TLC.                                   *)
EXTENDS PoolShares, TLC

\* Workers are interchangeable: no definition tells one from another.
WorkerSymmetry == Permutations(Workers)

=============================================================================
