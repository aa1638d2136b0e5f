---------------------------- MODULE MCSoloMiner ----------------------------
(* Small instances of SoloMiner for TLC.                                   *)
EXTENDS SoloMiner, TLC

\* Workers are interchangeable: no definition tells one from another.
WorkerSymmetry == Permutations(Workers)

=============================================================================
