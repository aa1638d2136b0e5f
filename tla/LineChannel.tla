---------------------------- MODULE LineChannel ----------------------------
(***************************************************************************)
(* What LineSocket (src/src/pool_miner.cpp) promises to the thread that    *)
(* reads: the pool's lines, whole, in their order and once each.  A        *)
(* connection that ends takes the lines with it that were not read.        *)
(***************************************************************************)
EXTENDS Sequences, SequencesExt

CONSTANT Lines   \* the lines the pool may send, each at most once

VARIABLES
  queue,   \* the lines sent and not read
  read     \* the lines read, in their order

channelVars == <<queue, read>>

Init == queue = <<>> /\ read = <<>>

Send(l) ==
  /\ \A r \in ToSet(queue) \cup ToSet(read) : r # l
  /\ queue' = Append(queue, l)
  /\ UNCHANGED read

Read ==
  /\ queue # <<>>
  /\ read' = Append(read, queue[1])
  /\ queue' = Tail(queue)

Lose ==
  /\ \E n \in 0 .. Len(queue) - 1 : queue' = SubSeq(queue, 1, n)
  /\ UNCHANGED read

Next == (\E l \in Lines : Send(l)) \/ Read \/ Lose

Spec == Init /\ [][Next]_channelVars

=============================================================================
