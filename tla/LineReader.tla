----------------------------- MODULE LineReader -----------------------------
(***************************************************************************)
(* What the reader of the connection promises (read_line in                *)
(* src/src/pool_miner.cpp): the stream of LineSocket, cut into lines, is a *)
(* channel of whole lines.                                                 *)
(***************************************************************************)
EXTENDS LineSocket, SequencesExt

Whole == {[k \in 1..Pieces |-> [line |-> n, piece |-> k, on |-> c]] :
            n \in 1..MaxPoolLines, c \in 1..MaxConnections}

\* The stream as lines, what is left of it without its newline cut off.
Ends(stream) == {k \in DOMAIN stream : stream[k].piece = Pieces}

RECURSIVE LinesIn(_)
LinesIn(stream) ==
  IF Ends(stream) = {} THEN <<>>
  ELSE LET n == Min(Ends(stream))
       IN  <<SubSeq(stream, 1, n)>> \o LinesIn(SubSeq(stream, n + 1, Len(stream)))

Channel == INSTANCE LineChannel
  WITH Lines <- Whole, queue <- LinesIn(buffer_ \o incoming), read <- read

\* The reader gets the pool's lines as the channel promises, however they
\* are cut on their way, and never a line made of two connections.
ReadsAsAChannel == Channel!Spec

\* Every line that has arrived is read, or lost with its connection.
LinesAreRead ==
  \A l \in Whole :
    (\E k \in DOMAIN LinesIn(buffer_ \o incoming) : LinesIn(buffer_ \o incoming)[k] = l)
      ~> (mpc = "end" \/ \A k \in DOMAIN LinesIn(buffer_ \o incoming) :
                            LinesIn(buffer_ \o incoming)[k] # l)

=============================================================================
