----------------------------- MODULE LineSocket -----------------------------
(***************************************************************************)
(* The pool's TCP connection as lines (LineSocket in                       *)
(* src/src/pool_miner.cpp) and the threads that use it: workers that send  *)
(* shares under socket_mutex, and the main thread, which reads, answers    *)
(* under the mutex, and closes, connects and subscribes without it.        *)
(*                                                                         *)
(* A line is a sequence of pieces, the last one with its newline; send and *)
(* recv move any number of pieces.  External: the network, which delivers  *)
(* in order and may break a connection, losing what was not received.      *)
(***************************************************************************)
EXTENDS Integers, Sequences

CONSTANTS
  Workers,
  Main,             \* the main thread
  Pieces,           \* bound: pieces of a line
  MaxShares,        \* bound: lines a worker sends
  MaxConnections,   \* bound: connections made
  MaxPoolLines      \* bound: lines the pool sends

None == "none"

ASSUME LineAssumption ==
  /\ Main \notin Workers /\ None \notin Workers \cup {Main}
  /\ Pieces \in Nat \ {0} /\ MaxShares \in Nat /\ MaxConnections \in Nat \ {0} /\ MaxPoolLines \in Nat

VARIABLES
  sock_,        \* the connection, numbered, or 0 for kInvalidSocket
  connections,  \* how many there were
  ended,        \* how the current one is: "no", "closed" by the pool, "reset"
  buffer_,      \* pieces received and not yet read
  incoming,     \* pieces the pool has sent on the connection, not received
  pool_line,    \* the line the pool is at
  pool_piece,   \* how many of its pieces are sent
  wire,         \* history: what each connection carried to the pool
  socket_mutex, \* who holds it
  socket_needs_reconnect,
  left,         \* pieces of its line a thread still has to send
  shares,       \* lines a worker has begun
  mpc,          \* where the main thread is
  read          \* history: the lines read

netVars == <<sock_, connections, ended, incoming, pool_line, pool_piece>>
sendVars == <<wire, socket_mutex, left, shares>>
vars == <<netVars, sendVars, buffer_, socket_needs_reconnect, mpc, read>>

Threads == Workers \cup {Main}

Init ==
  /\ sock_ = 1 /\ connections = 1 /\ ended = "no"
  /\ buffer_ = <<>> /\ incoming = <<>> /\ pool_line = 1 /\ pool_piece = 0
  /\ wire = [c \in 1..MaxConnections |-> <<>>]
  /\ socket_mutex = None /\ socket_needs_reconnect = FALSE
  /\ left = [t \in Threads |-> 0] /\ shares = [w \in Workers |-> 0]
  /\ mpc = "start" /\ read = <<>>

-----------------------------------------------------------------------------
(* send_line                                                               *)

\* Mutant: the mutex is waited for by the main thread alone.
NotWaited(t) == t = Main => socket_mutex = None

FreeFor(t) == socket_mutex = None

\* A thread takes the mutex for a line; without a socket nothing is sent.
StartLine(w) ==
  /\ mpc # "end" /\ left[w] = 0 /\ shares[w] < MaxShares /\ FreeFor(w)
  /\ shares' = [shares EXCEPT ![w] = @ + 1]
  /\ IF sock_ = 0
     THEN socket_needs_reconnect' = TRUE /\ UNCHANGED <<socket_mutex, left>>
     ELSE /\ socket_mutex' = w /\ left' = [left EXCEPT ![w] = Pieces]
          /\ UNCHANGED socket_needs_reconnect
  /\ UNCHANGED <<netVars, wire, buffer_, mpc, read>>

LineOf(t) == IF t = Main THEN connections ELSE shares[t]

Released(t) == IF socket_mutex = t THEN None ELSE socket_mutex

\* send on the socket as it is now, which may be another than for the
\* pieces before.
SendPart(t) ==
  /\ left[t] > 0 /\ sock_ # 0 /\ ended # "reset"
  /\ \E n \in 1..left[t] :
       /\ wire' = [wire EXCEPT ![sock_] = @ \o
                     [k \in 1..n |-> [from |-> t, line |-> LineOf(t), piece |-> Pieces - left[t] + k]]]
       /\ left' = [left EXCEPT ![t] = @ - n]
  /\ socket_mutex' = IF left'[t] = 0 THEN Released(t) ELSE socket_mutex
  /\ mpc' = IF t = Main /\ left'[t] = 0 THEN "loop" ELSE mpc
  /\ UNCHANGED <<netVars, shares, buffer_, socket_needs_reconnect, read>>

\* When the main thread cannot subscribe at first, or answer, the program
\* ends; when it cannot subscribe again it reconnects, like the workers.
SendFails(t) ==
  /\ left[t] > 0 /\ (sock_ = 0 \/ ended # "no")
  /\ ended' = IF sock_ = 0 THEN ended ELSE "reset"
  /\ left' = [left EXCEPT ![t] = 0]
  /\ socket_mutex' = Released(t)
  /\ socket_needs_reconnect' = TRUE
  /\ mpc' = IF t # Main THEN mpc ELSE IF mpc = "resubscribing" THEN "loop" ELSE "end"
  /\ UNCHANGED <<sock_, connections, incoming, pool_line, pool_piece, wire, shares, buffer_, read>>

-----------------------------------------------------------------------------
(* The main thread: its first line, its answers, read_line.                *)

MainSends(from) ==
  /\ mpc = from /\ left[Main] = 0 /\ FreeFor(Main)
  /\ socket_mutex' = Main
  /\ left' = [left EXCEPT ![Main] = Pieces]
  /\ UNCHANGED <<netVars, wire, shares, buffer_, socket_needs_reconnect, mpc, read>>

\* Mutant: lines that were received together wait for the next recv.
AfterRecv(buffer, where) == where = "draining" /\ \E k \in DOMAIN buffer : buffer[k].piece = Pieces

HasLine(buffer, where) == \E k \in DOMAIN buffer : buffer[k].piece = Pieces

GoTo(next) == mpc' = next

ReadLine ==
  /\ mpc = "loop" /\ ~socket_needs_reconnect
  /\ GoTo("reading")
  /\ UNCHANGED <<netVars, sendVars, buffer_, socket_needs_reconnect, read>>

Reading == mpc \in {"reading", "draining"}

LineEnd == CHOOSE n \in DOMAIN buffer_ :
             /\ buffer_[n].piece = Pieces
             /\ \A k \in 1 .. n - 1 : buffer_[k].piece # Pieces

\* A line that asks for an answer, or one that does not.
ReturnLine ==
  /\ Reading /\ HasLine(buffer_, mpc)
  /\ read' = Append(read, SubSeq(buffer_, 1, LineEnd))
  /\ buffer_' = SubSeq(buffer_, LineEnd + 1, Len(buffer_))
  /\ GoTo("answer") \/ GoTo("loop")
  /\ UNCHANGED <<netVars, sendVars, socket_needs_reconnect>>

\* After the first recv the rest is drained without blocking.
Recv ==
  /\ Reading /\ ~HasLine(buffer_, mpc) /\ incoming # <<>>
  /\ \E n \in 1..Len(incoming) :
       /\ buffer_' = buffer_ \o SubSeq(incoming, 1, n)
       /\ incoming' = SubSeq(incoming, n + 1, Len(incoming))
  /\ GoTo("draining")
  /\ UNCHANGED <<sock_, connections, ended, pool_line, pool_piece, sendVars,
                 socket_needs_reconnect, read>>

ReturnTimeout ==
  /\ Reading /\ ~HasLine(buffer_, mpc) /\ incoming = <<>> /\ ended = "no"
  /\ GoTo("loop")
  /\ UNCHANGED <<netVars, sendVars, buffer_, socket_needs_reconnect, read>>

ReturnClosed ==
  /\ Reading /\ ~HasLine(buffer_, mpc) /\ incoming = <<>> /\ ended # "no"
  /\ socket_needs_reconnect' = TRUE
  /\ GoTo("loop")
  /\ UNCHANGED <<netVars, sendVars, buffer_, read>>

-----------------------------------------------------------------------------
(* reconnect_session                                                       *)

\* clear_pending_submits waits for the mutex.
Reconnect ==
  /\ mpc = "loop" /\ socket_needs_reconnect /\ FreeFor(Main)
  /\ GoTo("closing")
  /\ UNCHANGED <<netVars, sendVars, buffer_, socket_needs_reconnect, read>>

\* Mutant: what was received stays.
Kept(buffer) == buffer

Cleared(buffer) == <<>>

Close ==
  /\ mpc = "closing"
  /\ sock_' = 0 /\ incoming' = <<>> /\ pool_piece' = 0
  /\ buffer_' = Cleared(buffer_)
  /\ GoTo("connecting")
  /\ UNCHANGED <<connections, ended, pool_line, sendVars, socket_needs_reconnect, read>>

\* connect_to after the sleep; when it fails the flag is still up.
Connect ==
  /\ mpc = "connecting" /\ connections < MaxConnections
  /\ connections' = connections + 1 /\ sock_' = connections' /\ ended' = "no"
  /\ GoTo("announcing")
  /\ UNCHANGED <<incoming, pool_line, pool_piece, sendVars, buffer_, socket_needs_reconnect, read>>

ConnectFails ==
  /\ mpc = "connecting"
  /\ GoTo("loop")
  /\ UNCHANGED <<netVars, sendVars, buffer_, socket_needs_reconnect, read>>

\* Mutant: the message is printed without the mutex.
AnnouncesAtOnce == TRUE

CanAnnounce == FreeFor(Main)

\* "Reconnected" is printed under the mutex, then the flag is cleared.
Announce ==
  /\ mpc = "announcing" /\ CanAnnounce
  /\ socket_needs_reconnect' = FALSE
  /\ GoTo("resubscribing")
  /\ left' = [left EXCEPT ![Main] = Pieces]
  /\ UNCHANGED <<netVars, wire, socket_mutex, shares, buffer_, read>>

-----------------------------------------------------------------------------
(* The network.                                                            *)

PoolSends ==
  /\ sock_ # 0 /\ ended = "no" /\ pool_line <= MaxPoolLines
  /\ incoming' = Append(incoming, [line |-> pool_line, piece |-> pool_piece + 1, on |-> sock_])
  /\ pool_piece' = (pool_piece + 1) % Pieces
  /\ pool_line' = IF pool_piece' = 0 THEN pool_line + 1 ELSE pool_line
  /\ UNCHANGED <<sock_, connections, ended, sendVars, buffer_, socket_needs_reconnect, mpc, read>>

\* The pool closes the connection, which may take what is sent still for a
\* while, or it is reset.
Break ==
  /\ sock_ # 0 /\ ended = "no"
  /\ ended' \in {"closed", "reset"}
  /\ \E n \in 0..Len(incoming) : incoming' = SubSeq(incoming, 1, n)
  /\ UNCHANGED <<sock_, connections, pool_line, pool_piece, sendVars, buffer_,
                 socket_needs_reconnect, mpc, read>>

\* The workers have been joined.
Ended == mpc = "end" /\ UNCHANGED vars

MainStep ==
  \/ MainSends("start") \/ MainSends("answer") \/ SendPart(Main) \/ SendFails(Main)
  \/ ReadLine \/ ReturnLine \/ Recv \/ ReturnTimeout \/ ReturnClosed
  \/ Reconnect \/ Close \/ Connect \/ ConnectFails \/ Announce

SendStep(w) == SendPart(w) \/ SendFails(w)

Next ==
  \/ MainStep
  \/ \E w \in Workers : StartLine(w) \/ SendStep(w)
  \/ PoolSends \/ Break \/ Ended

\* The threads run; a send returns, and the mutex is not kept from the main
\* thread forever.
Fairness ==
  /\ WF_vars(MainStep)
  /\ \A w \in Workers : WF_vars(SendStep(w))

Spec == Init /\ [][Next]_vars /\ Fairness

-----------------------------------------------------------------------------
\* The pieces of two shares never mix on a connection: between two pieces
\* of one there is none of another, and none follows a share that lacks its
\* end (pool_miner.cpp:983, the mutex around a submit).
SharesDoNotMix ==
  \A c \in 1..connections : \A j, k \in DOMAIN wire[c] :
    /\ j < k /\ wire[c][j].from \in Workers /\ wire[c][k].from \in Workers
    /\ wire[c][j].from # wire[c][k].from \/ wire[c][j].line # wire[c][k].line
    => \E e \in j .. k - 1 :
         /\ wire[c][e].piece = Pieces
         /\ wire[c][e].from = wire[c][j].from /\ wire[c][e].line = wire[c][j].line

\* A share that was being sent while the main thread reconnected leaves the
\* rest of its line on the new connection: only as the first thing there,
\* before the subscription (pool_miner.cpp:1079).
RestComesFirst ==
  \A c \in 1..connections : \A k \in DOMAIN wire[c] :
    wire[c][k].piece > 1 /\ wire[c][k].from \in Workers =>
      \/ \A j \in 1 .. k - 1 : wire[c][j].from = wire[c][k].from /\ wire[c][j].line = wire[c][k].line
      \/ \E j \in 1 .. k - 1 : /\ wire[c][j].piece = 1 /\ wire[c][j].line = wire[c][k].line
                               /\ wire[c][j].from = wire[c][k].from

=============================================================================
