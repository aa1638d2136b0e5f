-------------------------- MODULE LineSocket_proofs --------------------------
(***************************************************************************)
(* The lines that the threads of the pool miner send never mix, and the    *)
(* rest of a line that a reconnection cut comes first on the new           *)
(* connection, for any number of workers, pieces and connections.          *)
(*                                                                         *)
(* A worker keeps the mutex until its line is sent or has failed           *)
(* (LockInv), so a line without its end is on a connection that is gone,   *)
(* or is the line of the thread that holds the mutex (OpenInv).  The main  *)
(* thread changes the connection without the mutex, but announces it with  *)
(* the mutex before it sends: until then the connection carries the rest   *)
(* of that line alone (CarryInv).                                          *)
(***************************************************************************)
EXTENDS LineSocket, TLAPS

Piece == [from : Threads, line : Nat, piece : 1..Pieces]

\* The parts of the state these proofs are about.
TypeOK ==
  /\ connections \in 1..MaxConnections
  /\ sock_ \in {0, connections}
  /\ wire \in [1..MaxConnections -> Seq(Piece)]
  /\ left \in [Threads -> 0..Pieces]
  /\ shares \in [Workers -> Nat]

\* A worker holds the mutex as long as it has pieces to send.
LockInv == \A w \in Workers : left[w] > 0 <=> socket_mutex = w

\* The main thread sends at three places.
MainInv == left[Main] > 0 => mpc \in {"start", "answer", "resubscribing"}

\* Nothing was sent on a connection that is not made yet.
FreshInv == \A c \in 1..MaxConnections : c > connections => wire[c] = <<>>

SameLine(p, q) == p.from = q.from /\ p.line = q.line

\* From piece j on, the line of that piece ends on the connection.
EndsOn(c, j) ==
  \E e \in j..Len(wire[c]) : wire[c][e].piece = Pieces /\ SameLine(wire[c][e], wire[c][j])

\* A line of a worker that has not ended is cut, or is being sent.
OpenInv ==
  \A c \in 1..MaxConnections : \A j \in 1..Len(wire[c]) :
    wire[c][j].from \in Workers =>
      \/ EndsOn(c, j)
      \/ c # sock_ \/ ended = "reset"
      \/ socket_mutex = wire[c][j].from /\ wire[c][j].line = shares[wire[c][j].from]

PieceOf(w, p) == p.from = w /\ p.line = shares[w]

\* A line in the middle was begun on this connection, or nothing else was
\* sent on it and the main thread has still to announce it.
CarryInv ==
  \A w \in Workers :
    0 < left[w] /\ left[w] < Pieces /\ sock_ # 0 =>
      \/ \E j \in 1..Len(wire[sock_]) : PieceOf(w, wire[sock_][j]) /\ wire[sock_][j].piece = 1
      \/ mpc = "announcing" /\ \A j \in 1..Len(wire[sock_]) : PieceOf(w, wire[sock_][j])

\* Two shares, on all connections at once.
MixInv ==
  \A c \in 1..MaxConnections : \A j, k \in 1..Len(wire[c]) :
    /\ j < k /\ wire[c][j].from \in Workers /\ wire[c][k].from \in Workers
    /\ ~SameLine(wire[c][j], wire[c][k])
    => \E e \in j .. k - 1 : wire[c][e].piece = Pieces /\ SameLine(wire[c][e], wire[c][j])

RestInv ==
  \A c \in 1..MaxConnections : \A k \in 1..Len(wire[c]) :
    wire[c][k].piece > 1 /\ wire[c][k].from \in Workers =>
      \/ \A j \in 1 .. k - 1 : SameLine(wire[c][j], wire[c][k])
      \/ \E j \in 1 .. k - 1 : wire[c][j].piece = 1 /\ SameLine(wire[c][j], wire[c][k])

LineInv == TypeOK /\ LockInv /\ MainInv /\ FreshInv /\ OpenInv /\ CarryInv /\ MixInv /\ RestInv

-----------------------------------------------------------------------------
(* The steps, as these invariants see them.                                *)

\* A step that sends nothing and begins nothing.
Quiet ==
  /\ UNCHANGED <<wire, left, shares, socket_mutex, connections>>
  /\ sock_' \in {sock_, 0}
  /\ ended' = ended \/ ended = "no"
  /\ mpc' = mpc \/ mpc \notin {"announcing", "start", "answer", "resubscribing"}

\* n pieces of t's line go out on the connection as it is now.
Sends(t, n) ==
  /\ sock_ \in 1..MaxConnections
  /\ wire' \in [1..MaxConnections -> Seq(Piece)]
  /\ \A c \in 1..MaxConnections : c # sock_ => wire'[c] = wire[c]
  /\ Len(wire'[sock_]) = Len(wire[sock_]) + n
  /\ \A i \in 1..Len(wire[sock_]) : wire'[sock_][i] = wire[sock_][i]
  /\ \A i \in Len(wire[sock_]) + 1 .. Len(wire[sock_]) + n :
       wire'[sock_][i] = [from |-> t, line |-> LineOf(t),
                          piece |-> Pieces - left[t] + (i - Len(wire[sock_]))]
  /\ left' = [left EXCEPT ![t] = left[t] - n]

\* Every step is one of seven kinds.
LEMMA StepKinds ==
  ASSUME [Next]_vars
  PROVE  \/ Quiet
         \/ \E w \in Workers : StartLine(w)
         \/ \E t \in Threads : SendPart(t)
         \/ \E t \in Threads : SendFails(t)
         \/ MainSends("start") \/ MainSends("answer")
         \/ Connect
         \/ Announce
<1>1. CASE UNCHANGED vars
  BY <1>1 DEF Quiet, vars, netVars, sendVars
<1>2. CASE ReadLine \/ ReturnLine \/ Recv \/ ReturnTimeout \/ ReturnClosed \/ Reconnect
  BY <1>2 DEF ReadLine, ReturnLine, Recv, ReturnTimeout, ReturnClosed, Reconnect, Quiet, GoTo,
              Reading, netVars, sendVars
<1>3. CASE Close \/ ConnectFails
  BY <1>3 DEF Close, ConnectFails, Quiet, GoTo, netVars, sendVars
<1>4. CASE PoolSends \/ Break
  BY <1>4 DEF PoolSends, Break, Quiet, sendVars
<1>5. CASE Ended
  BY <1>1, <1>5 DEF Ended
<1> QED
  BY <1>1, <1>2, <1>3, <1>4, <1>5 DEF Next, MainStep, SendStep, Threads

\* send_line appends the next pieces of the line (pool_miner.cpp:192).
LEMMA SendPartAppends ==
  ASSUME LineAssumption, TypeOK, NEW t \in Threads, SendPart(t)
  PROVE  \E n \in 1..left[t] : Sends(t, n)
<1> DEFINE Parts(n) == [k \in 1..n |-> [from |-> t, line |-> LineOf(t), piece |-> Pieces - left[t] + k]]
<1>1. PICK n \in 1..left[t] : /\ wire' = [wire EXCEPT ![sock_] = wire[sock_] \o Parts(n)]
                              /\ left' = [left EXCEPT ![t] = left[t] - n]
  BY DEF SendPart
<1>2. sock_ \in 1..MaxConnections /\ left[t] \in 0..Pieces /\ Pieces \in Nat
  BY DEF TypeOK, SendPart, LineAssumption
<1>3. LineOf(t) \in Nat
  BY DEF LineOf, TypeOK, Threads, LineAssumption
<1>4. Parts(n) \in Seq(Piece) /\ Len(Parts(n)) = n
  <2>1. \A k \in 1..n : [from |-> t, line |-> LineOf(t), piece |-> Pieces - left[t] + k] \in Piece
    BY <1>2, <1>3 DEF Piece
  <2> QED
    BY <2>1, <1>2
<1>5. wire[sock_] \in Seq(Piece)
  BY <1>2 DEF TypeOK
<1>6. wire'[sock_] = wire[sock_] \o Parts(n)
  BY <1>1, <1>2 DEF TypeOK
<1>7. wire' \in [1..MaxConnections -> Seq(Piece)]
  <2>1. wire[sock_] \o Parts(n) \in Seq(Piece)
    BY <1>4, <1>5
  <2> HIDE DEF Parts
  <2> QED
    BY <1>1, <2>1 DEF TypeOK
<1>8. \A c \in 1..MaxConnections : c # sock_ => wire'[c] = wire[c]
  BY <1>1 DEF TypeOK
<1>9. Len(wire'[sock_]) = Len(wire[sock_]) + n
  BY <1>4, <1>5, <1>6
<1>10. \A i \in 1..Len(wire[sock_]) : wire'[sock_][i] = wire[sock_][i]
  BY <1>4, <1>5, <1>6
<1>11. ASSUME NEW i \in Len(wire[sock_]) + 1 .. Len(wire[sock_]) + n
       PROVE  wire'[sock_][i] = Parts(n)[i - Len(wire[sock_])] /\ i - Len(wire[sock_]) \in 1..n
  BY <1>4, <1>5, <1>6, <1>2
<1> QED
  BY <1>1, <1>2, <1>7, <1>8, <1>9, <1>10, <1>11 DEF Sends

-----------------------------------------------------------------------------
(* The mutex and the main thread's line.                                   *)

\* The types.
LEMMA TypeStep ==
  ASSUME LineAssumption, TypeOK, [Next]_vars
  PROVE  TypeOK'
<1>1. CASE Quiet
  BY <1>1 DEF Quiet, TypeOK
<1>2. ASSUME NEW w \in Workers, StartLine(w) PROVE TypeOK'
  <2>0. Pieces \in 0..Pieces
    BY DEF LineAssumption
  <2>1. left' \in [Threads -> 0..Pieces]
    BY <1>2, <2>0 DEF StartLine, TypeOK
  <2>3. shares' \in [Workers -> Nat]
    BY <1>2 DEF StartLine, TypeOK
  <2>2. UNCHANGED <<sock_, connections, wire>>
    BY <1>2 DEF StartLine, netVars
  <2> QED
    BY <2>1, <2>2, <2>3 DEF TypeOK
<1>3. ASSUME NEW t \in Threads, SendPart(t) PROVE TypeOK'
  <2>1. PICK n \in 1..left[t] : Sends(t, n)
    BY <1>3, SendPartAppends
  <2>2. left' \in [Threads -> 0..Pieces]
    BY <2>1 DEF Sends, TypeOK, LineAssumption
  <2> QED
    BY <1>3, <2>1, <2>2 DEF SendPart, Sends, TypeOK, netVars
<1>4. ASSUME NEW t \in Threads, SendFails(t) PROVE TypeOK'
  BY <1>4 DEF SendFails, TypeOK, LineAssumption
<1>5. CASE MainSends("start") \/ MainSends("answer")
  BY <1>5 DEF MainSends, TypeOK, netVars, LineAssumption
<1>6. CASE Connect
  BY <1>6 DEF Connect, TypeOK, sendVars, LineAssumption
<1>7. CASE Announce
  <2>0. Pieces \in 0..Pieces
    BY DEF LineAssumption
  <2>1. left' \in [Threads -> 0..Pieces]
    BY <1>7, <2>0 DEF Announce, TypeOK
  <2>2. UNCHANGED <<sock_, connections, wire, shares>>
    BY <1>7 DEF Announce, netVars
  <2> QED
    BY <2>1, <2>2 DEF TypeOK
<1> QED
  BY <1>1, <1>2, <1>3, <1>4, <1>5, <1>6, <1>7, StepKinds

\* A worker's line has the mutex from its first piece to its last.
LEMMA LockStep ==
  ASSUME LineAssumption, TypeOK, LockInv, [Next]_vars
  PROVE  LockInv'
<1> SUFFICES ASSUME NEW w \in Workers
             PROVE  (left[w] > 0 <=> socket_mutex = w)'
  BY DEF LockInv
<1>0. /\ left[w] > 0 <=> socket_mutex = w
      /\ w # Main /\ w # None /\ w \in Threads /\ left[w] \in 0..Pieces
      /\ Pieces \in Nat \ {0}
  BY DEF LockInv, LineAssumption, TypeOK, Threads
<1>1. CASE Quiet
  BY <1>0, <1>1 DEF Quiet
<1>2. ASSUME NEW v \in Workers, StartLine(v) PROVE (left[w] > 0 <=> socket_mutex = w)'
  BY <1>0, <1>2 DEF StartLine, FreeFor, TypeOK, Threads
<1>3. ASSUME NEW t \in Threads, SendPart(t) PROVE (left[w] > 0 <=> socket_mutex = w)'
  <2>1. PICK n \in 1..left[t] : Sends(t, n)
    BY <1>3, SendPartAppends
  <2>2. left' = [left EXCEPT ![t] = left[t] - n] /\ left[t] > 0 /\ left[t] \in Nat
    <3>1. left[t] > 0 /\ left[t] \in Nat
      BY <1>3 DEF SendPart, TypeOK, LineAssumption
    <3> QED
      BY <2>1, <3>1 DEF Sends
  <2>3. CASE t = w
    BY <1>0, <1>3, <2>2, <2>3 DEF SendPart, TypeOK, Released
  <2>4. CASE t # w
    <3>1. left'[w] = left[w]
      BY <2>2, <2>4, <1>0 DEF TypeOK
    <3>2. socket_mutex' = w <=> socket_mutex = w
      BY <1>0, <1>3, <2>4 DEF SendPart, Released
    <3> QED
      BY <1>0, <3>1, <3>2
  <2> QED
    BY <2>3, <2>4
<1>4. ASSUME NEW t \in Threads, SendFails(t) PROVE (left[w] > 0 <=> socket_mutex = w)'
  BY <1>0, <1>4 DEF SendFails, Released, TypeOK
<1>5. CASE MainSends("start") \/ MainSends("answer")
  BY <1>0, <1>5 DEF MainSends, FreeFor, TypeOK
<1>6. CASE Connect
  BY <1>0, <1>6 DEF Connect, sendVars
<1>7. CASE Announce
  BY <1>0, <1>7 DEF Announce, TypeOK
<1> QED
  BY <1>1, <1>2, <1>3, <1>4, <1>5, <1>6, <1>7, StepKinds

\* The main thread sends where it began to.
LEMMA MainStays ==
  ASSUME LineAssumption, TypeOK, MainInv, [Next]_vars
  PROVE  MainInv'
<1>0. Main \in Threads /\ Main \notin Workers /\ left[Main] \in Nat
  BY DEF Threads, LineAssumption, TypeOK
<1>1. CASE Quiet
  BY <1>0, <1>1 DEF Quiet, MainInv
<1>2. ASSUME NEW v \in Workers, StartLine(v) PROVE MainInv'
  BY <1>0, <1>2 DEF StartLine, MainInv, TypeOK
<1>3. ASSUME NEW t \in Threads, SendPart(t) PROVE MainInv'
  <2>1. PICK n \in 1..left[t] : Sends(t, n)
    BY <1>3, SendPartAppends
  <2>2. left' = [left EXCEPT ![t] = left[t] - n] /\ left[t] \in Nat
    BY <2>1 DEF Sends, TypeOK
  <2> QED
    BY <1>0, <1>3, <2>2 DEF SendPart, MainInv, TypeOK
<1>4. ASSUME NEW t \in Threads, SendFails(t) PROVE MainInv'
  BY <1>0, <1>4 DEF SendFails, MainInv, TypeOK
<1>5. CASE MainSends("start") \/ MainSends("answer")
  BY <1>5 DEF MainSends, MainInv
<1>6. CASE Connect
  BY <1>6 DEF Connect, MainInv, sendVars
<1>7. CASE Announce
  BY <1>7 DEF Announce, GoTo, MainInv
<1> QED
  BY <1>1, <1>2, <1>3, <1>4, <1>5, <1>6, <1>7, StepKinds

\* A connection carries nothing before it is made.
LEMMA FreshStep ==
  ASSUME LineAssumption, TypeOK, FreshInv, [Next]_vars
  PROVE  FreshInv'
<1>1. CASE Quiet
  BY <1>1 DEF Quiet, FreshInv
<1>2. ASSUME NEW v \in Workers, StartLine(v) PROVE FreshInv'
  BY <1>2 DEF StartLine, FreshInv, netVars
<1>3. ASSUME NEW t \in Threads, SendPart(t) PROVE FreshInv'
  <2>1. PICK n \in 1..left[t] : Sends(t, n)
    BY <1>3, SendPartAppends
  <2>2. sock_ = connections /\ connections' = connections
    BY <1>3 DEF SendPart, TypeOK, netVars
  <2> QED
    BY <2>1, <2>2 DEF Sends, FreshInv, TypeOK, LineAssumption
<1>4. ASSUME NEW t \in Threads, SendFails(t) PROVE FreshInv'
  BY <1>4 DEF SendFails, FreshInv
<1>5. CASE MainSends("start") \/ MainSends("answer")
  BY <1>5 DEF MainSends, FreshInv, netVars
<1>6. CASE Connect
  BY <1>6 DEF Connect, FreshInv, TypeOK, sendVars, LineAssumption
<1>7. CASE Announce
  BY <1>7 DEF Announce, FreshInv, netVars
<1> QED
  BY <1>1, <1>2, <1>3, <1>4, <1>5, <1>6, <1>7, StepKinds

-----------------------------------------------------------------------------
(* What the connections carry.                                             *)

\* What sends a worker's pieces: the holder of the mutex.
LEMMA WorkerSends ==
  ASSUME LineAssumption, TypeOK, LockInv, NEW t \in Threads, SendPart(t),
         NEW n \in 1..left[t], Sends(t, n)
  PROVE  /\ sock_ \in 1..MaxConnections /\ sock_' = sock_ /\ ended # "reset" /\ shares' = shares
         /\ left[t] \in 1..Pieces /\ Pieces \in Nat \ {0} /\ Len(wire[sock_]) \in Nat
         /\ t # Main => t \in Workers /\ socket_mutex = t /\ mpc' = mpc
         /\ \A i \in Len(wire[sock_]) + 1 .. Len(wire[sock_]) + n :
              /\ wire'[sock_][i].from = t
              /\ t # Main => PieceOf(t, wire'[sock_][i])
              /\ wire'[sock_][i].piece = Pieces - left[t] + (i - Len(wire[sock_]))
<1>1. sock_ \in 1..MaxConnections /\ sock_' = sock_ /\ ended # "reset" /\ shares' = shares
  BY DEF SendPart, Sends, netVars
<1>2. left[t] \in 1..Pieces /\ Pieces \in Nat \ {0}
  BY DEF SendPart, TypeOK, LineAssumption
<1>3. Len(wire[sock_]) \in Nat
  BY <1>1 DEF TypeOK
<1>4. t # Main => t \in Workers /\ socket_mutex = t /\ mpc' = mpc
  BY <1>2 DEF Threads, LockInv, SendPart
<1>5. ASSUME NEW i \in Len(wire[sock_]) + 1 .. Len(wire[sock_]) + n
      PROVE  /\ wire'[sock_][i].from = t
             /\ t # Main => PieceOf(t, wire'[sock_][i])
             /\ wire'[sock_][i].piece = Pieces - left[t] + (i - Len(wire[sock_]))
  <2>1. wire'[sock_][i] = [from |-> t, line |-> LineOf(t),
                           piece |-> Pieces - left[t] + (i - Len(wire[sock_]))]
    BY DEF Sends
  <2> QED
    BY <2>1 DEF LineOf, PieceOf
<1> QED
  BY <1>1, <1>2, <1>3, <1>4, <1>5

\* A line without its end is cut, or is the one of the mutex's holder.
LEMMA OpenStep ==
  ASSUME LineAssumption, TypeOK, LockInv, FreshInv, OpenInv, [Next]_vars
  PROVE  OpenInv'
<1> DEFINE Open(c, j) ==
      \/ EndsOn(c, j)
      \/ c # sock_ \/ ended = "reset"
      \/ socket_mutex = wire[c][j].from /\ wire[c][j].line = shares[wire[c][j].from]
<1> SUFFICES ASSUME NEW c \in 1..MaxConnections, NEW j \in 1..Len(wire'[c]),
                    wire'[c][j].from \in Workers
             PROVE  Open(c, j)'
  BY DEF OpenInv
<1>0. wire'[c] = wire[c] => Open(c, j)
  BY DEF OpenInv
<1>1. CASE Quiet
  BY <1>0, <1>1 DEF Quiet, EndsOn
<1>2. ASSUME NEW v \in Workers, StartLine(v) PROVE Open(c, j)'
  <2>1. wire' = wire /\ sock_' = sock_ /\ ended' = ended /\ socket_mutex \notin Workers
    BY <1>2 DEF StartLine, FreeFor, netVars, LineAssumption
  <2> QED
    BY <1>0, <2>1 DEF EndsOn
<1>3. ASSUME NEW t \in Threads, SendPart(t) PROVE Open(c, j)'
  <2>1. PICK n \in 1..left[t] : Sends(t, n)
    BY <1>3, SendPartAppends
  <2>2. /\ sock_ \in 1..MaxConnections /\ sock_' = sock_ /\ ended # "reset" /\ shares' = shares
        /\ left[t] \in 1..Pieces /\ Pieces \in Nat \ {0} /\ Len(wire[sock_]) \in Nat
        /\ t # Main => t \in Workers /\ socket_mutex = t
        /\ \A i \in Len(wire[sock_]) + 1 .. Len(wire[sock_]) + n :
             /\ wire'[sock_][i].from = t
             /\ t # Main => PieceOf(t, wire'[sock_][i])
             /\ wire'[sock_][i].piece = Pieces - left[t] + (i - Len(wire[sock_]))
    BY <1>3, <2>1, WorkerSends
  <2>3. CASE c # sock_
    BY <2>2, <2>3
  <2>4. CASE c = sock_
    <3> DEFINE L == Len(wire[c])
    <3>1. L \in Nat /\ Len(wire'[c]) = L + n /\ \A i \in 1..L : wire'[c][i] = wire[c][i]
      BY <2>1, <2>2, <2>4 DEF Sends
    <3>2. left'[t] = left[t] - n
      BY <2>1 DEF Sends, TypeOK
    <3>0. L + n \in L + 1 .. L + n
      <4>1. L \in Nat /\ n \in Nat \ {0} /\ Pieces \in Nat
        BY <2>2, <3>1
      <4> HIDE DEF L
      <4> QED
        BY <4>1
    <3>3. n = left[t] => wire'[c][L + n].piece = Pieces
      <4>1. ASSUME NEW i \in L + 1 .. L + n
            PROVE  wire'[c][i].piece = Pieces - left[t] + (i - L)
        BY <2>2, <2>4
      <4>2. L \in Nat /\ n \in Nat /\ Pieces \in Nat
        BY <2>2, <3>1
      <4> HIDE DEF L
      <4>3. ASSUME NEW i \in L + 1 .. L + n, i = L + n, n = left[t]
            PROVE  wire'[c][i].piece = Pieces
        <5>1. i - L = n
          BY <4>2, <4>3
        <5>2. wire'[c][i].piece = Pieces - n + n
          BY <4>1, <4>3, <5>1
        <5> QED
          BY <4>2, <5>2
      <4> QED
        BY <3>0, <4>3
    <3>4. t # Main => PieceOf(t, wire'[c][L + n])
      BY <2>2, <2>4, <3>0
    <3>5. ASSUME t # Main, PieceOf(t, wire'[c][j]) PROVE Open(c, j)'
      <4>1. CASE n = left[t]
        <5>1. L + n \in j..Len(wire'[c])
          BY <3>1
        <5>2. SameLine(wire'[c][L + n], wire'[c][j])
          BY <3>4, <3>5, <4>1 DEF SameLine, PieceOf
        <5>3. EndsOn(c, j)'
          BY <3>3, <4>1, <5>1, <5>2 DEF EndsOn, SameLine
        <5> QED
          BY <5>3
      <4>2. CASE n # left[t]
        <5>1. socket_mutex' = socket_mutex
          BY <1>3, <2>2, <3>2, <4>2 DEF SendPart
        <5> QED
          BY <2>2, <3>5, <5>1 DEF PieceOf
      <4> QED
        BY <4>1, <4>2
    <3>6. CASE j > L
      <4>1. wire'[c][j].from = t /\ t # Main => PieceOf(t, wire'[c][j])
        BY <2>2, <2>4, <3>1, <3>6
      <4>2. wire'[c][j].from = t
        BY <2>2, <2>4, <3>1, <3>6
      <4> QED
        BY <3>5, <4>1, <4>2 DEF LineAssumption
    <3>7. CASE j \leq L
      <4>1. j \in 1..L /\ wire'[c][j] = wire[c][j]
        BY <3>1, <3>7
      <4>2. Open(c, j)
        BY <4>1 DEF OpenInv
      <4>3. CASE EndsOn(c, j)
        <5>1. PICK e \in j..L : wire[c][e].piece = Pieces /\ SameLine(wire[c][e], wire[c][j])
          BY <4>3 DEF EndsOn
        <5>2. wire'[c][e] = wire[c][e] /\ e \in j..Len(wire'[c])
          BY <3>1, <5>1
        <5>3. EndsOn(c, j)'
          BY <4>1, <5>1, <5>2 DEF EndsOn, SameLine
        <5> QED
          BY <5>3
      <4>4. CASE socket_mutex = wire[c][j].from /\ wire[c][j].line = shares[wire[c][j].from]
        <5>1. CASE t = wire[c][j].from
          <6>1. t # Main /\ PieceOf(t, wire'[c][j])
            BY <4>1, <4>4, <5>1 DEF PieceOf, LineAssumption
          <6> QED
            BY <3>5, <6>1
        <5>2. CASE t # wire[c][j].from
          <6>1. socket_mutex' = socket_mutex
            BY <1>3, <4>4, <5>2 DEF SendPart, Released
          <6> QED
            BY <2>2, <4>1, <4>4, <6>1
        <5> QED
          BY <5>1, <5>2
      <4> QED
        BY <2>2, <2>4, <4>2, <4>3, <4>4
    <3> QED
      BY <3>1, <3>6, <3>7
  <2> QED
    BY <2>3, <2>4
<1>4. ASSUME NEW t \in Threads, SendFails(t) PROVE Open(c, j)'
  BY <1>4 DEF SendFails
<1>5. CASE MainSends("start") \/ MainSends("answer")
  <2>1. wire' = wire /\ sock_' = sock_ /\ ended' = ended /\ socket_mutex \notin Workers
    BY <1>5 DEF MainSends, FreeFor, netVars, LineAssumption
  <2> QED
    BY <1>0, <2>1 DEF EndsOn
<1>6. CASE Connect
  BY <1>6 DEF Connect, FreshInv, TypeOK, sendVars
<1>7. CASE Announce
  BY <1>0, <1>7 DEF Announce, netVars, EndsOn
<1> QED
  BY <1>1, <1>2, <1>3, <1>4, <1>5, <1>6, <1>7, StepKinds

\* The first piece of a line that goes out has number 1.
LEMMA FirstPiece ==
  ASSUME LineAssumption, TypeOK, LockInv, NEW t \in Workers, SendPart(t),
         NEW n \in 1..left[t], Sends(t, n), left[t] = Pieces
  PROVE  /\ Len(wire[sock_]) + 1 \in Len(wire[sock_]) + 1 .. Len(wire[sock_]) + n
         /\ wire'[sock_][Len(wire[sock_]) + 1].piece = 1
<1> DEFINE L == Len(wire[sock_])
<1>0. t \in Threads
  BY DEF Threads
<1>1. L \in Nat /\ n \in Nat \ {0} /\ Pieces \in Nat
  BY <1>0, WorkerSends
<1>2. ASSUME NEW i \in L + 1 .. L + n
      PROVE  wire'[sock_][i].piece = Pieces - left[t] + (i - L)
  BY <1>0, WorkerSends
<1> HIDE DEF L
<1>3. L + 1 \in L + 1 .. L + n
  BY <1>1
<1>4. ASSUME NEW i \in L + 1 .. L + n, i = L + 1
      PROVE  wire'[sock_][i].piece = 1
  <2>1. i - L = 1
    BY <1>1, <1>4
  <2>2. wire'[sock_][i].piece = Pieces - Pieces + 1
    BY <1>2, <2>1
  <2> QED
    BY <1>1, <2>2
<1>5. wire'[sock_][L + 1].piece = 1
  BY <1>3, <1>4
<1> QED
  BY <1>3, <1>5 DEF L

\* A line in the middle was begun here, or is alone until Announce.
LEMMA CarryStep ==
  ASSUME LineAssumption, TypeOK, LockInv, MainInv, FreshInv, CarryInv, [Next]_vars, TypeOK', LockInv'
  PROVE  CarryInv'
<1> DEFINE Begun(w) == \E j \in 1..Len(wire[sock_]) : PieceOf(w, wire[sock_][j]) /\ wire[sock_][j].piece = 1
           Alone(w) == mpc = "announcing" /\ \A j \in 1..Len(wire[sock_]) : PieceOf(w, wire[sock_][j])
<1> SUFFICES ASSUME NEW w \in Workers, 0 < left'[w], left'[w] < Pieces, sock_' # 0
             PROVE  (Begun(w) \/ Alone(w))'
  BY DEF CarryInv
<1>0. /\ w # Main /\ w # None /\ w \in Threads /\ left[w] \in 0..Pieces /\ Pieces \in Nat \ {0}
      /\ 0 < left[w] /\ left[w] < Pieces /\ sock_ # 0 => Begun(w) \/ Alone(w)
      /\ left[w] > 0 => socket_mutex = w
      /\ \A v \in Workers : v # w /\ left[v] > 0 => socket_mutex # w
  BY DEF CarryInv, LineAssumption, Threads, TypeOK, LockInv
<1>1. CASE Quiet
  BY <1>0, <1>1 DEF Quiet, PieceOf
<1>2. ASSUME NEW v \in Workers, StartLine(v) PROVE FALSE
  <2>1. left[w] = 0
    BY <1>0, <1>2 DEF StartLine, FreeFor
  <2>2. left' = left \/ left' = [left EXCEPT ![v] = Pieces]
    BY <1>2 DEF StartLine
  <2>3. left'[w] = 0 \/ left'[w] = Pieces
    BY <1>0, <2>1, <2>2 DEF TypeOK
  <2> QED
    BY <1>0, <2>3
<1>3. ASSUME NEW t \in Threads, SendPart(t) PROVE (Begun(w) \/ Alone(w))'
  <2>1. PICK n \in 1..left[t] : Sends(t, n)
    BY <1>3, SendPartAppends
  <2>2. /\ sock_ \in 1..MaxConnections /\ sock_' = sock_ /\ shares' = shares
        /\ left[t] \in 1..Pieces /\ Len(wire[sock_]) \in Nat
        /\ t # Main => t \in Workers /\ socket_mutex = t /\ mpc' = mpc
        /\ \A i \in Len(wire[sock_]) + 1 .. Len(wire[sock_]) + n :
             t # Main => PieceOf(t, wire'[sock_][i])
    BY <1>3, <2>1, WorkerSends
  <2> DEFINE L == Len(wire[sock_])
  <2>3. /\ Len(wire'[sock_]) = L + n /\ n \in Nat \ {0} /\ left' = [left EXCEPT ![t] = left[t] - n]
        /\ \A i \in 1..L : wire'[sock_][i] = wire[sock_][i]
    BY <2>1, <2>2 DEF Sends
  <2>4. ASSUME Begun(w) PROVE Begun(w)'
    <3>1. PICK j \in 1..L : PieceOf(w, wire[sock_][j]) /\ wire[sock_][j].piece = 1
      BY <2>4
    <3>2. j \in 1..Len(wire'[sock_]) /\ wire'[sock_][j] = wire[sock_][j]
      BY <2>2, <2>3, <3>1
    <3> QED
      BY <2>2, <3>1, <3>2 DEF PieceOf
  <2>5. CASE t = w
    <3>1. CASE left[w] = Pieces
      <4>1. L + 1 \in L + 1 .. L + n /\ wire'[sock_][L + 1].piece = 1
        BY <1>3, <2>1, <2>5, <3>1, FirstPiece
      <4>2. PieceOf(w, wire'[sock_][L + 1])
        BY <1>0, <2>2, <2>5, <4>1
      <4>4. L + 1 \in 1..Len(wire'[sock_])
        BY <2>2, <2>3
      <4>3. Begun(w)'
        BY <2>2, <4>1, <4>2, <4>4 DEF PieceOf
      <4> QED
        BY <4>3
    <3>2. CASE left[w] # Pieces /\ Alone(w)
      <4>1. ASSUME NEW j \in 1..Len(wire'[sock_]) PROVE PieceOf(w, wire'[sock_][j])
        <5>1. j \in 1..L \/ j \in L + 1 .. L + n
          BY <2>2, <2>3
        <5>2. CASE j \in 1..L
          BY <2>3, <3>2, <5>2
        <5>3. CASE j \in L + 1 .. L + n
          BY <1>0, <2>2, <2>5, <5>3
        <5> QED
          BY <5>1, <5>2, <5>3
      <4>2. Alone(w)'
        BY <1>0, <2>2, <2>5, <3>2, <4>1 DEF PieceOf
      <4> QED
        BY <4>2
    <3>3. left[w] # Pieces => Begun(w) \/ Alone(w)
      BY <1>0, <2>2, <2>5
    <3> QED
      BY <2>4, <3>1, <3>2, <3>3
  <2>6. CASE t # w
    <3>1. left'[w] = left[w]
      BY <1>0, <2>3, <2>6 DEF TypeOK
    <3>2. t = Main
      BY <1>0, <2>2, <2>6, <3>1
    <3>3. mpc # "announcing"
      BY <2>2, <3>2 DEF MainInv
    <3>4. Begun(w)
      BY <1>0, <2>2, <3>1, <3>3
    <3> QED
      BY <2>4, <3>4
  <2> QED
    BY <2>5, <2>6
<1>4. ASSUME NEW t \in Threads, SendFails(t) PROVE (Begun(w) \/ Alone(w))'
  <2>1. t # w /\ left'[w] = left[w]
    BY <1>0, <1>4 DEF SendFails, TypeOK
  <2>2. UNCHANGED <<wire, shares, sock_>> /\ left[t] > 0
    BY <1>4 DEF SendFails
  <2>3. t = Main
    BY <1>0, <2>1, <2>2 DEF Threads
  <2>4. mpc # "announcing"
    BY <2>2, <2>3 DEF MainInv
  <2>5. Begun(w)
    BY <1>0, <2>1, <2>2, <2>4
  <2> QED
    BY <2>2, <2>5 DEF PieceOf
<1>5. CASE MainSends("start") \/ MainSends("answer")
  BY <1>0, <1>5 DEF MainSends, FreeFor, TypeOK
<1>6. CASE Connect
  <2>1. wire' = wire /\ sock_' = connections + 1 /\ connections + 1 \in 1..MaxConnections
    BY <1>6 DEF Connect, sendVars, TypeOK, LineAssumption
  <2>2. wire'[sock_'] = <<>>
    BY <2>1 DEF FreshInv, TypeOK, LineAssumption
  <2>3. mpc' = "announcing"
    BY <1>6 DEF Connect, GoTo
  <2> QED
    BY <2>2, <2>3
<1>7. CASE Announce
  BY <1>0, <1>7 DEF Announce, CanAnnounce, FreeFor, TypeOK
<1> QED
  BY <1>1, <1>2, <1>3, <1>4, <1>5, <1>6, <1>7, StepKinds

\* Only SendPart sends.
LEMMA OnlySends ==
  ASSUME [Next]_vars
  PROVE  wire' = wire \/ \E t \in Threads : SendPart(t)
<1>1. Quiet => wire' = wire
  BY DEF Quiet
<1>2. \A w \in Workers : StartLine(w) => wire' = wire
  BY DEF StartLine
<1>3. \A t \in Threads : SendFails(t) => wire' = wire
  BY DEF SendFails
<1>4. MainSends("start") \/ MainSends("answer") \/ Connect \/ Announce => wire' = wire
  BY DEF MainSends, Connect, Announce, sendVars
<1> QED
  BY <1>1, <1>2, <1>3, <1>4, StepKinds

\* A piece behind another share's follows that share's end.
LEMMA MixStep ==
  ASSUME LineAssumption, TypeOK, LockInv, OpenInv, MixInv, [Next]_vars
  PROVE  MixInv'
<1> SUFFICES ASSUME NEW c \in 1..MaxConnections, NEW j \in 1..Len(wire'[c]), NEW k \in 1..Len(wire'[c]),
                    j < k, wire'[c][j].from \in Workers, wire'[c][k].from \in Workers,
                    ~SameLine(wire'[c][j], wire'[c][k])
             PROVE  \E e \in j .. k - 1 : wire'[c][e].piece = Pieces /\ SameLine(wire'[c][e], wire'[c][j])
  BY DEF MixInv, SameLine
<1>1. CASE wire'[c] = wire[c]
  BY <1>1 DEF MixInv
<1>2. ASSUME NEW t \in Threads, SendPart(t), wire'[c] # wire[c]
      PROVE  \E e \in j .. k - 1 : wire'[c][e].piece = Pieces /\ SameLine(wire'[c][e], wire'[c][j])
  <2>1. PICK n \in 1..left[t] : Sends(t, n)
    BY <1>2, SendPartAppends
  <2>2. c = sock_
    BY <1>2, <2>1 DEF Sends
  <2> DEFINE L == Len(wire[c])
  <2>3. /\ ended # "reset" /\ L \in Nat
        /\ t # Main => t \in Workers /\ socket_mutex = t
        /\ \A i \in L + 1 .. L + n :
             wire'[c][i].from = t /\ (t # Main => PieceOf(t, wire'[c][i]))
    BY <1>2, <2>1, <2>2, WorkerSends
  <2>4. Len(wire'[c]) = L + n /\ \A i \in 1..L : wire'[c][i] = wire[c][i]
    BY <2>1, <2>2 DEF Sends
  <2>5. CASE k \leq L
    <3>1. j \in 1..L /\ k \in 1..L /\ \A e \in j .. k - 1 : e \in 1..L
      BY <2>3, <2>5
    <3>2. PICK e \in j .. k - 1 : wire[c][e].piece = Pieces /\ SameLine(wire[c][e], wire[c][j])
      BY <2>4, <3>1 DEF MixInv
    <3> QED
      BY <2>4, <3>1, <3>2
  <2>6. CASE k > L
    <3>1. k \in L + 1 .. L + n
      BY <2>3, <2>4, <2>6
    <3>2. t \in Workers /\ t # Main /\ socket_mutex = t /\ PieceOf(t, wire'[c][k])
      BY <2>3, <3>1 DEF LineAssumption
    <3>3. j \leq L
      <4>1. SUFFICES ASSUME j > L PROVE FALSE
        BY <2>3
      <4>2. j \in L + 1 .. L + n
        BY <2>3, <2>4, <4>1
      <4>3. PieceOf(t, wire'[c][j])
        BY <2>3, <3>2, <4>2
      <4> QED
        BY <3>2, <4>3 DEF PieceOf, SameLine
    <3>4. j \in 1..L /\ wire'[c][j] = wire[c][j]
      BY <2>3, <2>4, <3>3
    <3>5. ~(socket_mutex = wire[c][j].from /\ wire[c][j].line = shares[wire[c][j].from])
      BY <3>2, <3>4 DEF PieceOf, SameLine
    <3>6. EndsOn(c, j)
      BY <2>2, <2>3, <3>4, <3>5 DEF OpenInv
    <3>7. PICK e \in j..L : wire[c][e].piece = Pieces /\ SameLine(wire[c][e], wire[c][j])
      BY <3>6 DEF EndsOn
    <3>8. e \in j .. k - 1 /\ wire'[c][e] = wire[c][e]
      BY <2>3, <2>4, <2>6, <3>4, <3>7
    <3> QED
      BY <3>4, <3>7, <3>8
  <2> QED
    BY <2>3, <2>5, <2>6
<1> QED
  BY <1>1, <1>2, OnlySends

\* The rest of a line follows its beginning, or only more of itself.
LEMMA RestStep ==
  ASSUME LineAssumption, TypeOK, LockInv, CarryInv, RestInv, [Next]_vars
  PROVE  RestInv'
<1> DEFINE Follows(s, k) ==
      \/ \A j \in 1 .. k - 1 : SameLine(s[j], s[k])
      \/ \E j \in 1 .. k - 1 : s[j].piece = 1 /\ SameLine(s[j], s[k])
<1> SUFFICES ASSUME NEW c \in 1..MaxConnections, NEW k \in 1..Len(wire'[c]),
                    wire'[c][k].piece > 1, wire'[c][k].from \in Workers
             PROVE  Follows(wire'[c], k)
  BY DEF RestInv, SameLine
<1>1. CASE wire'[c] = wire[c]
  BY <1>1 DEF RestInv
<1>2. ASSUME NEW t \in Threads, SendPart(t), wire'[c] # wire[c]
      PROVE  Follows(wire'[c], k)
  <2>1. PICK n \in 1..left[t] : Sends(t, n)
    BY <1>2, SendPartAppends
  <2>2. c = sock_
    BY <1>2, <2>1 DEF Sends
  <2> DEFINE L == Len(wire[c])
  <2>3. /\ L \in Nat /\ left[t] \in 1..Pieces /\ Pieces \in Nat \ {0}
        /\ t # Main => t \in Workers
        /\ \A i \in L + 1 .. L + n :
             wire'[c][i].from = t /\ (t # Main => PieceOf(t, wire'[c][i]))
    BY <1>2, <2>1, <2>2, WorkerSends
  <2>4. Len(wire'[c]) = L + n /\ \A i \in 1..L : wire'[c][i] = wire[c][i]
    BY <2>1, <2>2 DEF Sends
  <2>5. CASE k \leq L
    <3>1. k \in 1..L /\ \A j \in 1 .. k - 1 : j \in 1..L
      BY <2>3, <2>5
    <3>2. Follows(wire[c], k)
      BY <2>4, <3>1 DEF RestInv
    <3> QED
      BY <2>4, <3>1, <3>2
  <2>6. CASE k > L
    <3>1. k \in L + 1 .. L + n
      BY <2>3, <2>4, <2>6
    <3>2. t \in Workers /\ t # Main /\ PieceOf(t, wire'[c][k])
      BY <2>3, <3>1 DEF LineAssumption
    <3>3. \A p : PieceOf(t, p) => SameLine(p, wire'[c][k])
      BY <3>2 DEF PieceOf, SameLine
    <3>4. CASE left[t] = Pieces
      <4>1. L + 1 \in L + 1 .. L + n /\ wire'[c][L + 1].piece = 1
        BY <1>2, <2>1, <2>2, <3>2, <3>4, FirstPiece
      <4>2. PieceOf(t, wire'[c][L + 1])
        BY <2>3, <3>2, <4>1
      <4>3. k # L + 1
        BY <4>1
      <4>a. k \in Int /\ k >= L + 1
        BY <2>3, <3>1
      <4>4. L + 1 \in 1 .. k - 1
        <5> HIDE DEF L
        <5> QED BY <2>3, <4>3, <4>a
      <4> QED
        BY <3>3, <4>1, <4>2, <4>4
    <3>5. CASE left[t] # Pieces
      <4>1. \/ \E j \in 1..L : PieceOf(t, wire[c][j]) /\ wire[c][j].piece = 1
            \/ \A j \in 1..L : PieceOf(t, wire[c][j])
        BY <2>2, <2>3, <3>2, <3>5 DEF CarryInv
      <4>2. ASSUME NEW j \in 1..L, PieceOf(t, wire[c][j]), wire[c][j].piece = 1
            PROVE  Follows(wire'[c], k)
        <5>1. j \in 1 .. k - 1 /\ wire'[c][j] = wire[c][j]
          BY <2>3, <2>4, <2>6
        <5> QED
          BY <3>3, <4>2, <5>1
      <4>3. ASSUME \A j \in 1..L : PieceOf(t, wire[c][j])
            PROVE  Follows(wire'[c], k)
        <5>1. ASSUME NEW j \in 1 .. k - 1 PROVE PieceOf(t, wire'[c][j])
          <6>1. j \in 1..L \/ j \in L + 1 .. L + n
            BY <2>3, <3>1
          <6>2. CASE j \in 1..L
            BY <2>4, <4>3, <6>2
          <6>3. CASE j \in L + 1 .. L + n
            BY <2>3, <3>2, <6>3
          <6> QED
            BY <6>1, <6>2, <6>3
        <5> QED
          BY <3>3, <5>1
      <4> QED
        BY <4>1, <4>2, <4>3
    <3> QED
      BY <3>4, <3>5
  <2> HIDE DEF Follows
  <2> QED
    BY <2>3, <2>5, <2>6
<1> QED
  BY <1>1, <1>2, OnlySends

-----------------------------------------------------------------------------
\* The invariant holds at the beginning.
LEMMA LineInit ==
  ASSUME LineAssumption, Init
  PROVE  LineInv
<1>1. TypeOK
  BY DEF Init, TypeOK, LineAssumption
<1>2. LockInv /\ MainInv
  BY DEF Init, LockInv, MainInv, LineAssumption, Threads
<1>3. FreshInv /\ OpenInv /\ CarryInv /\ MixInv /\ RestInv
  BY DEF Init, FreshInv, OpenInv, CarryInv, MixInv, RestInv, Threads
<1> QED
  BY <1>1, <1>2, <1>3 DEF LineInv

\* Every step keeps it.
LEMMA LineStep ==
  ASSUME LineAssumption, LineInv, [Next]_vars
  PROVE  LineInv'
BY TypeStep, LockStep, MainStays, FreshStep, OpenStep, CarryStep, MixStep, RestStep DEF LineInv

\* The invariant of the connection.
THEOREM LineSafety == Spec => []LineInv
<1>1. Init => LineInv
  BY LineInit, LineAssumption
<1>2. LineInv /\ [Next]_vars => LineInv'
  BY LineStep, LineAssumption
<1> QED
  BY <1>1, <1>2, PTL DEF Spec

\* The pieces of two shares never mix on a connection, whatever the number
\* of workers and pieces, and however a connection breaks and is replaced
\* between two sends of one line.
THEOREM LinesDoNotMix == Spec => []SharesDoNotMix
<1>1. LineInv => SharesDoNotMix
  <2>1. LineInv => \A c \in 1..connections : c \in 1..MaxConnections /\ DOMAIN wire[c] = 1..Len(wire[c])
    BY LineAssumption DEF LineInv, TypeOK, LineAssumption
  <2>2. \A p, q : SameLine(p, q) <=> ~(p.from # q.from \/ p.line # q.line)
    BY DEF SameLine
  <2>3. ASSUME MixInv, NEW c \in 1..MaxConnections, NEW j \in 1..Len(wire[c]), NEW k \in 1..Len(wire[c]),
               j < k, wire[c][j].from \in Workers, wire[c][k].from \in Workers,
               ~SameLine(wire[c][j], wire[c][k])
        PROVE  \E e \in j .. k - 1 : /\ wire[c][e].piece = Pieces
                                     /\ wire[c][e].from = wire[c][j].from /\ wire[c][e].line = wire[c][j].line
    BY <2>3 DEF MixInv, SameLine
  <2> QED
    BY <2>1, <2>2, <2>3 DEF LineInv, SharesDoNotMix
<1> QED
  BY <1>1, LineSafety, PTL

\* What is left of a share's line after a reconnection goes out before
\* anything else on the new connection.
THEOREM RestIsFirst == Spec => []RestComesFirst
<1>1. LineInv => RestComesFirst
  <2>1. LineInv => \A c \in 1..connections : c \in 1..MaxConnections /\ DOMAIN wire[c] = 1..Len(wire[c])
    BY LineAssumption DEF LineInv, TypeOK, LineAssumption
  <2> QED
    BY <2>1 DEF LineInv, RestInv, RestComesFirst, SameLine
<1> QED
  BY <1>1, LineSafety, PTL

=============================================================================
