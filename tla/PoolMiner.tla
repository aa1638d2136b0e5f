----------------------------- MODULE PoolMiner -----------------------------
(***************************************************************************)
(* Pool mode of the miner (src/src/pool_miner.cpp, run_pool_miner): the    *)
(* main thread, which owns the Stratum session, one thread per CUDA        *)
(* device, and the state they share under job_mutex and socket_mutex.      *)
(*                                                                         *)
(* A step of the model is a critical section, or the code between two      *)
(* accesses to shared state.  A critical section that the main thread      *)
(* nests in another one, or in which a worker can be overtaken by the main *)
(* thread's unlocked close/connect, is cut into several steps with the     *)
(* lock held in between.                                                   *)
(*                                                                         *)
(* External, modelled from how the code uses them: the TCP connection      *)
(* (conn, inq) and the pool (outq, subscribed, announced).                 *)
(***************************************************************************)
EXTENDS Integers, FiniteSets, Sequences

CONSTANTS
  Workers,      \* one thread per configured device
  Main,         \* the thread that runs run_pool_miner
  NoOne,        \* owner of a free mutex
  JobIds,       \* the job ids the pool uses; 0 is the empty id
  Diffs,        \* the difficulties the pool may set
  Floor,        \* config.requested_diff, 0 when not requested
  ConfigBe,     \* config.submit_nonce_be
  PoolBe,       \* the nonce encoding the pool understands
  FreshIds,     \* whether the pool gives every job an id of its own
  Sigpipe,      \* whether a send on a reset connection may kill the process
  Faulty,       \* the devices whose engine may fail
  Reports,      \* whether the periodic report may fall due
  Chunks,       \* chunks in a worker's nonce partition
  MaxShares,    \* bound: share candidates the workers find
  MaxNotify,    \* bound: jobs the pool announces
  MaxSessions,  \* bound: connections ever opened
  MaxGen,       \* bound: generation after which a connect succeeds
  MaxLines      \* bound: unread lines on a connection

ASSUME ProcsAssumption ==
  /\ Main \notin Workers
  /\ NoOne \notin Workers \cup {Main}
  /\ IsFiniteSet(Workers) /\ Faulty \subseteq Workers

ASSUME ModesAssumption ==
  /\ ConfigBe \in BOOLEAN /\ PoolBe \in BOOLEAN
  /\ FreshIds \in BOOLEAN /\ Sigpipe \in BOOLEAN /\ Reports \in BOOLEAN

ASSUME NumbersAssumption ==
  /\ JobIds \subseteq Nat \ {0}
  /\ Diffs \subseteq Nat /\ Floor \in Nat
  /\ Chunks \in Nat \ {0}
  /\ MaxShares \in Nat /\ MaxNotify \in Nat
  /\ MaxSessions \in Nat /\ MaxGen \in Nat /\ MaxLines \in Nat

VARIABLES
  \* under job_mutex
  job_mutex, shared_job,
  \* under socket_mutex
  socket_mutex, submit_id, pending_submits,
  share_accepts, share_rejects, share_discarded,
  active_nonce_submit_be,
  \* atomics
  socket_needs_reconnect, stop_flag, engine_init_errors,
  \* locals of the main thread
  mpc, msg, current_generation, suggested_difficulty_sent,
  \* locals of the workers
  wpc, wl,
  \* the connection and the pool
  conn, sess, inq, outq, subscribed, announced,
  \* history: every mining.submit that left the socket, and the generation
  \* that was current when a worker last found a share
  wire, found_at

jobVars    == <<job_mutex, shared_job>>
shareVars  == <<submit_id, pending_submits, share_accepts, share_rejects,
                share_discarded, active_nonce_submit_be>>
flagVars   == <<socket_needs_reconnect, stop_flag, engine_init_errors>>
mainLocals == <<msg, current_generation, suggested_difficulty_sent>>
workVars   == <<wpc, wl>>
netVars    == <<conn, sess, inq, outq, subscribed, announced>>
histVars   == <<wire, found_at>>

vars == <<job_mutex, shared_job, socket_mutex, submit_id, pending_submits,
          share_accepts, share_rejects, share_discarded,
          active_nonce_submit_be, socket_needs_reconnect, stop_flag,
          engine_init_errors, mpc, msg, current_generation,
          suggested_difficulty_sent, wpc, wl, conn, sess, inq, outq,
          subscribed, announced, wire, found_at>>

-----------------------------------------------------------------------------
Procs == Workers \cup {Main}

Put(f, k, v) == [i \in DOMAIN f \cup {k} |-> IF i = k THEN v ELSE f[i]]
Without(f, k) == [i \in DOMAIN f \ {k} |-> f[i]]
Empty == [i \in {} |-> 0]

\* What the pool says of a share.  "target": error 23, a text about the
\* target, or no error text at all; "stale": a text that names a stale job,
\* an unknown job or a duplicate; "other": any other rejection.
Verdicts == {"accept", "target", "stale", "other"}

Lines == [kind : {"subscribe", "authorize"}, ok : BOOLEAN]
    \cup [kind : {"submit"}, id : Nat, verdict : Verdicts]
    \cup [kind : {"set_difficulty"}, diff : Diffs]
    \cup [kind : {"notify"}, id : JobIds, ver : Nat]

NoLine == [kind |-> "none"]

Requests == [kind : {"subscribe", "authorize"}]
       \cup [kind : {"submit"}, id : Nat]

\* Mutant: the pool's difficulty is taken as it comes.
ClampIgnored(diff) == diff

\* target_from_difficulty is modelled by the difficulty it is computed from.
Clamp(diff) == IF Floor > 0 /\ diff < Floor THEN Floor ELSE diff

\* A header stands for the job (ver) and the extranonce1 it was built from.
NoHeader == [ver |-> 0, ex1 |-> 0]

IdleLocals == [id |-> 0, gen |-> 0, hdr |-> NoHeader, scanned |-> 0,
               target |-> 0, be |-> FALSE, ok |-> FALSE, stale |-> FALSE,
               rec |-> FALSE, req |-> 0]

Init ==
  /\ job_mutex = NoOne /\ socket_mutex = NoOne
  /\ shared_job = [id |-> 0, ver |-> 0, ex1 |-> 0,
                   diff |-> IF Floor > 0 THEN Floor ELSE 1,
                   gen |-> 0, valid |-> FALSE]
  /\ submit_id = 0
  /\ pending_submits = Empty
  /\ share_accepts = 0 /\ share_rejects = 0 /\ share_discarded = 0
  /\ active_nonce_submit_be = ConfigBe
  /\ socket_needs_reconnect = FALSE /\ stop_flag = FALSE
  /\ engine_init_errors = 0
  /\ mpc = "init" /\ msg = NoLine
  /\ current_generation = 0 /\ suggested_difficulty_sent = FALSE
  /\ wpc = [w \in Workers |-> "create"]
  /\ wl = [w \in Workers |-> IdleLocals]
  /\ conn = "up" /\ sess = 1
  /\ inq = <<>> /\ outq = {}
  /\ subscribed = FALSE /\ announced = 0
  /\ wire = Empty
  /\ found_at = [w \in Workers |-> 0]

-----------------------------------------------------------------------------
(* The connection.  send_line fails at once on a closed descriptor; on a   *)
(* connection the other side has reset it may fail or vanish.              *)

Ended == mpc \in {"done", "killed"}

CanSend == conn # "closed"
CanFail == conn # "up"
Deliver(req) == outq' = IF conn = "up" THEN outq \cup {req} ELSE outq

\* The peer or the network drops the connection; what was received before
\* may still be readable, what the pool had not answered is lost.  Bounded
\* by MaxSessions: the last connection is never dropped.
LinkBreaks ==
  /\ ~Ended /\ conn = "up" /\ sess < MaxSessions
  /\ conn' = "broken"
  /\ inq' \in {inq, <<>>}
  /\ outq' = {}
  /\ UNCHANGED <<jobVars, socket_mutex, shareVars, flagVars, mpc, mainLocals,
                 workVars, sess, subscribed, announced, histVars>>

-----------------------------------------------------------------------------
(* The pool.  It answers the requests it received in any order, and sends  *)
(* jobs and difficulties to a session it has answered the subscription of. *)

CanPush == ~Ended /\ conn = "up" /\ Len(inq) < MaxLines

PoolAnswersHandshake ==
  /\ CanPush
  /\ \E k \in {"subscribe", "authorize"}, ok \in BOOLEAN :
       /\ [kind |-> k] \in outq
       /\ outq' = outq \ {[kind |-> k]}
       /\ inq' = Append(inq, [kind |-> k, ok |-> ok])
       /\ subscribed' = (subscribed \/ k = "subscribe")
  /\ UNCHANGED <<jobVars, socket_mutex, shareVars, flagVars, mpc, mainLocals,
                 workVars, conn, sess, announced, histVars>>

\* A share in the wrong encoding hashes to noise: the pool cannot accept it.
PoolAnswersShare ==
  /\ CanPush
  /\ \E id \in DOMAIN wire, v \in Verdicts :
       /\ [kind |-> "submit", id |-> id] \in outq
       /\ v = "accept" => wire[id].be = PoolBe
       /\ outq' = outq \ {[kind |-> "submit", id |-> id]}
       /\ inq' = Append(inq, [kind |-> "submit", id |-> id, verdict |-> v])
  /\ UNCHANGED <<jobVars, socket_mutex, shareVars, flagVars, mpc, mainLocals,
                 workVars, conn, sess, subscribed, announced, histVars>>

\* With fresh ids the n-th job has id n, else any id may come again.
PoolSendsJob ==
  /\ CanPush /\ subscribed /\ announced < MaxNotify
  /\ announced' = announced + 1
  /\ \E id \in JobIds :
       /\ FreshIds => id = announced + 1
       /\ inq' = Append(inq, [kind |-> "notify", id |-> id,
                              ver |-> announced + 1])
  /\ UNCHANGED <<jobVars, socket_mutex, shareVars, flagVars, mpc, mainLocals,
                 workVars, conn, sess, outq, subscribed, histVars>>

PoolSetsDifficulty ==
  /\ CanPush /\ subscribed
  /\ \E d \in Diffs :
       inq' = Append(inq, [kind |-> "set_difficulty", diff |-> d])
  /\ UNCHANGED <<jobVars, socket_mutex, shareVars, flagVars, mpc, mainLocals,
                 workVars, conn, sess, outq, subscribed, announced,
                 histVars>>

-----------------------------------------------------------------------------
(* The main thread, before its loop.                                       *)

\* engine_init_errors is read once, right after the threads are started.
CheckEngines ==
  /\ mpc = "init"
  /\ IF engine_init_errors > 0
       THEN stop_flag' = TRUE /\ mpc' = "join"
       ELSE mpc' = "sub" /\ UNCHANGED stop_flag
  /\ UNCHANGED <<jobVars, socket_mutex, shareVars, socket_needs_reconnect,
                 engine_init_errors, mainLocals, workVars, netVars,
                 histVars>>

\* A failed send joins the workers inside the block that locks socket_mutex.
FirstSubscribe ==
  /\ mpc = "sub" /\ socket_mutex = NoOne
  /\ \/ /\ CanSend /\ Deliver([kind |-> "subscribe"])
        /\ mpc' = "loop" /\ UNCHANGED <<socket_mutex, stop_flag>>
     \/ /\ CanFail
        /\ stop_flag' = TRUE /\ mpc' = "join"
        /\ socket_mutex' = Main
        /\ UNCHANGED outq
  /\ UNCHANGED <<jobVars, shareVars, socket_needs_reconnect,
                 engine_init_errors, mainLocals, workVars, conn, sess, inq,
                 subscribed, announced, histVars>>

-----------------------------------------------------------------------------
(* The loop: read_line, and what follows a timeout or a closed socket.     *)

\* The handler is done with its line: continue.
NextLine ==
  /\ msg' = NoLine /\ current_generation' = 0
  /\ mpc' = "loop"

HandlerOf(line) ==
  CASE line.kind = "subscribe"      -> IF line.ok THEN "sub_job" ELSE "stop"
    [] line.kind = "authorize"      -> IF line.ok THEN "auth_sock" ELSE "stop"
    [] line.kind = "submit"         -> "resp_job"
    [] line.kind = "set_difficulty" -> "diff_job"
    [] line.kind = "notify"         -> "ntf_sock"

ReadLine ==
  /\ mpc = "loop" /\ ~socket_needs_reconnect
  /\ inq # <<>>
  /\ msg' = Head(inq) /\ inq' = Tail(inq)
  /\ mpc' = HandlerOf(msg')
  /\ UNCHANGED <<jobVars, socket_mutex, shareVars, flagVars,
                 current_generation, suggested_difficulty_sent, workVars,
                 conn, sess, outq, subscribed, announced, histVars>>

\* Mutant: a closed socket is handled like a timeout.
ReadClosedIgnored ==
  /\ mpc = "loop" /\ ~socket_needs_reconnect
  /\ inq = <<>> /\ conn # "up"
  /\ UNCHANGED vars

ReadClosed ==
  /\ mpc = "loop" /\ ~socket_needs_reconnect
  /\ inq = <<>> /\ conn # "up"
  /\ socket_needs_reconnect' = TRUE
  /\ mpc' = "rc_job"
  /\ UNCHANGED <<jobVars, socket_mutex, shareVars, stop_flag,
                 engine_init_errors, mainLocals, workVars, netVars,
                 histVars>>

\* Nothing to read; the statistics may be due, under socket_mutex then
\* job_mutex.
ReadTimesOut ==
  /\ mpc = "loop" /\ ~socket_needs_reconnect
  /\ inq = <<>> /\ conn = "up"
  /\ mpc' \in {"loop"} \cup (IF Reports /\ shared_job.valid
                            THEN {"stats_sock"} ELSE {})
  /\ UNCHANGED <<jobVars, socket_mutex, shareVars, flagVars, mainLocals,
                 workVars, netVars, histVars>>

StatsLockSocket ==
  /\ mpc = "stats_sock" /\ socket_mutex = NoOne
  /\ socket_mutex' = Main /\ mpc' = "stats_job"
  /\ UNCHANGED <<jobVars, shareVars, flagVars, mainLocals, workVars, netVars,
                 histVars>>

StatsPrint ==
  /\ mpc = "stats_job" /\ job_mutex = NoOne
  /\ socket_mutex' = NoOne /\ mpc' = "loop"
  /\ UNCHANGED <<jobVars, shareVars, flagVars, mainLocals, workVars, netVars,
                 histVars>>

SeesReconnectFlag ==
  /\ mpc = "loop" /\ socket_needs_reconnect
  /\ mpc' = "rc_job"
  /\ UNCHANGED <<jobVars, socket_mutex, shareVars, flagVars, mainLocals,
                 workVars, netVars, histVars>>

-----------------------------------------------------------------------------
(* The handlers of the lines the pool sends.                               *)

SubscribeResponse ==
  /\ mpc = "sub_job" /\ job_mutex = NoOne
  /\ shared_job' = [shared_job EXCEPT !.ex1 = sess]
  /\ mpc' = "sub_sock"
  /\ UNCHANGED <<job_mutex, socket_mutex, shareVars, flagVars, mainLocals,
                 workVars, netVars, histVars>>

\* A failed send leaves the loop (break), and with it the miner.
SendAuthorize ==
  /\ mpc = "sub_sock" /\ socket_mutex = NoOne
  /\ \/ /\ CanSend /\ Deliver([kind |-> "authorize"])
        /\ NextLine /\ UNCHANGED socket_needs_reconnect
     \/ /\ CanFail
        /\ socket_needs_reconnect' = TRUE /\ mpc' = "stop"
        /\ UNCHANGED <<msg, current_generation>>
        /\ UNCHANGED outq
  /\ UNCHANGED <<jobVars, socket_mutex, shareVars, stop_flag,
                 engine_init_errors, suggested_difficulty_sent, workVars,
                 conn, sess, inq, subscribed, announced, histVars>>

\* The pool's answer to mining.suggest_difficulty matches no handler.
AuthorizeResponse ==
  /\ mpc = "auth_sock" /\ socket_mutex = NoOne
  /\ \/ /\ Floor = 0 \/ suggested_difficulty_sent
        /\ NextLine
        /\ UNCHANGED <<socket_needs_reconnect, suggested_difficulty_sent>>
     \/ /\ Floor > 0 /\ ~suggested_difficulty_sent /\ CanSend
        /\ suggested_difficulty_sent' = TRUE /\ NextLine
        /\ UNCHANGED socket_needs_reconnect
     \/ /\ Floor > 0 /\ ~suggested_difficulty_sent /\ CanFail
        /\ socket_needs_reconnect' = TRUE /\ mpc' = "stop"
        /\ UNCHANGED <<msg, current_generation>>
        /\ UNCHANGED suggested_difficulty_sent
  /\ UNCHANGED <<jobVars, socket_mutex, shareVars, stop_flag,
                 engine_init_errors, workVars, netVars, histVars>>

\* job_mutex, then socket_mutex inside it; the generation is left alone.
SetDifficulty ==
  /\ mpc = "diff_job" /\ job_mutex = NoOne
  /\ job_mutex' = Main
  /\ shared_job' = [shared_job EXCEPT !.diff = Clamp(msg.diff)]
  /\ mpc' = "diff_sock"
  /\ UNCHANGED <<socket_mutex, shareVars, flagVars, mainLocals, workVars,
                 netVars, histVars>>

ReportDifficulty ==
  /\ mpc = "diff_sock" /\ socket_mutex = NoOne
  /\ job_mutex' = NoOne /\ NextLine
  /\ UNCHANGED <<shared_job, socket_mutex, shareVars, flagVars,
                 suggested_difficulty_sent, workVars, netVars, histVars>>

\* socket_mutex, then job_mutex inside it.
NotifyLockSocket ==
  /\ mpc = "ntf_sock" /\ socket_mutex = NoOne
  /\ socket_mutex' = Main /\ mpc' = "ntf_job"
  /\ UNCHANGED <<jobVars, shareVars, flagVars, mainLocals, workVars, netVars,
                 histVars>>

InstallJob ==
  /\ mpc = "ntf_job" /\ job_mutex = NoOne
  /\ shared_job' = [shared_job EXCEPT !.id = msg.id, !.ver = msg.ver,
                                      !.gen = @ + 1, !.valid = TRUE]
  /\ socket_mutex' = NoOne /\ NextLine
  /\ UNCHANGED <<job_mutex, shareVars, flagVars, suggested_difficulty_sent,
                 workVars, netVars, histVars>>

-----------------------------------------------------------------------------
(* The response to a mining.submit.  Only the main thread changes the      *)
(* generation, so the one it reads here under job_mutex is still current   *)
(* when it goes on under socket_mutex.                                     *)

ReadGeneration ==
  /\ mpc = "resp_job" /\ job_mutex = NoOne
  /\ current_generation' = shared_job.gen
  /\ mpc' = "resp_sock"
  /\ UNCHANGED <<jobVars, socket_mutex, shareVars, flagVars, msg,
                 suggested_difficulty_sent, workVars, netVars, histVars>>

HavePending == msg.id \in DOMAIN pending_submits

\* Mutant: only the pool's text tells a discarded share.
LikelyDiscardByText == msg.verdict = "stale"

LikelyDiscard ==
  \/ msg.verdict = "stale"
  \/ HavePending /\ pending_submits[msg.id].gen # current_generation

\* Mutant: retries go on after a share was accepted.
RetryDueAnytime ==
  /\ HavePending
  /\ msg.verdict = "target"
  /\ pending_submits[msg.id].attempt = 1

\* The first rejection for the target, before any share was accepted, is
\* retried once in the other encoding.
RetryDue ==
  /\ HavePending
  /\ msg.verdict = "target"
  /\ pending_submits[msg.id].attempt = 1
  /\ share_accepts = 0

ShareAccepted ==
  /\ mpc = "resp_sock" /\ socket_mutex = NoOne
  /\ msg.verdict = "accept"
  /\ share_accepts' = share_accepts + 1
  /\ active_nonce_submit_be' = IF HavePending THEN pending_submits[msg.id].be
                                             ELSE active_nonce_submit_be
  /\ pending_submits' = Without(pending_submits, msg.id)
  /\ NextLine
  /\ UNCHANGED <<jobVars, socket_mutex, submit_id, share_rejects,
                 share_discarded, flagVars, suggested_difficulty_sent,
                 workVars, netVars, histVars>>

CountRejection ==
  IF LikelyDiscard
    THEN share_discarded' = share_discarded + 1 /\ UNCHANGED share_rejects
    ELSE share_rejects' = share_rejects + 1 /\ UNCHANGED share_discarded

ShareRejected ==
  /\ mpc = "resp_sock" /\ socket_mutex = NoOne
  /\ msg.verdict # "accept" /\ ~RetryDue
  /\ CountRejection
  /\ pending_submits' = Without(pending_submits, msg.id)
  /\ NextLine
  /\ UNCHANGED <<jobVars, socket_mutex, submit_id, share_accepts,
                 active_nonce_submit_be, flagVars, suggested_difficulty_sent,
                 workVars, netVars, histVars>>

\* Mutant: the retry is recorded with the mode of the first attempt.
RetrySameMode(share) == [share EXCEPT !.attempt = 2]

\* Mutant: a retry counts as a first attempt.
RetryAsFirst(share) == [share EXCEPT !.be = ~@]

Retry(share) == [share EXCEPT !.be = ~@, !.attempt = 2]

ShareRetried ==
  /\ mpc = "resp_sock" /\ socket_mutex = NoOne
  /\ msg.verdict # "accept" /\ RetryDue
  /\ CountRejection
  /\ submit_id' = submit_id + 1
  /\ LET share == pending_submits[msg.id]
     IN  \/ /\ CanSend /\ Deliver([kind |-> "submit", id |-> submit_id])
            /\ wire' = Put(wire, submit_id,
                           [be |-> ~share.be, sess |-> sess, of |-> msg.id])
            /\ pending_submits' =
                 Put(Without(pending_submits, msg.id), submit_id, Retry(share))
            /\ NextLine /\ UNCHANGED socket_needs_reconnect
         \/ /\ CanFail
            /\ pending_submits' = Without(pending_submits, msg.id)
            /\ socket_needs_reconnect' = TRUE /\ mpc' = "stop"
            /\ UNCHANGED <<msg, current_generation>>
            /\ UNCHANGED <<outq, wire>>
  /\ UNCHANGED <<jobVars, socket_mutex, share_accepts,
                 active_nonce_submit_be, stop_flag, engine_init_errors,
                 suggested_difficulty_sent, workVars, conn, sess, inq,
                 subscribed, announced, found_at>>

-----------------------------------------------------------------------------
(* reconnect_session: close, connect_to and the new mining.subscribe run   *)
(* without socket_mutex.                                                   *)

InvalidateJob ==
  /\ mpc = "rc_job" /\ job_mutex = NoOne
  /\ shared_job' = [shared_job EXCEPT !.valid = FALSE, !.gen = @ + 1]
  /\ mpc' = "rc_sock"
  /\ UNCHANGED <<job_mutex, socket_mutex, shareVars, flagVars, mainLocals,
                 workVars, netVars, histVars>>

ClearPending ==
  /\ mpc = "rc_sock" /\ socket_mutex = NoOne
  /\ pending_submits' = Empty
  /\ mpc' = "rc_close"
  /\ UNCHANGED <<jobVars, socket_mutex, submit_id, share_accepts,
                 share_rejects, share_discarded, active_nonce_submit_be,
                 flagVars, mainLocals, workVars, netVars, histVars>>

CloseSocket ==
  /\ mpc = "rc_close"
  /\ conn' = "closed" /\ inq' = <<>> /\ outq' = {}
  /\ mpc' = "rc_connect"
  /\ UNCHANGED <<jobVars, socket_mutex, shareVars, flagVars, mainLocals,
                 workVars, sess, subscribed, announced, histVars>>

Connect ==
  /\ mpc = "rc_connect"
  /\ conn' = "up" /\ sess' = sess + 1 /\ subscribed' = FALSE
  /\ mpc' = "rc_print"
  /\ UNCHANGED <<jobVars, socket_mutex, shareVars, flagVars, mainLocals,
                 workVars, inq, outq, announced, histVars>>

\* Back to the loop, where the flag, still set, starts over (and raises the
\* generation again: bounded by MaxGen).
ConnectFails ==
  /\ mpc = "rc_connect" /\ shared_job.gen < MaxGen
  /\ mpc' = "loop"
  /\ UNCHANGED <<jobVars, socket_mutex, shareVars, flagVars, mainLocals,
                 workVars, netVars, histVars>>

\* Mutant: the line is printed without the lock.
ReportUnlocked ==
  /\ mpc = "rc_print"
  /\ mpc' = "rc_reset"
  /\ UNCHANGED <<jobVars, socket_mutex, shareVars, flagVars, mainLocals,
                 workVars, netVars, histVars>>

\* Only prints, but waits for a worker that is still inside socket_mutex.
ReportReconnect ==
  /\ mpc = "rc_print" /\ socket_mutex = NoOne
  /\ mpc' = "rc_reset"
  /\ UNCHANGED <<jobVars, socket_mutex, shareVars, flagVars, mainLocals,
                 workVars, netVars, histVars>>

\* Mutant: the pending submits are cleared (again) with the session.
ResetAndClear ==
  /\ mpc = "rc_reset" /\ socket_mutex = NoOne
  /\ suggested_difficulty_sent' = FALSE
  /\ socket_needs_reconnect' = FALSE
  /\ pending_submits' = Empty
  /\ mpc' = "rc_subscribe"
  /\ UNCHANGED <<jobVars, socket_mutex, submit_id, share_accepts,
                 share_rejects, share_discarded, active_nonce_submit_be,
                 stop_flag, engine_init_errors, msg, current_generation,
                 workVars, netVars, histVars>>

ResetSession ==
  /\ mpc = "rc_reset"
  /\ suggested_difficulty_sent' = FALSE
  /\ socket_needs_reconnect' = FALSE
  /\ mpc' = "rc_subscribe"
  /\ UNCHANGED <<jobVars, socket_mutex, shareVars, stop_flag,
                 engine_init_errors, msg, current_generation, workVars,
                 netVars, histVars>>

Resubscribe ==
  /\ mpc = "rc_subscribe"
  /\ \/ /\ CanSend /\ Deliver([kind |-> "subscribe"])
        /\ UNCHANGED socket_needs_reconnect
     \/ /\ CanFail
        /\ socket_needs_reconnect' = TRUE
        /\ UNCHANGED outq
  /\ mpc' = "loop"
  /\ UNCHANGED <<jobVars, socket_mutex, shareVars, stop_flag,
                 engine_init_errors, mainLocals, workVars, conn, sess, inq,
                 subscribed, announced, histVars>>

-----------------------------------------------------------------------------
(* The end of the main thread.                                             *)

StopWorkers ==
  /\ mpc = "stop"
  /\ stop_flag' = TRUE /\ mpc' = "join"
  /\ UNCHANGED <<jobVars, socket_mutex, shareVars, socket_needs_reconnect,
                 engine_init_errors, mainLocals, workVars, netVars,
                 histVars>>

JoinWorkers ==
  /\ mpc = "join" /\ \A w \in Workers : wpc[w] = "exited"
  /\ mpc' = "done" /\ socket_mutex' = NoOne
  /\ UNCHANGED <<jobVars, shareVars, flagVars, mainLocals, workVars, netVars,
                 histVars>>

-----------------------------------------------------------------------------
(* A worker.  Locals that are dead are set back to their first value.      *)

SetWorker(w, pc, locals) ==
  /\ wpc' = [wpc EXCEPT ![w] = pc]
  /\ wl' = [wl EXCEPT ![w] = locals]

Idle(l) == [IdleLocals EXCEPT !.id = l.id, !.scanned = l.scanned,
                              !.hdr = IF l.scanned = 0 THEN NoHeader
                                                       ELSE l.hdr]

CreateEngine(w) ==
  /\ wpc[w] = "create"
  /\ \/ /\ wpc' = [wpc EXCEPT ![w] = "print"]
        /\ UNCHANGED engine_init_errors
     \/ /\ w \in Faulty
        /\ wpc' = [wpc EXCEPT ![w] = "exited"]
        /\ engine_init_errors' = engine_init_errors + 1
  /\ UNCHANGED <<jobVars, socket_mutex, shareVars, socket_needs_reconnect,
                 stop_flag, mpc, mainLocals, wl, netVars, histVars>>

\* The device and the chunk size are printed under socket_mutex.
PrintDevice(w) ==
  /\ wpc[w] = "print" /\ socket_mutex = NoOne
  /\ wpc' = [wpc EXCEPT ![w] = "wait"]
  /\ UNCHANGED <<jobVars, socket_mutex, shareVars, flagVars, mpc, mainLocals,
                 wl, netVars, histVars>>

\* Mutant: the wait for a job has no timeout.
SeesStopWithJob(w) ==
  /\ wpc[w] = "wait" /\ stop_flag /\ shared_job.valid
  /\ wpc' = [wpc EXCEPT ![w] = "exited"]
  /\ UNCHANGED <<jobVars, socket_mutex, shareVars, flagVars, mpc, mainLocals,
                 wl, netVars, histVars>>

SeesStop(w) ==
  /\ wpc[w] = "wait" /\ stop_flag
  /\ wpc' = [wpc EXCEPT ![w] = "exited"]
  /\ UNCHANGED <<jobVars, socket_mutex, shareVars, flagVars, mpc, mainLocals,
                 wl, netVars, histVars>>

\* Mutant: a new job goes on where the old one was.
KeepPlace(w) == wl[w].scanned

\* A new job id restarts the nonce partition.
Place(w) == IF shared_job.id # wl[w].id THEN 0 ELSE wl[w].scanned

\* The header is rebuilt only at the start of the partition.
TakeJob(w) ==
  /\ wpc[w] = "wait" /\ job_mutex = NoOne
  /\ shared_job.valid /\ ~stop_flag
  /\ SetWorker(w, "scan",
       [wl[w] EXCEPT !.id = shared_job.id, !.gen = shared_job.gen,
                     !.scanned = Place(w), !.target = shared_job.diff,
                     !.hdr = IF Place(w) = 0
                               THEN [ver |-> shared_job.ver,
                                     ex1 |-> shared_job.ex1]
                               ELSE @])
  /\ UNCHANGED <<jobVars, socket_mutex, shareVars, flagVars, mpc, mainLocals,
                 netVars, histVars>>

\* Mutant: the end of the partition is missed.
AdvanceOn(scanned) == scanned + 1

\* One chunk further, back to the start after the last one.
Advance(scanned) == (scanned + 1) % Chunks

ScanFindsNothing(w) ==
  /\ wpc[w] = "scan"
  /\ SetWorker(w, "wait", Idle([wl[w] EXCEPT !.scanned = Advance(@)]))
  /\ UNCHANGED <<jobVars, socket_mutex, shareVars, flagVars, mpc, mainLocals,
                 netVars, histVars>>

\* The nonce is written in the mode read here, without a lock; ok is the
\* CPU's verdict on the hash.  Bounded by MaxShares.
ScanFinds(w) ==
  /\ wpc[w] = "scan" /\ submit_id + share_discarded < MaxShares
  /\ \E ok \in BOOLEAN :
       SetWorker(w, "check",
         [wl[w] EXCEPT !.scanned = Advance(@), !.be = active_nonce_submit_be,
                       !.ok = ok])
  /\ found_at' = [found_at EXCEPT ![w] = shared_job.gen]
  /\ UNCHANGED <<jobVars, socket_mutex, shareVars, flagVars, mpc, mainLocals,
                 netVars, wire>>

ScanFails(w) ==
  /\ wpc[w] = "scan" /\ w \in Faulty
  /\ wpc' = [wpc EXCEPT ![w] = "failed"]
  /\ UNCHANGED <<jobVars, socket_mutex, shareVars, flagVars, mpc, mainLocals,
                 wl, netVars, histVars>>

PrintFailure(w) ==
  /\ wpc[w] = "failed" /\ socket_mutex = NoOne
  /\ wpc' = [wpc EXCEPT ![w] = "exited"]
  /\ UNCHANGED <<jobVars, socket_mutex, shareVars, flagVars, mpc, mainLocals,
                 wl, netVars, histVars>>

\* Mutant: a share is stale only while there is no job.
StaleWithoutJob(w) == ~shared_job.valid

StaleShare(w) == ~shared_job.valid \/ shared_job.gen # wl[w].gen

\* Mutant: job_mutex is kept, to close the window up to the send.
CheckStaleKeepingLock(w) ==
  /\ wpc[w] = "check" /\ job_mutex = NoOne
  /\ job_mutex' = w
  /\ SetWorker(w, "lock", [wl[w] EXCEPT !.stale = StaleShare(w)])
  /\ UNCHANGED <<shared_job, socket_mutex, shareVars, flagVars, mpc,
                 mainLocals, netVars, histVars>>

\* job_mutex is released before socket_mutex is taken.
CheckStale(w) ==
  /\ wpc[w] = "check" /\ job_mutex = NoOne
  /\ SetWorker(w, "lock", [wl[w] EXCEPT !.stale = StaleShare(w)])
  /\ UNCHANGED <<jobVars, socket_mutex, shareVars, flagVars, mpc, mainLocals,
                 netVars, histVars>>

DropShare(w) ==
  /\ wpc[w] = "lock" /\ socket_mutex = NoOne
  /\ ~wl[w].ok \/ wl[w].stale
  /\ share_discarded' = share_discarded + 1
  /\ SetWorker(w, "wait", Idle(wl[w]))
  /\ UNCHANGED <<jobVars, socket_mutex, submit_id, pending_submits,
                 share_accepts, share_rejects, active_nonce_submit_be,
                 flagVars, mpc, mainLocals, netVars, histVars>>

LockSocket(w) ==
  /\ wpc[w] = "lock" /\ socket_mutex = NoOne
  /\ wl[w].ok /\ ~wl[w].stale
  /\ socket_mutex' = w
  /\ wpc' = [wpc EXCEPT ![w] = "send"]
  /\ UNCHANGED <<jobVars, shareVars, flagVars, mpc, mainLocals, wl, netVars,
                 histVars>>

\* The mode is read a second time, for the record of the pending submit.
SendShare(w) ==
  /\ wpc[w] = "send"
  /\ submit_id' = submit_id + 1
  /\ \/ /\ CanSend /\ Deliver([kind |-> "submit", id |-> submit_id])
        /\ SetWorker(w, "record",
             [wl[w] EXCEPT !.rec = active_nonce_submit_be, !.req = submit_id])
        /\ wire' = Put(wire, submit_id,
                       [be |-> wl[w].be, sess |-> sess, of |-> submit_id])
     \/ /\ CanFail
        /\ SetWorker(w, "fail", wl[w])
        /\ UNCHANGED <<outq, wire>>
  /\ UNCHANGED <<jobVars, socket_mutex, pending_submits, share_accepts,
                 share_rejects, share_discarded, active_nonce_submit_be,
                 flagVars, mpc, mainLocals, conn, sess, inq, subscribed,
                 announced, found_at>>

RecordPending(w) ==
  /\ wpc[w] = "record"
  /\ pending_submits' = Put(pending_submits, wl[w].req,
                            [be |-> wl[w].rec, attempt |-> 1,
                             gen |-> wl[w].gen])
  /\ socket_mutex' = NoOne
  /\ SetWorker(w, "wait", Idle(wl[w]))
  /\ UNCHANGED <<jobVars, submit_id, share_accepts, share_rejects,
                 share_discarded, active_nonce_submit_be, flagVars, mpc,
                 mainLocals, netVars, histVars>>

\* Mutant: the early continue forgets the lock.
SendFailedKeepingLock(w) ==
  /\ wpc[w] = "fail"
  /\ socket_needs_reconnect' = TRUE
  /\ SetWorker(w, "wait", Idle(wl[w]))
  /\ UNCHANGED <<jobVars, socket_mutex, shareVars, stop_flag,
                 engine_init_errors, mpc, mainLocals, netVars, histVars>>

SendFailed(w) ==
  /\ wpc[w] = "fail"
  /\ socket_needs_reconnect' = TRUE
  /\ socket_mutex' = NoOne
  /\ SetWorker(w, "wait", Idle(wl[w]))
  /\ UNCHANGED <<jobVars, shareVars, stop_flag, engine_init_errors, mpc,
                 mainLocals, netVars, histVars>>

-----------------------------------------------------------------------------
\* ::send is called without MSG_NOSIGNAL and SIGPIPE is not handled: on
\* Linux a send on a connection the peer has reset may end the process.
SigpipeKills ==
  /\ Sigpipe /\ conn = "broken"
  /\ \/ mpc \in {"sub", "sub_sock"} /\ socket_mutex = NoOne
     \/ /\ mpc = "auth_sock" /\ socket_mutex = NoOne
        /\ Floor > 0 /\ ~suggested_difficulty_sent
     \/ /\ mpc = "resp_sock" /\ socket_mutex = NoOne
        /\ msg.verdict # "accept" /\ RetryDue
     \/ mpc = "rc_subscribe"
     \/ \E w \in Workers : wpc[w] = "send"
  /\ mpc' = "killed"
  /\ wpc' = [w \in Workers |-> "exited"]
  /\ UNCHANGED <<jobVars, socket_mutex, shareVars, flagVars, mainLocals, wl,
                 netVars, histVars>>

MainStep ==
  \/ CheckEngines \/ FirstSubscribe
  \/ ReadLine \/ ReadClosed \/ ReadTimesOut \/ SeesReconnectFlag
  \/ StatsLockSocket \/ StatsPrint
  \/ SubscribeResponse \/ SendAuthorize \/ AuthorizeResponse
  \/ SetDifficulty \/ ReportDifficulty \/ NotifyLockSocket \/ InstallJob
  \/ ReadGeneration \/ ShareAccepted \/ ShareRejected \/ ShareRetried
  \/ InvalidateJob \/ ClearPending \/ CloseSocket \/ Connect
  \/ ConnectFails \/ ReportReconnect \/ ResetSession \/ Resubscribe
  \/ StopWorkers \/ JoinWorkers

WorkerStep(w) ==
  \/ CreateEngine(w) \/ PrintDevice(w) \/ SeesStop(w) \/ TakeJob(w)
  \/ ScanFindsNothing(w) \/ ScanFinds(w) \/ ScanFails(w) \/ PrintFailure(w)
  \/ CheckStale(w) \/ DropShare(w) \/ LockSocket(w) \/ SendShare(w)
  \/ RecordPending(w) \/ SendFailed(w)

Environment ==
  \/ LinkBreaks \/ PoolAnswersHandshake \/ PoolAnswersShare
  \/ PoolSendsJob \/ PoolSetsDifficulty

\* The process has ended, and the one place where the code really hangs:
\* joining the workers with socket_mutex held.
JoinHoldsSocket == mpc = "join" /\ socket_mutex = Main
Stops == (Ended \/ JoinHoldsSocket) /\ UNCHANGED vars

Next ==
  \/ MainStep
  \/ \E w \in Workers : WorkerStep(w)
  \/ Environment
  \/ SigpipeKills
  \/ Stops

Spec == Init /\ [][Next]_vars

-----------------------------------------------------------------------------
(* Properties.                                                             *)

MainPcs ==
  {"init", "sub", "loop", "sub_job", "sub_sock", "auth_sock", "resp_job",
   "resp_sock", "diff_job", "diff_sock", "ntf_sock", "ntf_job", "stats_sock",
   "stats_job", "rc_job", "rc_sock", "rc_close", "rc_connect", "rc_print",
   "rc_reset", "rc_subscribe", "stop", "join", "done", "killed"}

WorkerPcs ==
  {"create", "print", "wait", "scan", "failed", "check", "lock", "send",
   "record", "fail", "exited"}

Locals ==
  [id : JobIds \cup {0}, gen : Nat, hdr : [ver : Nat, ex1 : Nat],
   scanned : 0..Chunks-1, target : Nat, be : BOOLEAN, ok : BOOLEAN,
   stale : BOOLEAN, rec : BOOLEAN, req : Nat]

Submits == [be : BOOLEAN, sess : Nat, of : Nat]

PendingSubmits == [be : BOOLEAN, attempt : {1, 2}, gen : Nat]

Jobs == [id : JobIds \cup {0}, ver : Nat, ex1 : Nat, diff : Nat, gen : Nat,
         valid : BOOLEAN]

LockTypes ==
  /\ job_mutex \in {NoOne, Main}
  /\ socket_mutex \in Procs \cup {NoOne}

JobTypes == shared_job \in Jobs

ShareTypes ==
  /\ submit_id \in Nat
  /\ share_accepts \in Nat /\ share_rejects \in Nat /\ share_discarded \in Nat
  /\ active_nonce_submit_be \in BOOLEAN
  /\ DOMAIN pending_submits \subseteq Nat
  /\ \A i \in DOMAIN pending_submits : pending_submits[i] \in PendingSubmits

FlagTypes ==
  /\ socket_needs_reconnect \in BOOLEAN /\ stop_flag \in BOOLEAN
  /\ engine_init_errors \in Nat

MainTypes ==
  /\ mpc \in MainPcs
  /\ msg \in Lines \cup {NoLine}
  /\ mpc \in {"resp_job", "resp_sock"} => msg.kind = "submit"
  /\ mpc = "diff_job" => msg.kind = "set_difficulty"
  /\ mpc \in {"ntf_sock", "ntf_job"} => msg.kind = "notify"
  /\ current_generation \in Nat
  /\ suggested_difficulty_sent \in BOOLEAN

WorkerTypes ==
  /\ wpc \in [Workers -> WorkerPcs]
  /\ wl \in [Workers -> Locals]

NetTypes ==
  /\ conn \in {"up", "broken", "closed"}
  /\ sess \in Nat /\ announced \in Nat /\ subscribed \in BOOLEAN
  /\ inq \in Seq(Lines)
  /\ outq \subseteq Requests

HistTypes ==
  /\ DOMAIN wire \subseteq Nat
  /\ \A i \in DOMAIN wire : wire[i] \in Submits
  /\ found_at \in [Workers -> Nat]

\* Every variable has its type, and the line being handled is of the kind
\* its handler reads.
TypeOK ==
  /\ LockTypes /\ JobTypes /\ ShareTypes /\ FlagTypes
  /\ MainTypes /\ WorkerTypes /\ NetTypes /\ HistTypes

\* The mutex a thread is blocked on or about to take, and those it owns.
Wants(p) ==
  LET pc == IF p = Main THEN mpc ELSE wpc[p]
  IN  IF pc \in {"sub", "sub_sock", "auth_sock", "resp_sock", "diff_sock",
                "ntf_sock", "stats_sock", "rc_sock", "rc_print",
                "print", "lock", "failed"}
        THEN {"socket_mutex"}
      ELSE IF pc \in {"sub_job", "resp_job", "diff_job", "ntf_job",
                     "stats_job", "rc_job", "wait", "check"}
        THEN {"job_mutex"} ELSE {}

Holds(p) == {m \in {"job_mutex", "socket_mutex"} :
               p = IF m = "job_mutex" THEN job_mutex ELSE socket_mutex}

\* set_difficulty takes job_mutex then socket_mutex, mining.notify and the
\* statistics the other way round: still no two threads wait for each
\* other's mutex (lines 1311-1316, 1330-1335, 1371-1440 against 977-983).
NoCircularWait ==
  \A p, q \in Procs :
    p # q => \/ Wants(p) \cap Holds(q) = {}
             \/ Wants(q) \cap Holds(p) = {}

\* Once the pool has accepted a share, the miner submits in the encoding
\* the pool understands, although workers read the mode twice and unlocked
\* (lines 963 and 995) while responses change it (line 1246).
ModeConverges == share_accepts > 0 => active_nonce_submit_be = PoolBe

\* A share goes out only if its job was still the current one when the scan
\* reported it; so the window between the stale check and the send (lines
\* 977-1001) lets at most one share of a worker through per change of job.
SendsFoundFresh ==
  \A w \in Workers : wpc[w] = "send" => wl[w].gen >= found_at[w]

\* A retry (lines 1254-1278) sends its share in the encoding that was not
\* on the wire before, on the same connection, and no share goes out a
\* third time.
RetriesOnceFlipped ==
  \A i \in DOMAIN wire :
    LET o == wire[i].of
    IN  o # i => /\ o \in DOMAIN wire /\ wire[o].of = o
                 /\ wire[o].be # wire[i].be
                 /\ wire[o].sess = wire[i].sess
                 /\ \A j \in DOMAIN wire : wire[j].of = o => j \in {o, i}

\* A send that failed on the old connection never costs the new one: outside
\* of reconnect_session the flag is up only when the connection is gone
\* (the lock of lines 1078-1081 waits for the worker of lines 1001-1003).
ReconnectOnlyWhenBroken ==
  socket_needs_reconnect /\ conn = "up" => mpc \in {"rc_print", "rc_reset"}

\* A response read from the socket always finds the submit it answers, so a
\* rejected share always gets its retry (lines 1001-1009 against 1208-1214).
ResponseFindsPending ==
  mpc = "resp_sock" /\ socket_mutex = NoOne => HavePending

\* A share sent while its generation is current was built from the current
\* job and from the extranonce1 of the connection it goes out on, provided
\* the pool gives every job an id of its own (lines 882-914, 1051-1056).
FreshSharesFit ==
  FreshIds => \A w \in Workers :
    wpc[w] = "send" /\ wl[w].gen = shared_job.gen
      => wl[w].hdr = [ver |-> shared_job.ver, ex1 |-> sess]

\* README: "the miner will not scan below that floor" (whole difficulties).
ScansAboveFloor == \A w \in Workers : wpc[w] = "scan" => wl[w].target >= Floor

\* A share whose job was replaced while it was in flight is counted as
\* discarded, never as rejected (lines 1201-1230).
RejectsAreFresh ==
  [][share_rejects' # share_rejects =>
       pending_submits[msg.id].gen = shared_job.gen]_vars

-----------------------------------------------------------------------------
(* Fairness: the scheduler runs every thread, and a thread that keeps      *)
(* trying for a mutex gets it eventually.  Nothing is assumed of the pool. *)

MainLocks == MainStep /\ Wants(Main) # {}
WorkerLocks(w) == WorkerStep(w) /\ Wants(w) # {}

Fairness ==
  /\ WF_vars(MainStep) /\ SF_vars(MainLocks)
  /\ \A w \in Workers : WF_vars(WorkerStep(w)) /\ SF_vars(WorkerLocks(w))

FairSpec == Spec /\ Fairness

\* A lost connection is replaced by one that is read from again, unless the
\* process ends (lines 1100-1104, 1346-1353).
Recovers ==
  (conn = "broken") ~> \/ conn = "up" /\ mpc = "loop"
                       \/ mpc \in {"join", "done", "killed"}

\* Leaving the loop ends the process: every worker sees stop_flag and is
\* joined (lines 1464-1468).
StopDrains == (mpc = "stop") ~> Ended

\* A worker that found a share eventually sends or drops it, whatever the
\* main thread does (lines 977-1015).
SharesAreDecided ==
  \A w \in Workers :
    (wpc[w] = "check") ~> (wpc[w] = "wait" \/ Ended \/ JoinHoldsSocket)

=============================================================================
