-------------------------- MODULE PoolMiner_proofs --------------------------
(***************************************************************************)
(* Proofs about PoolMiner, for every number of workers and every value of  *)
(* the bounds; then about its shares once they are sent.  Each answer      *)
(* comes once and finds its pending submit, the first accepted one settles *)
(* the nonce encoding, a share is retried once at most, in the other       *)
(* encoding, and lives as ShareLifecycle says.                             *)
(*                                                                         *)
(* The invariants are proved part by part.  A frame lemma names the        *)
(* actions that change a group of variables, so that the proof that a step *)
(* keeps a part of an invariant treats those actions only.                 *)
(***************************************************************************)
EXTENDS PoolShares, FiniteSetTheorems, TLAPS

-----------------------------------------------------------------------------
(* Lemmas about the operators.                                             *)

\* The fields of a line are those of its kind.
LEMMA LineFields ==
  ASSUME NEW l \in Lines
  PROVE  /\ l.kind \in {"subscribe", "authorize", "submit",
                        "set_difficulty", "notify"}
         /\ l.kind = "submit" => l.id \in Nat /\ l.verdict \in Verdicts
         /\ l.kind = "set_difficulty" => l.diff \in Diffs
         /\ l.kind = "notify" => l.id \in JobIds /\ l.ver \in Nat
  BY DEF Lines

\* So are those of the line at hand.
LEMMA MsgFields ==
  ASSUME MainTypes
  PROVE  /\ msg.kind = "submit" => msg.id \in Nat
         /\ msg.kind = "set_difficulty" => msg.diff \in Diffs
         /\ msg.kind = "notify" => msg.id \in JobIds /\ msg.ver \in Nat
  BY LineFields DEF MainTypes, NoLine

\* What Append does, place by place.
LEMMA AppendAt ==
  ASSUME NEW q \in Seq(Lines), NEW line \in Lines
  PROVE  /\ Append(q, line) \in Seq(Lines)
         /\ Len(Append(q, line)) = Len(q) + 1
         /\ \A k \in 1..Len(q) : Append(q, line)[k] = q[k]
         /\ Append(q, line)[Len(q) + 1] = line
  OBVIOUS

\* What Head and Tail do, place by place.
LEMMA TailAt ==
  ASSUME NEW q \in Seq(Lines), q # <<>>
  PROVE  /\ Tail(q) \in Seq(Lines) /\ Len(q) \in Nat \ {0}
         /\ Len(Tail(q)) = Len(q) - 1
         /\ \A k \in 1..Len(Tail(q)) : Tail(q)[k] = q[k + 1]
         /\ Head(q) = q[1]
  OBVIOUS

\* Put keeps the type of a table.
LEMMA PutTypes ==
  ASSUME NEW f, NEW S, NEW k \in Nat, NEW v \in S,
         DOMAIN f \subseteq Nat, \A i \in DOMAIN f : f[i] \in S
  PROVE  /\ DOMAIN Put(f, k, v) \subseteq Nat
         /\ \A i \in DOMAIN Put(f, k, v) : Put(f, k, v)[i] \in S
  BY DEF Put

\* So does Without.
LEMMA WithoutTypes ==
  ASSUME NEW f, NEW S, NEW k,
         DOMAIN f \subseteq Nat, \A i \in DOMAIN f : f[i] \in S
  PROVE  /\ DOMAIN Without(f, k) \subseteq Nat
         /\ \A i \in DOMAIN Without(f, k) : Without(f, k)[i] \in S
  BY DEF Without

\* A retry is a pending submit.
LEMMA RetryTypes ==
  ASSUME NEW s \in PendingSubmits
  PROVE  Retry(s) \in PendingSubmits
  BY DEF Retry, PendingSubmits

\* The locals of a worker between two scans.
LEMMA IdleTypes ==
  ASSUME NEW l \in Locals
  PROVE  Idle(l) \in Locals
<1>1. NoHeader \in [ver : Nat, ex1 : Nat]
  BY DEF NoHeader
<1>2. IdleLocals \in Locals
  BY <1>1, NumbersAssumption DEF IdleLocals, Locals
<1> DEFINE h == IF l.scanned = 0 THEN NoHeader ELSE l.hdr
<1>3. h \in [ver : Nat, ex1 : Nat]
  BY <1>1 DEF Locals
<1>4. /\ l.id \in JobIds \cup {0} /\ l.scanned \in 0..Chunks-1
  BY DEF Locals
<1> HIDE DEF h
<1>5. [IdleLocals EXCEPT !.id = l.id, !.scanned = l.scanned, !.hdr = h]
        \in Locals
  BY <1>2, <1>3, <1>4 DEF Locals
<1> QED BY <1>5 DEF Idle, h

\* The next chunk is one of the partition.
LEMMA AdvanceTypes ==
  ASSUME NEW n \in 0..Chunks-1
  PROVE  Advance(n) \in 0..Chunks-1
  BY NumbersAssumption DEF Advance

\* A step of a worker keeps the types of all workers.
LEMMA SetWorkerTypes ==
  ASSUME WorkerTypes, NEW w \in Workers, NEW pc \in WorkerPcs,
         NEW l \in Locals, SetWorker(w, pc, l)
  PROVE  WorkerTypes'
  BY DEF WorkerTypes, SetWorker

-----------------------------------------------------------------------------
(* Frames.                                                                 *)

\* Who takes and who leaves a mutex.
LEMMA LockFrame ==
  ASSUME [Next]_vars
  PROVE  \/ UNCHANGED <<job_mutex, socket_mutex>>
         \/ FirstSubscribe
         \/ StatsLockSocket
         \/ StatsPrint
         \/ SetDifficulty
         \/ ReportDifficulty
         \/ NotifyLockSocket
         \/ InstallJob
         \/ JoinWorkers
         \/ \E w \in Workers : LockSocket(w) \/ RecordPending(w) \/
                                SendFailed(w)
<1> USE DEF jobVars, shareVars, flagVars, mainLocals, workVars, netVars,
            histVars
<1>1. CASE MainStep
  BY <1>1 DEF MainStep, NextLine, CheckEngines, ReadLine, ReadClosed,
         ReadTimesOut, SeesReconnectFlag, SubscribeResponse, SendAuthorize,
         AuthorizeResponse, ReadGeneration, ShareAccepted, ShareRejected,
         ShareRetried, InvalidateJob, ClearPending, CloseSocket, Connect,
         ConnectFails, ReportReconnect, ResetSession, Resubscribe,
         StopWorkers
<1>2. ASSUME NEW w \in Workers, WorkerStep(w)
      PROVE  UNCHANGED <<job_mutex, socket_mutex>> \/ LockSocket(w) \/
             RecordPending(w) \/ SendFailed(w)
  BY <1>2 DEF WorkerStep, SetWorker, CreateEngine, PrintDevice, SeesStop,
         TakeJob, ScanFindsNothing, ScanFinds, ScanFails, PrintFailure,
         CheckStale, DropShare, SendShare
<1>3. CASE Environment \/ SigpipeKills
  BY <1>3 DEF Environment, LinkBreaks, PoolAnswersHandshake,
         PoolAnswersShare, PoolSendsJob, PoolSetsDifficulty, SigpipeKills
<1>4. CASE UNCHANGED vars
  BY <1>4 DEF vars
<1> QED BY <1>1, <1>2, <1>3, <1>4 DEF Next, Stops

\* Who changes the shared job: the main thread only.
LEMMA JobFrame ==
  ASSUME [Next]_vars
  PROVE  \/ UNCHANGED shared_job
         \/ SubscribeResponse
         \/ SetDifficulty
         \/ InstallJob
         \/ InvalidateJob
<1> USE DEF jobVars, shareVars, flagVars, mainLocals, workVars, netVars,
            histVars
<1>1. CASE MainStep
  BY <1>1 DEF MainStep, NextLine, CheckEngines, FirstSubscribe, ReadLine,
         ReadClosed, ReadTimesOut, SeesReconnectFlag, StatsLockSocket,
         StatsPrint, SendAuthorize, AuthorizeResponse, ReportDifficulty,
         NotifyLockSocket, ReadGeneration, ShareAccepted, ShareRejected,
         ShareRetried, ClearPending, CloseSocket, Connect, ConnectFails,
         ReportReconnect, ResetSession, Resubscribe, StopWorkers,
         JoinWorkers
<1>2. ASSUME NEW w \in Workers, WorkerStep(w)
      PROVE  UNCHANGED shared_job
  BY <1>2 DEF WorkerStep, SetWorker, CreateEngine, PrintDevice, SeesStop,
         TakeJob, ScanFindsNothing, ScanFinds, ScanFails, PrintFailure,
         CheckStale, DropShare, LockSocket, SendShare, RecordPending,
         SendFailed
<1>3. CASE Environment \/ SigpipeKills
  BY <1>3 DEF Environment, LinkBreaks, PoolAnswersHandshake,
         PoolAnswersShare, PoolSendsJob, PoolSetsDifficulty, SigpipeKills
<1>4. CASE UNCHANGED vars
  BY <1>4 DEF vars
<1> QED BY <1>1, <1>2, <1>3, <1>4 DEF Next, Stops

\* Who changes the submit counters, the pending submits and the mode.
LEMMA ShareFrame ==
  ASSUME [Next]_vars
  PROVE  \/ UNCHANGED shareVars
         \/ ShareAccepted
         \/ ShareRejected
         \/ ShareRetried
         \/ ClearPending
         \/ \E w \in Workers : DropShare(w) \/ SendShare(w) \/
                                RecordPending(w)
<1> USE DEF jobVars, shareVars, flagVars, mainLocals, workVars, netVars,
            histVars
<1>1. CASE MainStep
  BY <1>1 DEF MainStep, NextLine, CheckEngines, FirstSubscribe, ReadLine,
         ReadClosed, ReadTimesOut, SeesReconnectFlag, StatsLockSocket,
         StatsPrint, SubscribeResponse, SendAuthorize, AuthorizeResponse,
         SetDifficulty, ReportDifficulty, NotifyLockSocket, InstallJob,
         ReadGeneration, InvalidateJob, CloseSocket, Connect, ConnectFails,
         ReportReconnect, ResetSession, Resubscribe, StopWorkers,
         JoinWorkers
<1>2. ASSUME NEW w \in Workers, WorkerStep(w)
      PROVE  UNCHANGED shareVars \/ DropShare(w) \/ SendShare(w) \/
             RecordPending(w)
  BY <1>2 DEF WorkerStep, SetWorker, CreateEngine, PrintDevice, SeesStop,
         TakeJob, ScanFindsNothing, ScanFinds, ScanFails, PrintFailure,
         CheckStale, LockSocket, SendFailed
<1>3. CASE Environment \/ SigpipeKills
  BY <1>3 DEF Environment, LinkBreaks, PoolAnswersHandshake,
         PoolAnswersShare, PoolSendsJob, PoolSetsDifficulty, SigpipeKills
<1>4. CASE UNCHANGED vars
  BY <1>4 DEF vars
<1> QED BY <1>1, <1>2, <1>3, <1>4 DEF Next, Stops

\* Who raises and who lowers the flags.
LEMMA FlagFrame ==
  ASSUME [Next]_vars
  PROVE  \/ UNCHANGED flagVars
         \/ CheckEngines
         \/ FirstSubscribe
         \/ ReadClosed
         \/ SendAuthorize
         \/ AuthorizeResponse
         \/ ShareRetried
         \/ ResetSession
         \/ Resubscribe
         \/ StopWorkers
         \/ \E w \in Workers : CreateEngine(w) \/ SendFailed(w)
<1> USE DEF jobVars, shareVars, flagVars, mainLocals, workVars, netVars,
            histVars
<1>1. CASE MainStep
  BY <1>1 DEF MainStep, NextLine, ReadLine, ReadTimesOut, SeesReconnectFlag,
         StatsLockSocket, StatsPrint, SubscribeResponse, SetDifficulty,
         ReportDifficulty, NotifyLockSocket, InstallJob, ReadGeneration,
         ShareAccepted, ShareRejected, InvalidateJob, ClearPending,
         CloseSocket, Connect, ConnectFails, ReportReconnect, JoinWorkers
<1>2. ASSUME NEW w \in Workers, WorkerStep(w)
      PROVE  UNCHANGED flagVars \/ CreateEngine(w) \/ SendFailed(w)
  BY <1>2 DEF WorkerStep, SetWorker, PrintDevice, SeesStop, TakeJob,
         ScanFindsNothing, ScanFinds, ScanFails, PrintFailure, CheckStale,
         DropShare, LockSocket, SendShare, RecordPending
<1>3. CASE Environment \/ SigpipeKills
  BY <1>3 DEF Environment, LinkBreaks, PoolAnswersHandshake,
         PoolAnswersShare, PoolSendsJob, PoolSetsDifficulty, SigpipeKills
<1>4. CASE UNCHANGED vars
  BY <1>4 DEF vars
<1> QED BY <1>1, <1>2, <1>3, <1>4 DEF Next, Stops

\* Who changes a worker's locals: the worker, and the signal that ends it.
LEMMA WorkerFrame ==
  ASSUME [Next]_vars
  PROVE  \/ UNCHANGED workVars
         \/ SigpipeKills
         \/ \E w \in Workers : WorkerStep(w)
<1> USE DEF jobVars, shareVars, flagVars, mainLocals, workVars, netVars,
            histVars
<1>1. CASE MainStep
  BY <1>1 DEF MainStep, NextLine, CheckEngines, FirstSubscribe, ReadLine,
         ReadClosed, ReadTimesOut, SeesReconnectFlag, StatsLockSocket,
         StatsPrint, SubscribeResponse, SendAuthorize, AuthorizeResponse,
         SetDifficulty, ReportDifficulty, NotifyLockSocket, InstallJob,
         ReadGeneration, ShareAccepted, ShareRejected, ShareRetried,
         InvalidateJob, ClearPending, CloseSocket, Connect, ConnectFails,
         ReportReconnect, ResetSession, Resubscribe, StopWorkers,
         JoinWorkers
<1>2. ASSUME NEW w \in Workers, WorkerStep(w)
      PROVE  \E v \in Workers : WorkerStep(v)
  BY <1>2
<1>3. CASE Environment \/ SigpipeKills
  BY <1>3 DEF Environment, LinkBreaks, PoolAnswersHandshake,
         PoolAnswersShare, PoolSendsJob, PoolSetsDifficulty
<1>4. CASE UNCHANGED vars
  BY <1>4 DEF vars
<1> QED BY <1>1, <1>2, <1>3, <1>4 DEF Next, Stops

\* Who reads from, writes to and replaces the connection.
LEMMA NetFrame ==
  ASSUME [Next]_vars
  PROVE  \/ UNCHANGED netVars
         \/ FirstSubscribe
         \/ ReadLine
         \/ SendAuthorize
         \/ ShareRetried
         \/ CloseSocket
         \/ Connect
         \/ Resubscribe
         \/ LinkBreaks
         \/ PoolAnswersHandshake
         \/ PoolAnswersShare
         \/ PoolSendsJob
         \/ PoolSetsDifficulty
         \/ \E w \in Workers : SendShare(w)
<1> USE DEF jobVars, shareVars, flagVars, mainLocals, workVars, netVars,
            histVars
<1>1. CASE MainStep
  BY <1>1 DEF MainStep, NextLine, CheckEngines, ReadClosed, ReadTimesOut,
         SeesReconnectFlag, StatsLockSocket, StatsPrint, SubscribeResponse,
         AuthorizeResponse, SetDifficulty, ReportDifficulty,
         NotifyLockSocket, InstallJob, ReadGeneration, ShareAccepted,
         ShareRejected, InvalidateJob, ClearPending, ConnectFails,
         ReportReconnect, ResetSession, StopWorkers, JoinWorkers
<1>2. ASSUME NEW w \in Workers, WorkerStep(w)
      PROVE  UNCHANGED netVars \/ SendShare(w)
  BY <1>2 DEF WorkerStep, SetWorker, CreateEngine, PrintDevice, SeesStop,
         TakeJob, ScanFindsNothing, ScanFinds, ScanFails, PrintFailure,
         CheckStale, DropShare, LockSocket, RecordPending, SendFailed
<1>3. CASE Environment \/ SigpipeKills
  BY <1>3 DEF Environment, SigpipeKills
<1>4. CASE UNCHANGED vars
  BY <1>4 DEF vars
<1> QED BY <1>1, <1>2, <1>3, <1>4 DEF Next, Stops

\* Who finds a share, and who puts one on the wire.
LEMMA HistFrame ==
  ASSUME [Next]_vars
  PROVE  \/ UNCHANGED histVars
         \/ ShareRetried
         \/ \E w \in Workers : ScanFinds(w) \/ SendShare(w)
<1> USE DEF jobVars, shareVars, flagVars, mainLocals, workVars, netVars,
            histVars
<1>1. CASE MainStep
  BY <1>1 DEF MainStep, NextLine, CheckEngines, FirstSubscribe, ReadLine,
         ReadClosed, ReadTimesOut, SeesReconnectFlag, StatsLockSocket,
         StatsPrint, SubscribeResponse, SendAuthorize, AuthorizeResponse,
         SetDifficulty, ReportDifficulty, NotifyLockSocket, InstallJob,
         ReadGeneration, ShareAccepted, ShareRejected, InvalidateJob,
         ClearPending, CloseSocket, Connect, ConnectFails, ReportReconnect,
         ResetSession, Resubscribe, StopWorkers, JoinWorkers
<1>2. ASSUME NEW w \in Workers, WorkerStep(w)
      PROVE  UNCHANGED histVars \/ ScanFinds(w) \/ SendShare(w)
  BY <1>2 DEF WorkerStep, SetWorker, CreateEngine, PrintDevice, SeesStop,
         TakeJob, ScanFindsNothing, ScanFails, PrintFailure, CheckStale,
         DropShare, LockSocket, RecordPending, SendFailed
<1>3. CASE Environment \/ SigpipeKills
  BY <1>3 DEF Environment, LinkBreaks, PoolAnswersHandshake,
         PoolAnswersShare, PoolSendsJob, PoolSetsDifficulty, SigpipeKills
<1>4. CASE UNCHANGED vars
  BY <1>4 DEF vars
<1> QED BY <1>1, <1>2, <1>3, <1>4 DEF Next, Stops

\* Who moves the main thread: the main thread, and the signal that ends it.
LEMMA MainFrame ==
  ASSUME [Next]_vars
  PROVE  \/ UNCHANGED <<mpc, mainLocals>>
         \/ MainStep
         \/ SigpipeKills
<1> USE DEF jobVars, shareVars, flagVars, mainLocals, workVars, netVars,
            histVars
<1>1. CASE MainStep
  BY <1>1
<1>2. ASSUME NEW w \in Workers, WorkerStep(w)
      PROVE  UNCHANGED <<mpc, mainLocals>>
  BY <1>2 DEF WorkerStep, SetWorker, CreateEngine, PrintDevice, SeesStop,
         TakeJob, ScanFindsNothing, ScanFinds, ScanFails, PrintFailure,
         CheckStale, DropShare, LockSocket, SendShare, RecordPending,
         SendFailed
<1>3. CASE Environment \/ SigpipeKills
  BY <1>3 DEF Environment, LinkBreaks, PoolAnswersHandshake,
         PoolAnswersShare, PoolSendsJob, PoolSetsDifficulty
<1>4. CASE UNCHANGED vars
  BY <1>4 DEF vars
<1> QED BY <1>1, <1>2, <1>3, <1>4 DEF Next, Stops

-----------------------------------------------------------------------------
(* Type correctness.                                                       *)

\* The first state has the types.
LEMMA TypeInit == Init => TypeOK
<1> SUFFICES ASSUME Init PROVE TypeOK
  OBVIOUS
<1> USE DEF Init
<1>1. LockTypes
  BY DEF LockTypes
<1>2. JobTypes
  BY NumbersAssumption DEF JobTypes, Jobs
<1>3. ShareTypes
  BY ModesAssumption DEF ShareTypes, Empty
<1>4. FlagTypes
  BY DEF FlagTypes
<1>5. MainTypes
  BY DEF MainTypes, MainPcs
<1>6. WorkerTypes
  <2>1. IdleLocals \in Locals
    BY NumbersAssumption DEF IdleLocals, NoHeader, Locals
  <2> QED BY <2>1 DEF WorkerTypes, WorkerPcs
<1>7. NetTypes
  <2>1. inq \in Seq(Lines)
    OBVIOUS
  <2>2. sess \in Nat /\ announced \in Nat
    OBVIOUS
  <2> QED BY <2>1, <2>2 DEF NetTypes
<1>8. HistTypes
  BY DEF HistTypes, Empty
<1> QED BY <1>1, <1>2, <1>3, <1>4, <1>5, <1>6, <1>7, <1>8 DEF TypeOK

\* Every step keeps the types of the mutexes.
LEMMA LockTypesStep == TypeOK /\ [Next]_vars => LockTypes'
<1> SUFFICES ASSUME TypeOK, [Next]_vars PROVE LockTypes'
  OBVIOUS
<1> USE DEF TypeOK, jobVars, shareVars, flagVars, mainLocals, workVars,
            netVars, histVars
<1>1. CASE UNCHANGED <<job_mutex, socket_mutex>>
  BY <1>1 DEF LockTypes
<1>2. CASE FirstSubscribe
  BY <1>2, ProcsAssumption DEF FirstSubscribe, LockTypes, Procs, NextLine
<1>3. CASE StatsLockSocket
  BY <1>3, ProcsAssumption DEF StatsLockSocket, LockTypes, Procs, NextLine
<1>4. CASE StatsPrint
  BY <1>4, ProcsAssumption DEF StatsPrint, LockTypes, Procs, NextLine
<1>5. CASE SetDifficulty
  BY <1>5, ProcsAssumption DEF SetDifficulty, LockTypes, Procs, NextLine
<1>6. CASE ReportDifficulty
  BY <1>6, ProcsAssumption DEF ReportDifficulty, LockTypes, Procs, NextLine
<1>7. CASE NotifyLockSocket
  BY <1>7, ProcsAssumption DEF NotifyLockSocket, LockTypes, Procs, NextLine
<1>8. CASE InstallJob
  BY <1>8, ProcsAssumption DEF InstallJob, LockTypes, Procs, NextLine
<1>9. CASE JoinWorkers
  BY <1>9, ProcsAssumption DEF JoinWorkers, LockTypes, Procs, NextLine
<1>10. ASSUME NEW w \in Workers, LockSocket(w) PROVE LockTypes'
  BY <1>10, ProcsAssumption DEF LockSocket, LockTypes, Procs, NextLine
<1>11. ASSUME NEW w \in Workers, RecordPending(w) PROVE LockTypes'
  BY <1>11, ProcsAssumption DEF RecordPending, LockTypes, Procs, NextLine
<1>12. ASSUME NEW w \in Workers, SendFailed(w) PROVE LockTypes'
  BY <1>12, ProcsAssumption DEF SendFailed, LockTypes, Procs, NextLine
<1> QED BY <1>1, <1>2, <1>3, <1>4, <1>5, <1>6, <1>7, <1>8, <1>9, <1>10,
           <1>11, <1>12, LockFrame

\* Every step keeps the types of the shared job.
LEMMA JobTypesStep == TypeOK /\ [Next]_vars => JobTypes'
<1> SUFFICES ASSUME TypeOK, [Next]_vars PROVE JobTypes'
  OBVIOUS
<1> USE DEF TypeOK, jobVars, shareVars, flagVars, mainLocals, workVars,
            netVars, histVars
<1>1. CASE UNCHANGED shared_job
  BY <1>1 DEF JobTypes, Jobs
<1>2. CASE SubscribeResponse
  BY <1>2 DEF SubscribeResponse, JobTypes, Jobs, NetTypes
<1>3. CASE SetDifficulty
  BY <1>3, MsgFields, NumbersAssumption
     DEF SetDifficulty, Clamp, JobTypes, Jobs, MainTypes
<1>4. CASE InstallJob
  <2> DEFINE n == shared_job.gen + 1
  <2>1. n \in Nat
    BY DEF JobTypes, Jobs
  <2>2. msg.id \in JobIds /\ msg.ver \in Nat
    BY <1>4, MsgFields DEF InstallJob, MainTypes
  <2>3. shared_job' = [shared_job EXCEPT !.id = msg.id, !.ver = msg.ver,
                                        !.gen = n, !.valid = TRUE]
    BY <1>4 DEF InstallJob
  <2> HIDE DEF n
  <2> QED BY <2>1, <2>2, <2>3 DEF JobTypes, Jobs
<1>5. CASE InvalidateJob
  <2> DEFINE n == shared_job.gen + 1
  <2>1. n \in Nat
    BY DEF JobTypes, Jobs
  <2>2. shared_job' = [shared_job EXCEPT !.valid = FALSE, !.gen = n]
    BY <1>5 DEF InvalidateJob
  <2> HIDE DEF n
  <2> QED BY <2>1, <2>2 DEF JobTypes, Jobs
<1> QED BY <1>1, <1>2, <1>3, <1>4, <1>5, JobFrame

\* Every step keeps the types of the submits.
LEMMA ShareTypesStep == TypeOK /\ [Next]_vars => ShareTypes'
<1> SUFFICES ASSUME TypeOK, [Next]_vars PROVE ShareTypes'
  OBVIOUS
<1> USE DEF TypeOK, jobVars, shareVars, flagVars, mainLocals, workVars,
            netVars, histVars
<1>1. CASE UNCHANGED shareVars
  BY <1>1 DEF ShareTypes
<1>2. CASE ShareAccepted
  <2>1. pending_submits' = Without(pending_submits, msg.id)
    BY <1>2 DEF ShareAccepted
  <2>2. active_nonce_submit_be' \in BOOLEAN
    BY <1>2 DEF ShareAccepted, HavePending, ShareTypes, PendingSubmits
  <2>3. share_accepts' \in Nat
    BY <1>2 DEF ShareAccepted, ShareTypes
  <2> QED BY <1>2, <2>1, <2>2, <2>3, WithoutTypes DEF ShareAccepted, ShareTypes
<1>3. CASE ShareRejected
  <2>1. pending_submits' = Without(pending_submits, msg.id)
    BY <1>3 DEF ShareRejected
  <2>2. share_rejects' \in Nat /\ share_discarded' \in Nat
    BY <1>3 DEF ShareRejected, CountRejection, ShareTypes
  <2> QED BY <1>3, <2>1, <2>2, WithoutTypes DEF ShareRejected, ShareTypes
<1>4. CASE ShareRetried
  <2> DEFINE rest == Without(pending_submits, msg.id)
             share == pending_submits[msg.id]
  <2>1. /\ DOMAIN rest \subseteq Nat
        /\ \A i \in DOMAIN rest : rest[i] \in PendingSubmits
    BY WithoutTypes DEF ShareTypes
  <2>2. Retry(share) \in PendingSubmits
    BY <1>4, RetryTypes DEF ShareRetried, RetryDue, HavePending, ShareTypes
  <2>3. \/ pending_submits' = rest
        \/ pending_submits' = Put(rest, submit_id, Retry(share))
    BY <1>4 DEF ShareRetried
  <2>4. submit_id \in Nat /\ submit_id' \in Nat
    BY <1>4 DEF ShareRetried, ShareTypes
  <2>5. /\ DOMAIN pending_submits' \subseteq Nat
        /\ \A i \in DOMAIN pending_submits' :
             pending_submits'[i] \in PendingSubmits
    <3> HIDE DEF rest, share
    <3> QED BY <2>1, <2>2, <2>3, <2>4, PutTypes
  <2>6. share_rejects' \in Nat /\ share_discarded' \in Nat
    BY <1>4 DEF ShareRetried, CountRejection, ShareTypes
  <2> QED BY <1>4, <2>4, <2>5, <2>6 DEF ShareRetried, ShareTypes
<1>5. CASE ClearPending
  BY <1>5 DEF ClearPending, ShareTypes, Empty
<1>6. ASSUME NEW w \in Workers, DropShare(w) PROVE ShareTypes'
  BY <1>6 DEF DropShare, ShareTypes
<1>7. ASSUME NEW w \in Workers, SendShare(w) PROVE ShareTypes'
  BY <1>7 DEF SendShare, ShareTypes
<1>8. ASSUME NEW w \in Workers, RecordPending(w) PROVE ShareTypes'
  <2> DEFINE share == [be |-> wl[w].rec, attempt |-> 1, gen |-> wl[w].gen]
  <2>1. wl[w].req \in Nat /\ share \in PendingSubmits
    BY DEF WorkerTypes, Locals, PendingSubmits
  <2>2. pending_submits' = Put(pending_submits, wl[w].req, share)
    BY <1>8 DEF RecordPending
  <2> HIDE DEF share
  <2>3. /\ DOMAIN pending_submits' \subseteq Nat
        /\ \A i \in DOMAIN pending_submits' :
             pending_submits'[i] \in PendingSubmits
    BY <2>1, <2>2, PutTypes DEF ShareTypes
  <2> QED BY <1>8, <2>3 DEF RecordPending, ShareTypes
<1> QED BY <1>1, <1>2, <1>3, <1>4, <1>5, <1>6, <1>7, <1>8, ShareFrame

\* Every step keeps the types of the flags.
LEMMA FlagTypesStep == TypeOK /\ [Next]_vars => FlagTypes'
<1> SUFFICES ASSUME TypeOK, [Next]_vars PROVE FlagTypes'
  OBVIOUS
<1> USE DEF TypeOK, jobVars, shareVars, flagVars, mainLocals, workVars,
            netVars, histVars
<1>1. CASE UNCHANGED flagVars
  BY <1>1 DEF FlagTypes
<1>2. CASE CheckEngines
  BY <1>2 DEF CheckEngines, FlagTypes
<1>3. CASE FirstSubscribe
  BY <1>3 DEF FirstSubscribe, FlagTypes
<1>4. CASE ReadClosed
  BY <1>4 DEF ReadClosed, FlagTypes
<1>5. CASE SendAuthorize
  BY <1>5 DEF SendAuthorize, FlagTypes
<1>6. CASE AuthorizeResponse
  BY <1>6 DEF AuthorizeResponse, FlagTypes
<1>7. CASE ShareRetried
  BY <1>7 DEF ShareRetried, FlagTypes
<1>8. CASE ResetSession
  BY <1>8 DEF ResetSession, FlagTypes
<1>9. CASE Resubscribe
  BY <1>9 DEF Resubscribe, FlagTypes
<1>10. CASE StopWorkers
  BY <1>10 DEF StopWorkers, FlagTypes
<1>11. ASSUME NEW w \in Workers, CreateEngine(w) PROVE FlagTypes'
  BY <1>11 DEF CreateEngine, FlagTypes
<1>12. ASSUME NEW w \in Workers, SendFailed(w) PROVE FlagTypes'
  BY <1>12 DEF SendFailed, FlagTypes
<1> QED BY <1>1, <1>2, <1>3, <1>4, <1>5, <1>6, <1>7, <1>8, <1>9, <1>10,
           <1>11, <1>12, FlagFrame

\* Every step keeps the types of the workers.
LEMMA WorkerTypesStep == TypeOK /\ [Next]_vars => WorkerTypes'
<1> SUFFICES ASSUME TypeOK, [Next]_vars PROVE WorkerTypes'
  OBVIOUS
<1> USE DEF TypeOK, jobVars, shareVars, flagVars, mainLocals, workVars,
            netVars, histVars
<1>1. CASE UNCHANGED workVars
  BY <1>1 DEF WorkerTypes
<1>2. CASE SigpipeKills
  BY <1>2 DEF SigpipeKills, WorkerTypes, WorkerPcs
<1>3. ASSUME NEW w \in Workers, CreateEngine(w) PROVE WorkerTypes'
  BY <1>3 DEF CreateEngine, WorkerTypes, WorkerPcs
<1>4. ASSUME NEW w \in Workers, PrintDevice(w) PROVE WorkerTypes'
  BY <1>4 DEF PrintDevice, WorkerTypes, WorkerPcs
<1>5. ASSUME NEW w \in Workers, SeesStop(w) PROVE WorkerTypes'
  BY <1>5 DEF SeesStop, WorkerTypes, WorkerPcs
<1>6. ASSUME NEW w \in Workers, TakeJob(w) PROVE WorkerTypes'
  <2> DEFINE h == IF Place(w) = 0
                   THEN [ver |-> shared_job.ver, ex1 |-> shared_job.ex1]
                   ELSE wl[w].hdr
             l == [wl[w] EXCEPT !.id = shared_job.id, !.gen = shared_job.gen,
                                !.scanned = Place(w),
                                !.target = shared_job.diff, !.hdr = h]
  <2>1. Place(w) \in 0..Chunks-1
    BY NumbersAssumption DEF WorkerTypes, Locals, Place
  <2>2. h \in [ver : Nat, ex1 : Nat]
    BY DEF WorkerTypes, Locals, JobTypes, Jobs
  <2>3. /\ shared_job.id \in JobIds \cup {0}
        /\ shared_job.gen \in Nat /\ shared_job.diff \in Nat
    BY DEF JobTypes, Jobs
  <2>4. l \in Locals
    <3>1. wl[w] \in Locals
      BY DEF WorkerTypes
    <3> HIDE DEF h, TypeOK, WorkerTypes, JobTypes
    <3> QED BY <2>1, <2>2, <2>3, <3>1 DEF Locals
  <2>5. SetWorker(w, "scan", l)
    BY <1>6 DEF TakeJob
  <2> QED BY <2>4, <2>5, SetWorkerTypes DEF WorkerPcs
<1>7. ASSUME NEW w \in Workers, ScanFindsNothing(w) PROVE WorkerTypes'
  <2>1. [wl[w] EXCEPT !.scanned = Advance(@)] \in Locals
    BY AdvanceTypes DEF WorkerTypes, Locals
  <2>2. Idle([wl[w] EXCEPT !.scanned = Advance(@)]) \in Locals
    BY <2>1, IdleTypes
  <2> QED BY <1>7, <2>2, SetWorkerTypes DEF ScanFindsNothing, WorkerPcs
<1>8. ASSUME NEW w \in Workers, ScanFinds(w) PROVE WorkerTypes'
  <2>1. PICK ok \in BOOLEAN :
          SetWorker(w, "check", [wl[w] EXCEPT !.scanned = Advance(@),
                                              !.be = active_nonce_submit_be,
                                              !.ok = ok])
    BY <1>8 DEF ScanFinds
  <2>2. Advance(wl[w].scanned) \in 0..Chunks-1
    BY AdvanceTypes DEF WorkerTypes, Locals
  <2>3. [wl[w] EXCEPT !.scanned = Advance(@), !.be = active_nonce_submit_be,
                      !.ok = ok] \in Locals
    <3>1. wl[w] \in Locals /\ active_nonce_submit_be \in BOOLEAN
      BY DEF WorkerTypes, ShareTypes
    <3> QED BY <2>2, <3>1 DEF Locals
  <2> QED BY <2>1, <2>3, SetWorkerTypes DEF WorkerPcs
<1>9. ASSUME NEW w \in Workers, ScanFails(w) PROVE WorkerTypes'
  BY <1>9 DEF ScanFails, WorkerTypes, WorkerPcs
<1>10. ASSUME NEW w \in Workers, PrintFailure(w) PROVE WorkerTypes'
  BY <1>10 DEF PrintFailure, WorkerTypes, WorkerPcs
<1>11. ASSUME NEW w \in Workers, CheckStale(w) PROVE WorkerTypes'
  <2>1. StaleShare(w) \in BOOLEAN
    BY DEF StaleShare
  <2>2. [wl[w] EXCEPT !.stale = StaleShare(w)] \in Locals
    BY <2>1 DEF WorkerTypes, Locals
  <2> QED BY <1>11, <2>2, SetWorkerTypes DEF CheckStale, WorkerPcs
<1>12. ASSUME NEW w \in Workers, DropShare(w) PROVE WorkerTypes'
  <2>1. Idle(wl[w]) \in Locals
    BY IdleTypes DEF WorkerTypes
  <2> QED BY <1>12, <2>1, SetWorkerTypes DEF DropShare, WorkerPcs
<1>13. ASSUME NEW w \in Workers, LockSocket(w) PROVE WorkerTypes'
  BY <1>13 DEF LockSocket, WorkerTypes, WorkerPcs
<1>14. ASSUME NEW w \in Workers, SendShare(w) PROVE WorkerTypes'
  <2>1. wl[w] \in Locals
    BY DEF WorkerTypes
  <2>2. [wl[w] EXCEPT !.rec = active_nonce_submit_be, !.req = submit_id]
          \in Locals
    BY DEF WorkerTypes, ShareTypes, Locals
  <2>3. PICK pc \in WorkerPcs, l \in Locals : SetWorker(w, pc, l)
    BY <1>14, <2>1, <2>2 DEF SendShare, WorkerPcs
  <2> QED BY <2>3, SetWorkerTypes
<1>15. ASSUME NEW w \in Workers, RecordPending(w) PROVE WorkerTypes'
  <2>1. Idle(wl[w]) \in Locals
    BY IdleTypes DEF WorkerTypes
  <2> QED BY <1>15, <2>1, SetWorkerTypes DEF RecordPending, WorkerPcs
<1>16. ASSUME NEW w \in Workers, SendFailed(w) PROVE WorkerTypes'
  <2>1. Idle(wl[w]) \in Locals
    BY IdleTypes DEF WorkerTypes
  <2> QED BY <1>16, <2>1, SetWorkerTypes DEF SendFailed, WorkerPcs
<1> QED BY <1>1, <1>2, <1>3, <1>4, <1>5, <1>6, <1>7, <1>8, <1>9, <1>10,
           <1>11, <1>12, <1>13, <1>14, <1>15, <1>16, WorkerFrame
       DEF WorkerStep

\* Every step keeps the types of the connection.
LEMMA NetTypesStep == TypeOK /\ [Next]_vars => NetTypes'
<1> SUFFICES ASSUME TypeOK, [Next]_vars PROVE NetTypes'
  OBVIOUS
<1> USE DEF TypeOK, jobVars, shareVars, flagVars, mainLocals, workVars,
            netVars, histVars
<1>1. CASE UNCHANGED netVars
  BY <1>1 DEF NetTypes
<1>2. CASE FirstSubscribe
  BY <1>2 DEF FirstSubscribe, NetTypes, Requests, Deliver
<1>3. CASE ReadLine
  BY <1>3 DEF ReadLine, NetTypes
<1>4. CASE SendAuthorize
  BY <1>4 DEF SendAuthorize, NetTypes, Requests, Deliver
<1>5. CASE ShareRetried
  BY <1>5 DEF ShareRetried, Deliver, NetTypes, Requests, ShareTypes
<1>6. CASE CloseSocket
  BY <1>6 DEF CloseSocket, NetTypes, Requests, Deliver
<1>7. CASE Connect
  <2>1. sess' \in Nat
    BY <1>7 DEF Connect, NetTypes
  <2> QED BY <1>7, <2>1 DEF Connect, NetTypes
<1>8. CASE Resubscribe
  BY <1>8 DEF Resubscribe, NetTypes, Requests, Deliver
<1>9. CASE LinkBreaks
  <2>1. inq' = inq \/ inq' = <<>>
    BY <1>9 DEF LinkBreaks
  <2>2. <<>> \in Seq(Lines)
    OBVIOUS
  <2>3. inq' \in Seq(Lines)
    BY <2>1, <2>2 DEF NetTypes
  <2> QED BY <1>9, <2>3 DEF LinkBreaks, NetTypes
<1>10. CASE PoolAnswersHandshake
  BY <1>10 DEF PoolAnswersHandshake, NetTypes, Lines
<1>11. CASE PoolAnswersShare
  BY <1>11 DEF PoolAnswersShare, NetTypes, HistTypes, Lines
<1>12. CASE PoolSendsJob
  <2>1. PICK id \in JobIds :
          inq' = Append(inq, [kind |-> "notify", id |-> id,
                              ver |-> announced + 1])
    BY <1>12 DEF PoolSendsJob
  <2>2. announced' = announced + 1 /\ announced' \in Nat
    BY <1>12 DEF PoolSendsJob, NetTypes
  <2>3. inq' \in Seq(Lines)
    BY <2>1, <2>2 DEF NetTypes, Lines
  <2> QED BY <1>12, <2>2, <2>3 DEF PoolSendsJob, NetTypes
<1>13. CASE PoolSetsDifficulty
  BY <1>13 DEF PoolSetsDifficulty, NetTypes, Lines
<1>14. ASSUME NEW w \in Workers, SendShare(w) PROVE NetTypes'
  BY <1>14 DEF SendShare, Deliver, NetTypes, Requests, ShareTypes
<1> QED BY <1>1, <1>2, <1>3, <1>4, <1>5, <1>6, <1>7, <1>8, <1>9, <1>10,
           <1>11, <1>12, <1>13, <1>14, NetFrame

\* Every step keeps the types of the history.
LEMMA HistTypesStep == TypeOK /\ [Next]_vars => HistTypes'
<1> SUFFICES ASSUME TypeOK, [Next]_vars PROVE HistTypes'
  OBVIOUS
<1> USE DEF TypeOK, jobVars, shareVars, flagVars, mainLocals, workVars,
            netVars, histVars
<1>1. CASE UNCHANGED histVars
  BY <1>1 DEF HistTypes
<1>2. CASE ShareRetried
  <2> DEFINE share == [be |-> ~pending_submits[msg.id].be, sess |-> sess,
                       of |-> msg.id]
  <2>1. msg.id \in Nat
    BY <1>2, MsgFields DEF ShareRetried, MainTypes
  <2>2. share \in Submits
    BY <2>1 DEF NetTypes, Submits
  <2>3. wire' = wire \/ wire' = Put(wire, submit_id, share)
    BY <1>2 DEF ShareRetried
  <2> HIDE DEF share
  <2>4. /\ DOMAIN wire' \subseteq Nat
        /\ \A i \in DOMAIN wire' : wire'[i] \in Submits
    BY <2>2, <2>3, PutTypes DEF HistTypes, ShareTypes
  <2> QED BY <1>2, <2>4 DEF ShareRetried, HistTypes
<1>3. ASSUME NEW w \in Workers, ScanFinds(w) PROVE HistTypes'
  BY <1>3 DEF ScanFinds, HistTypes, JobTypes, Jobs
<1>4. ASSUME NEW w \in Workers, SendShare(w) PROVE HistTypes'
  <2> DEFINE share == [be |-> wl[w].be, sess |-> sess, of |-> submit_id]
  <2>1. share \in Submits
    BY DEF WorkerTypes, Locals, NetTypes, ShareTypes, Submits
  <2>2. wire' = wire \/ wire' = Put(wire, submit_id, share)
    BY <1>4 DEF SendShare
  <2> HIDE DEF share
  <2>3. /\ DOMAIN wire' \subseteq Nat
        /\ \A i \in DOMAIN wire' : wire'[i] \in Submits
    BY <2>1, <2>2, PutTypes DEF HistTypes, ShareTypes
  <2> QED BY <1>4, <2>3 DEF SendShare, HistTypes
<1> QED BY <1>1, <1>2, <1>3, <1>4, HistFrame

\* Every step keeps the types of the main thread's locals.
LEMMA MainTypesStep == TypeOK /\ [Next]_vars => MainTypes'
<1> SUFFICES ASSUME TypeOK, [Next]_vars PROVE MainTypes'
  OBVIOUS
<1> USE DEF TypeOK, jobVars, shareVars, flagVars, mainLocals, workVars,
            netVars, histVars
<1>1. CASE UNCHANGED <<mpc, mainLocals>>
  BY <1>1 DEF MainTypes
<1>2. CASE CheckEngines
  BY <1>2 DEF CheckEngines, MainTypes, MainPcs, NextLine
<1>3. CASE FirstSubscribe
  BY <1>3 DEF FirstSubscribe, MainTypes, MainPcs, NextLine
<1>4. CASE ReadLine
  <2>1. msg' \in Lines
    BY <1>4 DEF ReadLine, NetTypes
  <2>2. mpc' = HandlerOf(msg')
    BY <1>4 DEF ReadLine
  <2>3. /\ mpc' \in MainPcs
        /\ mpc' \in {"resp_job", "resp_sock"} => msg'.kind = "submit"
        /\ mpc' = "diff_job" => msg'.kind = "set_difficulty"
        /\ mpc' \in {"ntf_sock", "ntf_job"} => msg'.kind = "notify"
    BY <2>1, <2>2, LineFields DEF HandlerOf, MainPcs
  <2> QED BY <1>4, <2>1, <2>3 DEF ReadLine, MainTypes
<1>5. CASE ReadClosed
  BY <1>5 DEF ReadClosed, MainTypes, MainPcs, NextLine
<1>6. CASE ReadTimesOut
  BY <1>6 DEF ReadTimesOut, MainTypes, MainPcs, NextLine
<1>7. CASE SeesReconnectFlag
  BY <1>7 DEF SeesReconnectFlag, MainTypes, MainPcs, NextLine
<1>8. CASE StatsLockSocket
  BY <1>8 DEF StatsLockSocket, MainTypes, MainPcs, NextLine
<1>9. CASE StatsPrint
  BY <1>9 DEF StatsPrint, MainTypes, MainPcs, NextLine
<1>10. CASE SubscribeResponse
  BY <1>10 DEF SubscribeResponse, MainTypes, MainPcs, NextLine
<1>11. CASE SendAuthorize
  BY <1>11 DEF SendAuthorize, MainTypes, MainPcs, NextLine
<1>12. CASE AuthorizeResponse
  <2>1. suggested_difficulty_sent' \in BOOLEAN
    BY <1>12 DEF AuthorizeResponse, MainTypes
  <2>2. /\ msg' \in Lines \cup {NoLine} /\ current_generation' \in Nat
        /\ mpc' \in {"loop", "stop"}
    BY <1>12 DEF AuthorizeResponse, NextLine, MainTypes
  <2> QED BY <1>12, <2>1, <2>2 DEF AuthorizeResponse, MainTypes, MainPcs
<1>13. CASE SetDifficulty
  BY <1>13 DEF SetDifficulty, MainTypes, MainPcs, NextLine
<1>14. CASE ReportDifficulty
  BY <1>14 DEF ReportDifficulty, MainTypes, MainPcs, NextLine
<1>15. CASE NotifyLockSocket
  BY <1>15 DEF NotifyLockSocket, MainTypes, MainPcs, NextLine
<1>16. CASE InstallJob
  BY <1>16 DEF InstallJob, MainTypes, MainPcs, NextLine
<1>17. CASE ReadGeneration
  BY <1>17 DEF ReadGeneration, MainTypes, MainPcs, JobTypes, Jobs
<1>18. CASE ShareAccepted
  BY <1>18 DEF ShareAccepted, MainTypes, MainPcs, NextLine
<1>19. CASE ShareRejected
  BY <1>19 DEF ShareRejected, MainTypes, MainPcs, NextLine
<1>20. CASE ShareRetried
  BY <1>20 DEF ShareRetried, MainTypes, MainPcs, NextLine
<1>21. CASE InvalidateJob
  BY <1>21 DEF InvalidateJob, MainTypes, MainPcs, NextLine
<1>22. CASE ClearPending
  BY <1>22 DEF ClearPending, MainTypes, MainPcs, NextLine
<1>23. CASE CloseSocket
  BY <1>23 DEF CloseSocket, MainTypes, MainPcs, NextLine
<1>24. CASE Connect
  BY <1>24 DEF Connect, MainTypes, MainPcs, NextLine
<1>25. CASE ConnectFails
  BY <1>25 DEF ConnectFails, MainTypes, MainPcs, NextLine
<1>26. CASE ReportReconnect
  BY <1>26 DEF ReportReconnect, MainTypes, MainPcs, NextLine
<1>27. CASE ResetSession
  BY <1>27 DEF ResetSession, MainTypes, MainPcs, NextLine
<1>28. CASE Resubscribe
  BY <1>28 DEF Resubscribe, MainTypes, MainPcs, NextLine
<1>29. CASE StopWorkers
  BY <1>29 DEF StopWorkers, MainTypes, MainPcs, NextLine
<1>30. CASE JoinWorkers
  BY <1>30 DEF JoinWorkers, MainTypes, MainPcs, NextLine
<1>31. CASE SigpipeKills
  BY <1>31 DEF SigpipeKills, MainTypes, MainPcs, NextLine
<1> QED BY <1>1, <1>2, <1>3, <1>4, <1>5, <1>6, <1>7, <1>8, <1>9, <1>10,
           <1>11, <1>12, <1>13, <1>14, <1>15, <1>16, <1>17, <1>18, <1>19,
           <1>20, <1>21, <1>22, <1>23, <1>24, <1>25, <1>26, <1>27, <1>28,
           <1>29, <1>30, <1>31, MainFrame
       DEF MainStep

\* Every step keeps all types.
LEMMA TypeStep == TypeOK /\ [Next]_vars => TypeOK'
  BY LockTypesStep, JobTypesStep, ShareTypesStep, FlagTypesStep,
     MainTypesStep, WorkerTypesStep, NetTypesStep, HistTypesStep DEF TypeOK

\* Every variable keeps its type, and the line being handled is of the kind
\* its handler reads.
THEOREM TypeCorrect == Spec => []TypeOK
  BY TypeInit, TypeStep, PTL DEF Spec

-----------------------------------------------------------------------------
(* The mutexes.                                                            *)

\* Between LockSocket and the end of its critical section a worker owns
\* socket_mutex, and a worker owns it nowhere else; the main thread owns it
\* where it takes job_mutex inside it.
Sending == {"send", "record", "fail"}

Nested == {"ntf_job", "stats_job"}

WorkerSocketInv ==
  \A w \in Workers :
    /\ wpc[w] \in Sending => socket_mutex = w
    /\ socket_mutex = w => wpc[w] \in Sending \cup {"exited"}

SocketInv ==
  /\ WorkerSocketInv
  /\ mpc \in Nested => socket_mutex = Main

\* At first nobody owns socket_mutex.
LEMMA SocketInit == Init => SocketInv
  BY ProcsAssumption DEF Init, SocketInv, WorkerSocketInv, Sending, Nested

\* Every step keeps the worker that owns it in its critical section.
LEMMA WorkerSocketStep ==
  TypeOK /\ SocketInv /\ [Next]_vars => WorkerSocketInv'
<1> SUFFICES ASSUME TypeOK, SocketInv, [Next]_vars PROVE WorkerSocketInv'
  OBVIOUS
<1> USE ProcsAssumption
    DEF SocketInv, WorkerSocketInv, Sending, Nested, TypeOK, WorkerTypes,
        workVars
<1>1. CASE UNCHANGED <<job_mutex, socket_mutex>>
  <2>1. CASE UNCHANGED workVars
    BY <1>1, <2>1
  <2>2. CASE SigpipeKills
    BY <1>1, <2>2 DEF SigpipeKills
  <2>3. ASSUME NEW w \in Workers, WorkerStep(w) PROVE WorkerSocketInv'
    <3> USE DEF SetWorker
    <3>1. CASE CreateEngine(w)
      BY <1>1, <3>1 DEF CreateEngine
    <3>2. CASE PrintDevice(w) \/ SeesStop(w) \/ TakeJob(w)
      BY <1>1, <3>2 DEF PrintDevice, SeesStop, TakeJob
    <3>3. CASE ScanFindsNothing(w) \/ ScanFinds(w) \/ ScanFails(w)
      BY <1>1, <3>3 DEF ScanFindsNothing, ScanFinds, ScanFails
    <3>4. CASE PrintFailure(w) \/ CheckStale(w) \/ DropShare(w)
      BY <1>1, <3>4 DEF PrintFailure, CheckStale, DropShare
    <3>5. CASE LockSocket(w)
      BY <1>1, <3>5 DEF LockSocket
    <3>6. CASE SendShare(w)
      BY <1>1, <3>6 DEF SendShare
    <3>7. CASE RecordPending(w) \/ SendFailed(w)
      BY <1>1, <3>7 DEF RecordPending, SendFailed
    <3> QED BY <2>3, <3>1, <3>2, <3>3, <3>4, <3>5, <3>6, <3>7 DEF WorkerStep
  <2> QED BY <2>1, <2>2, <2>3, WorkerFrame
<1>2. CASE FirstSubscribe
  BY <1>2 DEF FirstSubscribe
<1>3. CASE StatsLockSocket \/ StatsPrint
  BY <1>3 DEF StatsLockSocket, StatsPrint
<1>4. CASE SetDifficulty \/ ReportDifficulty
  BY <1>4 DEF SetDifficulty, ReportDifficulty
<1>5. CASE NotifyLockSocket \/ InstallJob
  BY <1>5 DEF NotifyLockSocket, InstallJob
<1>6. CASE JoinWorkers
  BY <1>6 DEF JoinWorkers
<1>7. ASSUME NEW w \in Workers, LockSocket(w) PROVE WorkerSocketInv'
  BY <1>7 DEF LockSocket
<1>8. ASSUME NEW w \in Workers, RecordPending(w) PROVE WorkerSocketInv'
  BY <1>8 DEF RecordPending, SetWorker
<1>9. ASSUME NEW w \in Workers, SendFailed(w) PROVE WorkerSocketInv'
  BY <1>9 DEF SendFailed, SetWorker
<1> QED
  BY <1>1, <1>2, <1>3, <1>4, <1>5, <1>6, <1>7, <1>8, <1>9, LockFrame

\* Every step keeps it with the main thread while that takes job_mutex.
LEMMA MainSocketStep ==
  TypeOK /\ SocketInv /\ [Next]_vars
    => (mpc \in Nested => socket_mutex = Main)'
<1> SUFFICES ASSUME TypeOK, SocketInv, [Next]_vars, mpc' \in Nested
             PROVE  socket_mutex' = Main
  OBVIOUS
<1> USE ProcsAssumption DEF SocketInv, Nested
<1>1. CASE UNCHANGED <<mpc, mainLocals>>
  <2>1. CASE UNCHANGED <<job_mutex, socket_mutex>>
    BY <1>1, <2>1
  <2>2. CASE \/ FirstSubscribe \/ StatsLockSocket \/ StatsPrint
             \/ SetDifficulty \/ ReportDifficulty
             \/ NotifyLockSocket \/ InstallJob \/ JoinWorkers
    BY <1>1, <2>2
       DEF FirstSubscribe, StatsLockSocket, StatsPrint, SetDifficulty,
           ReportDifficulty, NotifyLockSocket, InstallJob, JoinWorkers,
           NextLine
  <2>3. ASSUME NEW w \in Workers,
               LockSocket(w) \/ RecordPending(w) \/ SendFailed(w)
        PROVE  socket_mutex' = Main
    BY <1>1, <2>3 DEF WorkerSocketInv, Sending, LockSocket, RecordPending,
                      SendFailed
  <2> QED BY <2>1, <2>2, <2>3, LockFrame
<1>2. CASE MainStep
  <2>1. CASE NotifyLockSocket \/ StatsLockSocket
    BY <2>1 DEF NotifyLockSocket, StatsLockSocket
  <2>2. CASE ReadLine
    <3>1. msg' \in Lines
      BY <2>2 DEF ReadLine, TypeOK, NetTypes
    <3>2. mpc' \notin Nested
      BY <2>2, <3>1, LineFields DEF ReadLine, HandlerOf
    <3> QED BY <3>2
  <2>3. CASE ~(NotifyLockSocket \/ StatsLockSocket \/ ReadLine)
    BY <1>2, <2>3
       DEF MainStep, NextLine, CheckEngines, FirstSubscribe, ReadClosed,
           ReadTimesOut, SeesReconnectFlag, StatsPrint, SubscribeResponse,
           SendAuthorize, AuthorizeResponse, SetDifficulty,
           ReportDifficulty, InstallJob, ReadGeneration, ShareAccepted,
           ShareRejected, ShareRetried, InvalidateJob, ClearPending,
           CloseSocket, Connect, ConnectFails, ReportReconnect,
           ResetSession, Resubscribe, StopWorkers, JoinWorkers
  <2> QED BY <2>1, <2>2, <2>3
<1>3. CASE SigpipeKills
  BY <1>3 DEF SigpipeKills
<1> QED BY <1>1, <1>2, <1>3, MainFrame

\* Every step keeps both.
LEMMA SocketStep == TypeOK /\ SocketInv /\ [Next]_vars => SocketInv'
  BY WorkerSocketStep, MainSocketStep DEF SocketInv

\* The ownership of socket_mutex is as its critical sections say.
LEMMA SocketCorrect == Spec => [](TypeOK /\ SocketInv)
  BY TypeInit, TypeStep, SocketInit, SocketStep, PTL DEF Spec

\* A worker that owns a mutex waits for none.
LEMMA NoWaitHolding == TypeOK /\ SocketInv => NoCircularWait
<1> SUFFICES ASSUME TypeOK, SocketInv,
                    NEW p \in Procs, NEW q \in Procs, p # q
             PROVE  Wants(p) \cap Holds(q) = {} \/ Wants(q) \cap Holds(p) = {}
  BY DEF NoCircularWait
<1>1. ASSUME NEW w \in Workers
      PROVE  Holds(w) = {} \/ Wants(w) = {}
  BY <1>1, ProcsAssumption
     DEF Holds, Wants, SocketInv, WorkerSocketInv, Sending, TypeOK,
         LockTypes
<1>2. Holds(p) = {} \/ Wants(p) = {} \/ Holds(q) = {} \/ Wants(q) = {}
  BY <1>1 DEF Procs
<1> QED BY <1>2

\* set_difficulty takes job_mutex then socket_mutex, mining.notify and the
\* statistics the other way round: still no two threads wait for each
\* other's mutex, because the one thread that nests them is the main thread
\* and a worker that owns a mutex waits for nothing.
THEOREM DeadlockFree == Spec => []NoCircularWait
  BY SocketCorrect, NoWaitHolding, PTL

-----------------------------------------------------------------------------
(* The difficulty floor.                                                   *)

\* The difficulty of the shared job, and those the devices scan for.
FloorInv ==
  /\ shared_job.diff >= Floor
  /\ ScansAboveFloor

\* The first difficulty is the floor.
LEMMA FloorInit == Init => FloorInv
  BY NumbersAssumption DEF Init, FloorInv, ScansAboveFloor

\* The clamp keeps every later one above it.
LEMMA FloorStep == TypeOK /\ FloorInv /\ [Next]_vars => FloorInv'
<1> SUFFICES ASSUME TypeOK, FloorInv, [Next]_vars PROVE FloorInv'
  OBVIOUS
<1> USE DEF FloorInv, ScansAboveFloor, TypeOK, jobVars, shareVars, flagVars,
            mainLocals, workVars, netVars, histVars
<1>1. (shared_job.diff >= Floor)'
  <2>1. CASE UNCHANGED shared_job
    BY <2>1
  <2>2. CASE SubscribeResponse
    BY <2>2 DEF SubscribeResponse, JobTypes, Jobs
  <2>3. CASE SetDifficulty
    <3>1. msg.diff \in Nat
      BY <2>3, MsgFields, NumbersAssumption DEF SetDifficulty, MainTypes
    <3>2. Clamp(msg.diff) >= Floor
      BY <3>1, NumbersAssumption DEF Clamp
    <3> QED BY <2>3, <3>2 DEF SetDifficulty, JobTypes, Jobs
  <2>4. CASE InstallJob
    BY <2>4 DEF InstallJob, JobTypes, Jobs
  <2>5. CASE InvalidateJob
    BY <2>5 DEF InvalidateJob, JobTypes, Jobs
  <2> QED BY <2>1, <2>2, <2>3, <2>4, <2>5, JobFrame
<1>2. ScansAboveFloor'
  <2>1. CASE UNCHANGED workVars
    BY <2>1
  <2>2. CASE SigpipeKills
    BY <2>2 DEF SigpipeKills
  <2>3. ASSUME NEW w \in Workers, WorkerStep(w) PROVE ScansAboveFloor'
    <3> USE DEF SetWorker, WorkerTypes
    <3>1. CASE TakeJob(w)
      <4> wl'[w].target = shared_job.diff
        BY <3>1 DEF TakeJob, Locals
      <4> QED BY <3>1 DEF TakeJob
    <3>2. CASE CreateEngine(w) \/ PrintDevice(w) \/ SeesStop(w)
      BY <3>2 DEF CreateEngine, PrintDevice, SeesStop
    <3>3. CASE ScanFindsNothing(w) \/ ScanFinds(w) \/ ScanFails(w)
      BY <3>3 DEF ScanFindsNothing, ScanFinds, ScanFails
    <3>4. CASE PrintFailure(w) \/ CheckStale(w) \/ DropShare(w)
      BY <3>4 DEF PrintFailure, CheckStale, DropShare
    <3>5. CASE LockSocket(w) \/ SendShare(w)
      BY <3>5 DEF LockSocket, SendShare
    <3>6. CASE RecordPending(w) \/ SendFailed(w)
      BY <3>6 DEF RecordPending, SendFailed
    <3> QED BY <2>3, <3>1, <3>2, <3>3, <3>4, <3>5, <3>6 DEF WorkerStep
  <2> QED BY <2>1, <2>2, <2>3, WorkerFrame
<1> QED BY <1>1, <1>2

\* Whatever difficulty the pool sets, no device scans for a target below the
\* requested floor.
THEOREM FloorKept == Spec => []ScansAboveFloor
<1>1. TypeOK /\ FloorInv /\ [Next]_vars => (TypeOK /\ FloorInv)'
  BY TypeStep, FloorStep
<1> QED BY <1>1, TypeInit, FloorInit, PTL DEF Spec, FloorInv

-----------------------------------------------------------------------------
(* The window between the stale check and the send.                        *)

\* A share that is on its way to the socket was found no later than its job
\* was replaced; the generation only grows.
FoundInv ==
  /\ \A w \in Workers : found_at[w] =< shared_job.gen
  /\ \A w \in Workers :
       wpc[w] = "lock" /\ ~wl[w].stale => found_at[w] =< wl[w].gen
  /\ \A w \in Workers : wpc[w] = "send" => found_at[w] =< wl[w].gen

\* At first nothing was found.
LEMMA FoundInit == Init => FoundInv
  BY DEF Init, FoundInv

\* No step lowers the generation.
LEMMA GenerationGrows ==
  TypeOK /\ [Next]_vars =>
    shared_job'.gen \in Nat /\ shared_job.gen =< shared_job'.gen
<1> SUFFICES ASSUME TypeOK, [Next]_vars
             PROVE  /\ shared_job'.gen \in Nat
                    /\ shared_job.gen =< shared_job'.gen
  OBVIOUS
<1> USE DEF TypeOK, JobTypes, Jobs
<1>1. CASE UNCHANGED shared_job
  BY <1>1
<1>2. CASE SubscribeResponse
  BY <1>2 DEF SubscribeResponse
<1>3. CASE SetDifficulty
  BY <1>3 DEF SetDifficulty
<1>4. CASE InstallJob
  BY <1>4 DEF InstallJob
<1>5. CASE InvalidateJob
  BY <1>5 DEF InvalidateJob
<1> QED BY <1>1, <1>2, <1>3, <1>4, <1>5, JobFrame

\* The stale check compares with the generation that bounds found_at.
LEMMA FoundStep == TypeOK /\ FoundInv /\ [Next]_vars => FoundInv'
<1> SUFFICES ASSUME TypeOK, FoundInv, [Next]_vars PROVE FoundInv'
  OBVIOUS
<1>0. shared_job'.gen \in Nat /\ shared_job.gen \in Nat
      /\ shared_job.gen =< shared_job'.gen
  BY GenerationGrows DEF TypeOK, JobTypes, Jobs
<1> USE DEF FoundInv, TypeOK, WorkerTypes, HistTypes, workVars, histVars
<1>1. CASE UNCHANGED <<workVars, histVars>>
  BY <1>0, <1>1
<1>2. CASE SigpipeKills
  BY <1>0, <1>2 DEF SigpipeKills
<1>3. CASE ShareRetried
  BY <1>0, <1>3 DEF ShareRetried
<1>4. ASSUME NEW w \in Workers, WorkerStep(w) PROVE FoundInv'
  <2> USE DEF SetWorker
  <2>1. CASE CreateEngine(w) \/ PrintDevice(w) \/ SeesStop(w)
    BY <1>0, <2>1 DEF CreateEngine, PrintDevice, SeesStop
  <2>2. CASE TakeJob(w) \/ ScanFindsNothing(w) \/ ScanFails(w)
    BY <1>0, <2>2 DEF TakeJob, ScanFindsNothing, ScanFails
  <2>3. CASE ScanFinds(w)
    BY <1>0, <2>3 DEF ScanFinds, JobTypes, Jobs
  <2>4. CASE CheckStale(w)
    <3>1. wl'[w].gen = wl[w].gen /\ wl'[w].stale = StaleShare(w)
      BY <2>4 DEF CheckStale, Locals
    <3>2. ~wl'[w].stale => found_at[w] =< wl'[w].gen
      BY <3>1 DEF StaleShare
    <3> QED BY <1>0, <2>4, <3>2 DEF CheckStale
  <2>5. CASE PrintFailure(w) \/ DropShare(w)
    BY <1>0, <2>5 DEF PrintFailure, DropShare
  <2>6. CASE LockSocket(w)
    BY <1>0, <2>6 DEF LockSocket
  <2>7. CASE SendShare(w)
    BY <1>0, <2>7 DEF SendShare
  <2>8. CASE RecordPending(w) \/ SendFailed(w)
    BY <1>0, <2>8 DEF RecordPending, SendFailed
  <2> QED
    BY <1>4, <2>1, <2>2, <2>3, <2>4, <2>5, <2>6, <2>7, <2>8 DEF WorkerStep
<1> QED
  BY <1>1, <1>2, <1>3, <1>4, WorkerFrame, HistFrame DEF WorkerStep

\* The check for a stale share and the send are separate critical sections;
\* what is sent was still current when the scan reported it.
THEOREM SentWhileFresh == Spec => []SendsFoundFresh
<1>1. TypeOK /\ FoundInv /\ [Next]_vars => (TypeOK /\ FoundInv)'
  BY TypeStep, FoundStep
<1>2. TypeOK /\ FoundInv => SendsFoundFresh
  BY DEF TypeOK, WorkerTypes, HistTypes, Locals, FoundInv, SendsFoundFresh
<1> QED BY <1>1, <1>2, TypeInit, FoundInit, PTL DEF Spec

-----------------------------------------------------------------------------
(* The reconnect flag.                                                     *)

\* A worker whose send failed has not met the new connection, or keeps the
\* main thread from going on with it.
ReconnectInv ==
  /\ ReconnectOnlyWhenBroken
  /\ \A w \in Workers : wpc[w] = "fail" => conn # "up" \/ mpc = "rc_print"

\* At first the flag is down.
LEMMA ReconnectInit == Init => ReconnectInv
  BY DEF Init, ReconnectInv, ReconnectOnlyWhenBroken

\* The report of the reconnect waits for the worker whose send failed.
LEMMA ReconnectStep ==
  TypeOK /\ SocketInv /\ ReconnectInv /\ [Next]_vars => ReconnectInv'
<1> SUFFICES ASSUME TypeOK, SocketInv, ReconnectInv, [Next]_vars
             PROVE  ReconnectInv'
  OBVIOUS
<1> USE DEF ReconnectInv, ReconnectOnlyWhenBroken, TypeOK, FlagTypes,
            WorkerTypes
<1>1. CASE MainStep
  <2> USE DEF jobVars, shareVars, flagVars, mainLocals, workVars, netVars,
              histVars
  <2>1. CASE ReadClosed \/ CloseSocket \/ Connect \/ ConnectFails
    BY <2>1 DEF ReadClosed, CloseSocket, Connect, ConnectFails
  <2>2. CASE ReportReconnect
    <3>1. \A w \in Workers : wpc[w] # "fail"
      BY <2>2, ProcsAssumption
         DEF ReportReconnect, SocketInv, WorkerSocketInv, Sending
    <3> QED BY <2>2, <3>1 DEF ReportReconnect
  <2>3. CASE ResetSession \/ Resubscribe
    BY <2>3 DEF ResetSession, Resubscribe, CanFail
  <2>4. CASE SendAuthorize \/ AuthorizeResponse \/ ShareRetried
    BY <2>4 DEF SendAuthorize, AuthorizeResponse, ShareRetried, CanFail,
                NextLine
  <2>5. CASE ~(\/ ReadClosed \/ CloseSocket \/ Connect \/ ConnectFails
               \/ ReportReconnect \/ ResetSession \/ Resubscribe
               \/ SendAuthorize \/ AuthorizeResponse \/ ShareRetried)
    <3>1. /\ UNCHANGED <<conn, wpc, socket_needs_reconnect>>
          /\ mpc \notin {"rc_print", "rc_reset"}
      BY <1>1, <2>5
         DEF MainStep, CheckEngines, FirstSubscribe, ReadLine, ReadTimesOut,
             SeesReconnectFlag, StatsLockSocket, StatsPrint,
             SubscribeResponse, SetDifficulty, ReportDifficulty,
             NotifyLockSocket, InstallJob, ReadGeneration, ShareAccepted,
             ShareRejected, InvalidateJob, ClearPending, StopWorkers,
             JoinWorkers
    <3> QED BY <3>1
  <2> QED BY <2>1, <2>2, <2>3, <2>4, <2>5
<1>2. ASSUME NEW w \in Workers, WorkerStep(w) PROVE ReconnectInv'
  <2> USE DEF SetWorker, flagVars, mainLocals, netVars
  <2>1. CASE SendShare(w)
    BY <2>1 DEF SendShare, CanFail
  <2>2. CASE SendFailed(w)
    BY <2>2 DEF SendFailed
  <2>3. CASE ~(SendShare(w) \/ SendFailed(w))
    <3>1. UNCHANGED <<socket_needs_reconnect, mpc, conn>>
      BY <1>2, <2>3
         DEF WorkerStep, CreateEngine, PrintDevice, SeesStop, TakeJob,
             ScanFindsNothing, ScanFinds, ScanFails, PrintFailure,
             CheckStale, DropShare, LockSocket, RecordPending
    <3>2. \E pc : wpc' = [wpc EXCEPT ![w] = pc] /\ pc # "fail"
      BY <1>2, <2>3
         DEF WorkerStep, CreateEngine, PrintDevice, SeesStop, TakeJob,
             ScanFindsNothing, ScanFinds, ScanFails, PrintFailure,
             CheckStale, DropShare, LockSocket, RecordPending
    <3> QED BY <3>1, <3>2
  <2> QED BY <2>1, <2>2, <2>3
<1>3. CASE Environment \/ SigpipeKills
  <2> USE DEF flagVars, workVars
  <2>1. CASE LinkBreaks
    BY <2>1 DEF LinkBreaks
  <2>2. CASE SigpipeKills
    BY <2>2 DEF SigpipeKills, netVars
  <2>3. CASE \/ PoolAnswersHandshake \/ PoolAnswersShare
             \/ PoolSendsJob \/ PoolSetsDifficulty
    BY <2>3 DEF PoolAnswersHandshake, PoolAnswersShare, PoolSendsJob,
                PoolSetsDifficulty
  <2> QED BY <1>3, <2>1, <2>2, <2>3 DEF Environment
<1>4. CASE UNCHANGED vars
  BY <1>4 DEF vars
<1> QED BY <1>1, <1>2, <1>3, <1>4 DEF Next, Stops

\* A send that failed on the old connection never costs the new one: outside
\* of reconnect_session the flag is up only when the connection is gone.
THEOREM FlagMeansBroken == Spec => []ReconnectOnlyWhenBroken
<1>1. TypeOK /\ SocketInv /\ ReconnectInv /\ [Next]_vars
        => (TypeOK /\ SocketInv /\ ReconnectInv)'
  BY TypeStep, SocketStep, ReconnectStep
<1> QED
  BY <1>1, TypeInit, SocketInit, ReconnectInit, PTL DEF Spec, ReconnectInv

-----------------------------------------------------------------------------
(* The job and the connection of a share.                                  *)

\* The main thread is done with its lines.
Leaving == {"stop", "join", "done", "killed"}

\* From here on reconnect_session has no job for the workers.
Renewing == {"rc_sock", "rc_close", "rc_connect", "rc_print", "rc_reset",
             "rc_subscribe"}

\* The extranonce1 is the one of this connection, or about to be; once the
\* loop is left it does not matter.
Told == shared_job.ex1 = sess \/ mpc = "sub_job" \/ mpc \in Leaving

\* The answer to the subscription waits among the first n lines of q.
Waits(q, n) == \E j \in 1..n : q[j].kind = "subscribe"

\* The pool sends jobs only after that answer, so a job is installed with
\* the extranonce1 of the connection it came on.
SubscribedInv ==
  /\ mpc \in {"ntf_sock", "ntf_job"} => shared_job.ex1 = sess
  /\ \A k \in 1..Len(inq) :
       inq[k].kind = "notify" => Told \/ Waits(inq, k - 1)
  /\ conn = "up" /\ subscribed => Told \/ Waits(inq, Len(inq))

\* A valid job belongs to this connection, and is given up before the next.
ValidInv ==
  shared_job.valid => shared_job.ex1 = sess /\ mpc \notin Renewing

\* Nothing is received while there is no socket.
ClosedInv == mpc = "rc_connect" => conn = "closed" /\ inq = <<>>

SessionInv == SubscribedInv /\ ValidInv /\ ClosedInv

\* At first there is no job.
LEMMA SessionInit == Init => SessionInv
  BY DEF Init, SessionInv, SubscribedInv, ValidInv, ClosedInv

\* A line that takes its place changes nothing for those before it.
LEMMA WaitsPush ==
  ASSUME NEW q \in Seq(Lines), NEW line \in Lines, NEW n \in 0..Len(q)
  PROVE  /\ Waits(Append(q, line), n) <=> Waits(q, n)
         /\ Waits(q, Len(q)) => Waits(Append(q, line), Len(q) + 1)
         /\ line.kind = "subscribe" => Waits(Append(q, line), Len(q) + 1)
<1> DEFINE p == Append(q, line)
<1>1. /\ Len(q) \in Nat /\ Len(p) = Len(q) + 1
      /\ \A k \in 1..Len(q) : p[k] = q[k]
      /\ p[Len(q) + 1] = line
  BY AppendAt
<1> HIDE DEF p
<1>2. /\ Waits(p, n) <=> Waits(q, n)
      /\ Waits(q, Len(q)) => Waits(p, Len(q) + 1)
      /\ line.kind = "subscribe" => Waits(p, Len(q) + 1)
  BY <1>1 DEF Waits
<1> QED BY <1>2 DEF p

\* A step of the main thread that receives nothing and leaves job and
\* connection alone.
LEMMA SessionQuiet ==
  ASSUME SessionInv, UNCHANGED <<inq, sess, conn, subscribed>>,
         shared_job'.ex1 = shared_job.ex1,
         shared_job'.valid = shared_job.valid,
         mpc' \in {"ntf_sock", "ntf_job"} => mpc \in {"ntf_sock", "ntf_job"},
         mpc' \in Renewing => mpc \in Renewing,
         mpc' = "rc_connect" => mpc = "rc_connect",
         mpc \in Leaving \cup {"sub_job"} => mpc' \in Leaving \cup {"sub_job"}
  PROVE  SessionInv'
<1>1. Told => Told'
  BY DEF Told
<1>2. SubscribedInv'
  BY <1>1 DEF SessionInv, SubscribedInv, Waits
<1>3. ValidInv' /\ ClosedInv'
  BY DEF SessionInv, ValidInv, ClosedInv
<1> QED BY <1>2, <1>3 DEF SessionInv

\* The pool and the network keep the order of the lines.
LEMMA SessionReceives ==
  ASSUME TypeOK, SessionInv, Environment
  PROVE  SessionInv'
<1> USE DEF jobVars, netVars, Leaving, Renewing
<1>0. inq \in Seq(Lines) /\ Len(inq) \in Nat
  BY DEF TypeOK, NetTypes
<1>a. subscribed \in BOOLEAN
  BY DEF TypeOK, NetTypes
<1>1. CASE LinkBreaks
  <2>1. /\ inq' = inq \/ inq' = <<>>
        /\ conn' = "broken" /\ conn = "up"
        /\ UNCHANGED <<shared_job, sess, subscribed, mpc>>
    BY <1>1 DEF LinkBreaks
  <2>2. Told' = Told
    BY <2>1 DEF Told
  <2> QED
    BY <2>1, <2>2
       DEF SessionInv, SubscribedInv, ValidInv, ClosedInv, Waits
<1>2. ASSUME NEW line \in Lines, inq' = Append(inq, line), conn = "up",
             UNCHANGED <<shared_job, sess, conn, mpc>>,
             line.kind = "notify" => subscribed,
             subscribed' = (subscribed \/ line.kind = "subscribe")
      PROVE  SessionInv'
  <2>1. Told' = Told
    BY <1>2 DEF Told
  <2>2. /\ Len(inq') = Len(inq) + 1
        /\ \A k \in 1..Len(inq) : inq'[k] = inq[k]
        /\ inq'[Len(inq) + 1] = line
        /\ \A n \in 0..Len(inq) : Waits(inq', n) <=> Waits(inq, n)
        /\ Waits(inq, Len(inq)) => Waits(inq', Len(inq'))
        /\ line.kind = "subscribe" => Waits(inq', Len(inq'))
    BY <1>0, <1>2, AppendAt, WaitsPush
  <2>3. ASSUME NEW k \in 1..Len(inq'), inq'[k].kind = "notify"
        PROVE  Told' \/ Waits(inq', k - 1)
    <3>1. CASE k \in 1..Len(inq)
      BY <1>0, <2>1, <2>2, <2>3, <3>1 DEF SessionInv, SubscribedInv
    <3>2. CASE k = Len(inq) + 1
      BY <1>0, <1>2, <2>1, <2>2, <2>3, <3>2 DEF SessionInv, SubscribedInv
    <3> QED BY <1>0, <2>2, <3>1, <3>2
  <2>4. conn' = "up" /\ subscribed' => Told' \/ Waits(inq', Len(inq'))
    BY <1>2, <2>1, <2>2 DEF SessionInv, SubscribedInv
  <2>5. SubscribedInv'
    BY <1>2, <2>3, <2>4 DEF SessionInv, SubscribedInv
  <2>6. ValidInv' /\ ClosedInv'
    BY <1>2 DEF SessionInv, ValidInv, ClosedInv
  <2> QED BY <2>5, <2>6 DEF SessionInv
<1>3. CASE PoolAnswersHandshake
  <2>1. PICK k \in {"subscribe", "authorize"}, ok \in BOOLEAN :
          /\ inq' = Append(inq, [kind |-> k, ok |-> ok])
          /\ subscribed' = (subscribed \/ k = "subscribe")
    BY <1>3 DEF PoolAnswersHandshake
  <2>2. [kind |-> k, ok |-> ok] \in Lines
    BY DEF Lines
  <2>3. UNCHANGED <<shared_job, sess, conn, mpc>> /\ conn = "up"
    BY <1>3 DEF PoolAnswersHandshake, CanPush
  <2> QED BY <1>a, <1>2, <2>1, <2>2, <2>3
<1>4. CASE PoolAnswersShare
  <2>1. PICK i \in DOMAIN wire, v \in Verdicts :
          inq' = Append(inq, [kind |-> "submit", id |-> i, verdict |-> v])
    BY <1>4 DEF PoolAnswersShare
  <2>2. [kind |-> "submit", id |-> i, verdict |-> v] \in Lines
    BY DEF Lines, TypeOK, HistTypes
  <2>3. /\ UNCHANGED <<shared_job, sess, conn, mpc, subscribed>>
        /\ conn = "up"
    BY <1>4 DEF PoolAnswersShare, CanPush
  <2> QED BY <1>a, <1>2, <2>1, <2>2, <2>3
<1>5. CASE PoolSendsJob
  <2>1. PICK id \in JobIds :
          inq' = Append(inq, [kind |-> "notify", id |-> id,
                              ver |-> announced + 1])
    BY <1>5 DEF PoolSendsJob
  <2>2. [kind |-> "notify", id |-> id, ver |-> announced + 1] \in Lines
    BY DEF Lines, TypeOK, NetTypes
  <2>3. /\ UNCHANGED <<shared_job, sess, conn, mpc, subscribed>>
        /\ conn = "up" /\ subscribed
    BY <1>5 DEF PoolSendsJob, CanPush
  <2> QED BY <1>a, <1>2, <2>1, <2>2, <2>3
<1>6. CASE PoolSetsDifficulty
  <2>1. PICK d \in Diffs :
          inq' = Append(inq, [kind |-> "set_difficulty", diff |-> d])
    BY <1>6 DEF PoolSetsDifficulty
  <2>2. [kind |-> "set_difficulty", diff |-> d] \in Lines
    BY DEF Lines
  <2>3. /\ UNCHANGED <<shared_job, sess, conn, mpc, subscribed>>
        /\ conn = "up"
    BY <1>6 DEF PoolSetsDifficulty, CanPush
  <2> QED BY <1>a, <1>2, <2>1, <2>2, <2>3
<1> QED BY <1>1, <1>3, <1>4, <1>5, <1>6 DEF Environment

\* Reading a line, the job and the reconnect, in the main thread.
LEMMA SessionMain ==
  ASSUME TypeOK, SessionInv, MainStep
  PROVE  SessionInv'
<1> USE DEF jobVars, shareVars, flagVars, mainLocals, workVars, netVars,
            histVars, NextLine
<1>a. inq \in Seq(Lines) /\ shared_job \in Jobs
  BY DEF TypeOK, NetTypes, JobTypes
<1>1. CASE ReadLine
  <2>1. /\ inq # <<>> /\ inq' = Tail(inq) /\ msg' = Head(inq)
        /\ mpc = "loop" /\ mpc' = HandlerOf(msg')
        /\ UNCHANGED <<shared_job, sess, conn, subscribed>>
    BY <1>1 DEF ReadLine
  <2>2. /\ Len(inq) \in Nat \ {0} /\ Len(inq') = Len(inq) - 1
        /\ \A k \in 1..Len(inq') : inq'[k] = inq[k + 1]
        /\ msg' = inq[1] /\ msg' \in Lines
    BY <1>a, <2>1, TailAt
  <2>3. /\ mpc' \notin Renewing
        /\ mpc' \in {"ntf_sock", "ntf_job"} => msg'.kind = "notify"
        /\ msg'.kind = "subscribe" => mpc' \in {"sub_job", "stop"}
    BY <2>1, <2>2, LineFields DEF HandlerOf, Renewing
  <2>4. Told => shared_job.ex1 = sess
    BY <2>1 DEF Told, Leaving
  <2>5. msg'.kind = "subscribe" \/ shared_job.ex1 = sess => Told'
    BY <2>1, <2>3 DEF Told, Leaving
  <2>6. ASSUME NEW n \in 1..Len(inq), Waits(inq, n), msg'.kind # "subscribe"
        PROVE  Waits(inq', n - 1)
    <3>1. PICK j \in 1..n : inq[j].kind = "subscribe"
      BY <2>6 DEF Waits
    <3>2. j # 1
      BY <2>2, <2>6, <3>1
    <3>3. j - 1 \in 1..n-1 /\ j - 1 \in 1..Len(inq')
      BY <2>2, <3>1, <3>2
    <3>4. inq'[j - 1].kind = "subscribe"
      BY <2>2, <3>1, <3>3
    <3> QED BY <3>3, <3>4 DEF Waits
  <2>7. ASSUME NEW k \in 1..Len(inq'), inq'[k].kind = "notify"
        PROVE  Told' \/ Waits(inq', k - 1)
    <3>1. k + 1 \in 1..Len(inq) /\ inq[k + 1].kind = "notify"
          /\ k \in 1..Len(inq) /\ (k + 1) - 1 = k
      BY <2>2, <2>7
    <3>2. Told \/ Waits(inq, k)
      BY <3>1 DEF SessionInv, SubscribedInv
    <3> QED BY <2>4, <2>5, <2>6, <3>1, <3>2
  <2>8. conn' = "up" /\ subscribed' => Told' \/ Waits(inq', Len(inq'))
    <3>1. Len(inq) \in 1..Len(inq) /\ Len(inq) - 1 = Len(inq')
      BY <2>2
    <3> QED BY <2>1, <2>4, <2>5, <2>6, <3>1 DEF SessionInv, SubscribedInv
  <2>9. mpc' \in {"ntf_sock", "ntf_job"} => shared_job'.ex1 = sess'
    <3>1. ASSUME inq[1].kind = "notify" PROVE Told
      <4>1. 1 \in 1..Len(inq) /\ ~Waits(inq, 1 - 1)
        BY <2>2 DEF Waits
      <4> QED BY <3>1, <4>1 DEF SessionInv, SubscribedInv
    <3> QED BY <2>1, <2>2, <2>3, <2>4, <3>1
  <2>10. ValidInv' /\ ClosedInv'
    BY <2>1, <2>3 DEF SessionInv, ValidInv, ClosedInv, Renewing
  <2> QED BY <2>7, <2>8, <2>9, <2>10 DEF SessionInv, SubscribedInv
<1>2. CASE SubscribeResponse
  <2>1. /\ shared_job'.ex1 = sess /\ shared_job'.valid = shared_job.valid
        /\ UNCHANGED <<sess, inq, conn, subscribed>> /\ mpc' = "sub_sock"
    BY <1>a, <1>2 DEF SubscribeResponse, Jobs
  <2> QED
    BY <2>1 DEF SessionInv, SubscribedInv, ValidInv, ClosedInv, Told,
                Renewing
<1>3. CASE InstallJob
  <2>1. /\ shared_job'.ex1 = shared_job.ex1 /\ shared_job.ex1 = sess
        /\ UNCHANGED <<sess, inq, conn, subscribed>> /\ mpc' = "loop"
    BY <1>a, <1>3 DEF InstallJob, Jobs, SessionInv, SubscribedInv
  <2> QED
    BY <2>1 DEF SessionInv, SubscribedInv, ValidInv, ClosedInv, Told,
                Renewing
<1>4. CASE InvalidateJob
  <2>1. /\ shared_job'.ex1 = shared_job.ex1 /\ ~shared_job'.valid
        /\ UNCHANGED <<sess, inq, conn, subscribed>>
        /\ mpc = "rc_job" /\ mpc' = "rc_sock"
    BY <1>a, <1>4 DEF InvalidateJob, Jobs
  <2>2. Told' = Told
    BY <2>1 DEF Told, Leaving
  <2> QED
    BY <2>1, <2>2
       DEF SessionInv, SubscribedInv, ValidInv, ClosedInv, Waits
<1>5. CASE CloseSocket
  <2>1. /\ mpc = "rc_close" /\ mpc' = "rc_connect" /\ conn' = "closed"
        /\ inq' = <<>> /\ UNCHANGED <<shared_job, sess>>
    BY <1>5 DEF CloseSocket
  <2> QED
    BY <2>1 DEF SessionInv, SubscribedInv, ValidInv, ClosedInv, Renewing
<1>6. CASE Connect
  <2>1. /\ mpc = "rc_connect" /\ mpc' = "rc_print" /\ ~subscribed'
        /\ inq' = inq /\ UNCHANGED shared_job
    BY <1>6 DEF Connect
  <2>2. inq' = <<>> /\ ~shared_job'.valid
    BY <2>1 DEF SessionInv, ValidInv, ClosedInv, Renewing
  <2> QED
    BY <2>1, <2>2 DEF SessionInv, SubscribedInv, ValidInv, ClosedInv
<1>7. CASE ~(\/ ReadLine \/ SubscribeResponse \/ InstallJob
             \/ InvalidateJob \/ CloseSocket \/ Connect)
  <2>1. /\ UNCHANGED <<inq, sess, conn, subscribed>>
        /\ shared_job'.ex1 = shared_job.ex1
        /\ shared_job'.valid = shared_job.valid
    BY <1>a, <1>7
       DEF MainStep, CheckEngines, FirstSubscribe, ReadClosed, ReadTimesOut,
           SeesReconnectFlag, StatsLockSocket, StatsPrint, SendAuthorize,
           AuthorizeResponse, SetDifficulty, ReportDifficulty,
           NotifyLockSocket, ReadGeneration, ShareAccepted, ShareRejected,
           ShareRetried, ClearPending, ConnectFails, ReportReconnect,
           ResetSession, Resubscribe, StopWorkers, JoinWorkers, Jobs
  <2>2. /\ mpc' \in {"ntf_sock", "ntf_job"} => mpc \in {"ntf_sock", "ntf_job"}
        /\ mpc' \in Renewing => mpc \in Renewing
        /\ mpc' # "rc_connect"
        /\ mpc # "sub_job"
        /\ mpc \in Leaving => mpc' \in Leaving
    BY <1>7
       DEF MainStep, CheckEngines, FirstSubscribe, ReadClosed, ReadTimesOut,
           SeesReconnectFlag, StatsLockSocket, StatsPrint, SendAuthorize,
           AuthorizeResponse, SetDifficulty, ReportDifficulty,
           NotifyLockSocket, ReadGeneration, ShareAccepted, ShareRejected,
           ShareRetried, ClearPending, ConnectFails, ReportReconnect,
           ResetSession, Resubscribe, StopWorkers, JoinWorkers, Leaving,
           Renewing
  <2> QED BY <2>1, <2>2, SessionQuiet
<1> QED BY <1>1, <1>2, <1>3, <1>4, <1>5, <1>6, <1>7

\* Every step keeps jobs with their connection.
LEMMA SessionStep == TypeOK /\ SessionInv /\ [Next]_vars => SessionInv'
<1> SUFFICES ASSUME TypeOK, SessionInv, [Next]_vars PROVE SessionInv'
  OBVIOUS
<1>1. CASE MainStep
  BY <1>1, SessionMain
<1>2. CASE Environment
  BY <1>2, SessionReceives
<1>3. CASE SigpipeKills
  <2>1. mpc' = "killed" /\ UNCHANGED <<inq, sess, conn, subscribed, shared_job>>
    BY <1>3 DEF SigpipeKills, jobVars, netVars
  <2> QED BY <2>1, SessionQuiet DEF Leaving, Renewing
<1>4. CASE \/ UNCHANGED vars
           \/ \E w \in Workers : WorkerStep(w)
  <2>1. UNCHANGED <<inq, sess, conn, subscribed, shared_job, mpc>>
    BY <1>4
       DEF vars, WorkerStep, SetWorker, CreateEngine, PrintDevice, SeesStop,
           TakeJob, ScanFindsNothing, ScanFinds, ScanFails, PrintFailure,
           CheckStale, DropShare, LockSocket, SendShare, RecordPending,
           SendFailed, jobVars, netVars
  <2> QED BY <2>1, SessionQuiet
<1> QED BY <1>1, <1>2, <1>3, <1>4 DEF Next, Stops

\* With ids of their own, the jobs in line are numbered as they were
\* announced: after v, up to n.
InOrder(q, v, n) ==
  /\ \A k \in 1..Len(q) : q[k].kind = "notify" =>
       q[k].id = q[k].ver /\ v < q[k].ver /\ q[k].ver =< n
  /\ \A k, l \in 1..Len(q) :
       k < l /\ q[k].kind = "notify" /\ q[l].kind = "notify"
         => q[k].ver < q[l].ver

\* The job at hand is newer than the shared one and older than those in
\* line; no worker has met it.
VersionInv ==
  /\ shared_job.id = shared_job.ver /\ shared_job.ver =< announced
  /\ InOrder(inq, shared_job.ver, announced)
  /\ mpc \in {"ntf_sock", "ntf_job"} =>
       /\ msg.id = msg.ver /\ shared_job.ver < msg.ver
       /\ msg.ver =< announced /\ InOrder(inq, msg.ver, announced)
  /\ \A w \in Workers : wl[w].id =< shared_job.ver

\* At first no job was announced.
LEMMA VersionInit == Init => VersionInv
  BY DEF Init, VersionInv, InOrder, IdleLocals

\* The next job takes its place.
LEMMA InOrderPush ==
  ASSUME NEW q \in Seq(Lines), NEW line \in Lines, NEW v \in Nat, NEW n \in Nat,
         NEW m \in Nat, InOrder(q, v, n), v =< n, n =< m,
         line.kind = "notify" => line.id = line.ver /\ line.ver = n + 1 /\ n < m
  PROVE  InOrder(Append(q, line), v, m)
<1> DEFINE p == Append(q, line)
<1>1. /\ Len(q) \in Nat /\ Len(p) = Len(q) + 1
      /\ \A k \in 1..Len(q) : p[k] = q[k] /\ q[k] \in Lines
      /\ p[Len(q) + 1] = line
  BY AppendAt
<1>2. \A k \in 1..Len(q) : q[k].kind = "notify" => q[k].ver \in Nat
  BY <1>1, LineFields
<1> HIDE DEF p
<1>3. ASSUME NEW k \in 1..Len(p), p[k].kind = "notify"
      PROVE  p[k].id = p[k].ver /\ v < p[k].ver /\ p[k].ver =< m
  BY <1>1, <1>2, <1>3 DEF InOrder
<1>4. ASSUME NEW k \in 1..Len(p), NEW l \in 1..Len(p), k < l,
             p[k].kind = "notify", p[l].kind = "notify"
      PROVE  p[k].ver < p[l].ver
  BY <1>1, <1>2, <1>4 DEF InOrder
<1> QED BY <1>3, <1>4 DEF InOrder, p

\* The first job in line is older than the rest.
LEMMA InOrderRead ==
  ASSUME NEW q \in Seq(Lines), q # <<>>, NEW v \in Nat, NEW n \in Nat,
         InOrder(q, v, n)
  PROVE  /\ InOrder(Tail(q), v, n)
         /\ Head(q).kind = "notify" =>
              /\ Head(q).id = Head(q).ver /\ v < Head(q).ver
              /\ Head(q).ver =< n /\ InOrder(Tail(q), Head(q).ver, n)
<1> DEFINE t == Tail(q)
           h == Head(q)
<1>1. /\ Len(q) \in Nat \ {0} /\ Len(t) = Len(q) - 1
      /\ \A k \in 1..Len(t) : t[k] = q[k + 1]
      /\ h = q[1]
  BY TailAt
<1>2. \A k \in 1..Len(q) : q[k].kind = "notify" => q[k].ver \in Nat
  BY LineFields
<1> HIDE DEF t, h
<1>3. /\ 1 \in 1..Len(q)
      /\ \A k \in 1..Len(t) : k \in Nat /\ k + 1 \in 1..Len(q) /\ 1 < k + 1
      /\ \A k, l \in 1..Len(t) : k < l => k + 1 < l + 1
  BY <1>1
<1>4. \A k, l \in 1..Len(t) :
        k < l /\ t[k].kind = "notify" /\ t[l].kind = "notify"
          => t[k].ver < t[l].ver
  BY <1>1, <1>3 DEF InOrder
<1>5. InOrder(t, v, n)
  <2>1. \A k \in 1..Len(t) : t[k].kind = "notify" =>
          t[k].id = t[k].ver /\ v < t[k].ver /\ t[k].ver =< n
    BY <1>1, <1>3 DEF InOrder
  <2> QED BY <1>4, <2>1 DEF InOrder
<1>6. ASSUME h.kind = "notify"
      PROVE  h.id = h.ver /\ v < h.ver /\ h.ver =< n /\ InOrder(t, h.ver, n)
  <2>1. h.id = h.ver /\ v < h.ver /\ h.ver =< n
    BY <1>1, <1>3, <1>6 DEF InOrder
  <2>2. \A k \in 1..Len(t) : t[k].kind = "notify" =>
          t[k].id = t[k].ver /\ h.ver < t[k].ver /\ t[k].ver =< n
    BY <1>1, <1>3, <1>6 DEF InOrder
  <2> QED BY <1>4, <2>1, <2>2 DEF InOrder
<1> QED BY <1>5, <1>6 DEF t, h

\* Where a worker is within the job it took, up to the send of its share.
Busy == {"scan", "check", "lock", "send"}

\* All steps of a worker but TakeJob keep to the job it has.
LEMMA WorkerKeeps ==
  ASSUME TypeOK, NEW w \in Workers, WorkerStep(w), ~TakeJob(w)
  PROVE  /\ UNCHANGED <<shared_job, inq, announced, msg, mpc, sess>>
         /\ \A v \in Workers : v # w => wpc'[v] = wpc[v] /\ wl'[v] = wl[v]
         /\ wl'[w].id = wl[w].id
         /\ wl'[w].scanned # 0 \/ wpc'[w] \in Busy
              => /\ \/ wl[w].scanned # 0
                    \/ wpc[w] \in Busy
                 /\ wl'[w].hdr = wl[w].hdr
         /\ wpc'[w] \in Busy
              => /\ wpc[w] \in Busy
                 /\ wl'[w].gen = wl[w].gen
<1> USE DEF jobVars, shareVars, flagVars, mainLocals, workVars, netVars,
            histVars, SetWorker, Busy
<1>0. wpc \in [Workers -> WorkerPcs] /\ wl \in [Workers -> Locals]
  BY DEF TypeOK, WorkerTypes
<1>a. UNCHANGED <<shared_job, inq, announced, msg, mpc, sess>>
  BY DEF WorkerStep, CreateEngine, PrintDevice, SeesStop, TakeJob,
         ScanFindsNothing, ScanFinds, ScanFails, PrintFailure, CheckStale,
         DropShare, LockSocket, SendShare, RecordPending, SendFailed
<1>b. ASSUME NEW l \in Locals
      PROVE  /\ Idle(l).id = l.id /\ Idle(l).scanned = l.scanned
             /\ l.scanned # 0 => Idle(l).hdr = l.hdr
  BY DEF Idle, IdleLocals
<1>1. CASE \/ CreateEngine(w) \/ PrintDevice(w) \/ SeesStop(w) \/ ScanFails(w)
           \/ PrintFailure(w) \/ LockSocket(w)
  BY <1>0, <1>1, <1>a DEF CreateEngine, PrintDevice, SeesStop, ScanFails,
                          PrintFailure, LockSocket
<1>2. CASE ScanFindsNothing(w)
  <2> DEFINE l == [wl[w] EXCEPT !.scanned = Advance(@)]
  <2>1. Advance(wl[w].scanned) \in 0..Chunks-1
    BY <1>0, AdvanceTypes DEF Locals
  <2>2. l \in Locals /\ l.id = wl[w].id /\ l.hdr = wl[w].hdr
    BY <1>0, <2>1 DEF Locals
  <2>3. wpc[w] = "scan" /\ wpc' = [wpc EXCEPT ![w] = "wait"]
        /\ wl' = [wl EXCEPT ![w] = Idle(l)]
    BY <1>2 DEF ScanFindsNothing
  <2> HIDE DEF l
  <2> QED BY <1>0, <1>a, <1>b, <2>2, <2>3
<1>3. CASE ScanFinds(w)
  <2>1. PICK ok \in BOOLEAN :
          wl' = [wl EXCEPT ![w] = [wl[w] EXCEPT !.scanned = Advance(@),
                                                !.be = active_nonce_submit_be,
                                                !.ok = ok]]
    BY <1>3 DEF ScanFinds
  <2>2. /\ wl'[w].id = wl[w].id /\ wl'[w].hdr = wl[w].hdr
        /\ wl'[w].gen = wl[w].gen
    BY <1>0, <2>1 DEF Locals
  <2>3. wpc[w] = "scan" /\ wpc' = [wpc EXCEPT ![w] = "check"]
    BY <1>3 DEF ScanFinds
  <2> QED BY <1>0, <1>a, <2>1, <2>2, <2>3
<1>4. CASE CheckStale(w)
  <2>1. /\ wl'[w].id = wl[w].id /\ wl'[w].hdr = wl[w].hdr
        /\ wl'[w].gen = wl[w].gen /\ wpc[w] = "check"
    BY <1>0, <1>4 DEF CheckStale, Locals
  <2> QED BY <1>0, <1>4, <1>a, <2>1 DEF CheckStale
<1>5. CASE DropShare(w) \/ RecordPending(w) \/ SendFailed(w)
  <2>1. wpc' = [wpc EXCEPT ![w] = "wait"]
        /\ wl' = [wl EXCEPT ![w] = Idle(wl[w])]
    BY <1>5 DEF DropShare, RecordPending, SendFailed
  <2> QED BY <1>0, <1>a, <1>b, <2>1
<1>6. CASE SendShare(w)
  <2>1. /\ wpc[w] = "send"
        /\ \E pc \in {"record", "fail"} : wpc' = [wpc EXCEPT ![w] = pc]
        /\ \/ wl' = [wl EXCEPT ![w] = [wl[w] EXCEPT
                        !.rec = active_nonce_submit_be, !.req = submit_id]]
           \/ wl' = [wl EXCEPT ![w] = wl[w]]
    BY <1>6 DEF SendShare
  <2>2. wl'[w].id = wl[w].id /\ wl'[w].hdr = wl[w].hdr
    BY <1>0, <2>1 DEF Locals
  <2> QED BY <1>0, <1>a, <2>1, <2>2
<1> QED BY <1>1, <1>2, <1>3, <1>4, <1>5, <1>6 DEF WorkerStep

\* While a worker is within the job it took, its header is that of the job,
\* if it still is the shared one; and a generation that is still current is
\* that of a valid job.
HeaderFits(w) ==
  /\ wl[w].scanned # 0 \/ wpc[w] \in Busy
  /\ shared_job.valid /\ wl[w].id = shared_job.id
  => wl[w].hdr = [ver |-> shared_job.ver, ex1 |-> shared_job.ex1]

GenerationFits(w) ==
  wpc[w] \in Busy =>
    /\ wl[w].gen =< shared_job.gen
    /\ wl[w].gen = shared_job.gen
         => shared_job.valid /\ wl[w].id = shared_job.id

HeaderInv == \A w \in Workers : HeaderFits(w) /\ GenerationFits(w)

\* The inductive invariant of the jobs.
JobInv == SessionInv /\ VersionInv /\ HeaderInv

\* At first no worker has a job.
LEMMA JobInit == Init => JobInv
<1> SUFFICES ASSUME Init PROVE JobInv
  OBVIOUS
<1>1. HeaderInv
  BY DEF Init, HeaderInv, HeaderFits, GenerationFits, Busy
<1> QED BY <1>1, SessionInit, VersionInit DEF JobInv

\* Who announces, reads and installs jobs.
LEMMA VersionFrame ==
  ASSUME TypeOK, [Next]_vars
  PROVE  \/ /\ UNCHANGED <<inq, announced>>
            /\ shared_job'.id = shared_job.id
            /\ shared_job'.ver = shared_job.ver
            /\ mpc' \in {"ntf_sock", "ntf_job"}
                 => mpc \in {"ntf_sock", "ntf_job"} /\ UNCHANGED msg
         \/ ReadLine \/ InstallJob \/ CloseSocket \/ Environment
<1> USE DEF jobVars, shareVars, flagVars, mainLocals, workVars, netVars,
            histVars, NextLine
<1>0. shared_job \in Jobs
  BY DEF TypeOK, JobTypes
<1>1. CASE MainStep
  <2>1. CASE SubscribeResponse \/ SetDifficulty \/ InvalidateJob
    BY <1>0, <2>1 DEF SubscribeResponse, SetDifficulty, InvalidateJob, Jobs
  <2>2. CASE ~(SubscribeResponse \/ SetDifficulty \/ InvalidateJob)
    BY <1>1, <2>2
       DEF MainStep, CheckEngines, FirstSubscribe, ReadClosed, ReadTimesOut,
           SeesReconnectFlag, StatsLockSocket, StatsPrint, SendAuthorize,
           AuthorizeResponse, ReportDifficulty, NotifyLockSocket,
           ReadGeneration, ShareAccepted, ShareRejected, ShareRetried,
           ClearPending, Connect, ConnectFails, ReportReconnect,
           ResetSession, Resubscribe, StopWorkers, JoinWorkers
  <2> QED BY <2>1, <2>2
<1>2. ASSUME NEW w \in Workers, WorkerStep(w)
      PROVE  UNCHANGED <<shared_job, inq, announced, msg, mpc>>
  BY <1>2 DEF WorkerStep, SetWorker, CreateEngine, PrintDevice, SeesStop,
         TakeJob, ScanFindsNothing, ScanFinds, ScanFails, PrintFailure,
         CheckStale, DropShare, LockSocket, SendShare, RecordPending,
         SendFailed
<1>3. CASE SigpipeKills
  BY <1>3 DEF SigpipeKills
<1>4. CASE UNCHANGED vars
  BY <1>4 DEF vars
<1> QED BY <1>1, <1>2, <1>3, <1>4 DEF Next, Stops

\* A job id is a number.
LEMMA IdTypes == TypeOK => \A w \in Workers : wl[w].id \in Nat
<1> SUFFICES ASSUME TypeOK, NEW w \in Workers PROVE wl[w].id \in Nat
  OBVIOUS
<1>1. wl[w] \in Locals
  BY DEF TypeOK, WorkerTypes
<1>2. wl[w].id \in JobIds \cup {0}
  BY <1>1 DEF Locals
<1>3. \A id \in JobIds \cup {0} : id \in Nat
  BY NumbersAssumption
<1> QED BY <1>2, <1>3

\* The ids the workers know come from the shared job.
LEMMA IdsStep ==
  ASSUME TypeOK, VersionInv, [Next]_vars
  PROVE  \A w \in Workers : wl'[w].id =< shared_job.ver
<1> SUFFICES ASSUME NEW w \in Workers PROVE wl'[w].id =< shared_job.ver
  OBVIOUS
<1>0. wpc \in [Workers -> WorkerPcs] /\ wl \in [Workers -> Locals]
  BY DEF TypeOK, WorkerTypes
<1>1. CASE UNCHANGED workVars \/ SigpipeKills
  BY <1>1 DEF workVars, SigpipeKills, VersionInv
<1>2. ASSUME NEW v \in Workers, WorkerStep(v) PROVE wl'[w].id =< shared_job.ver
  <2>1. CASE TakeJob(v)
    <3>1. v = w => wl'[w].id = shared_job.id
      BY <1>0, <2>1 DEF TakeJob, SetWorker, Locals
    <3>2. v # w => wl'[w] = wl[w]
      BY <1>0, <2>1 DEF TakeJob, SetWorker
    <3>3. shared_job.ver \in Nat
      BY DEF TypeOK, JobTypes, Jobs
    <3> QED BY <3>1, <3>2, <3>3 DEF VersionInv
  <2>2. CASE ~TakeJob(v)
    BY <1>2, <2>2, WorkerKeeps DEF VersionInv
  <2> QED BY <2>1, <2>2
<1> QED BY <1>1, <1>2, WorkerFrame

\* Every step keeps the jobs in the order they were announced.
LEMMA VersionStep ==
  FreshIds /\ TypeOK /\ VersionInv /\ [Next]_vars => VersionInv'
<1> SUFFICES ASSUME FreshIds, TypeOK, VersionInv, [Next]_vars
             PROVE  VersionInv'
  OBVIOUS
<1>0. /\ inq \in Seq(Lines) /\ announced \in Nat
      /\ shared_job \in Jobs /\ shared_job.ver \in Nat
      /\ mpc \in {"ntf_sock", "ntf_job"} => msg.ver \in Nat
  BY MsgFields DEF TypeOK, NetTypes, JobTypes, Jobs, MainTypes
<1>a. \A w \in Workers : wl'[w].id =< shared_job.ver
  BY IdsStep
<1>1. CASE /\ UNCHANGED <<inq, announced>>
           /\ shared_job'.id = shared_job.id
           /\ shared_job'.ver = shared_job.ver
           /\ mpc' \in {"ntf_sock", "ntf_job"}
                => mpc \in {"ntf_sock", "ntf_job"} /\ UNCHANGED msg
  BY <1>1, <1>a DEF VersionInv
<1>2. CASE ReadLine
  <2>1. /\ inq # <<>> /\ inq' = Tail(inq) /\ msg' = Head(inq)
        /\ mpc' = HandlerOf(msg') /\ UNCHANGED <<shared_job, announced>>
        /\ msg' \in Lines
    BY <1>0, <1>2 DEF ReadLine, jobVars
  <2>2. mpc' \in {"ntf_sock", "ntf_job"} => msg'.kind = "notify"
    BY <2>1, LineFields DEF HandlerOf
  <2>3. /\ InOrder(inq', shared_job.ver, announced)
        /\ msg'.kind = "notify" =>
             /\ msg'.id = msg'.ver /\ shared_job.ver < msg'.ver
             /\ msg'.ver =< announced /\ InOrder(inq', msg'.ver, announced)
    BY <1>0, <2>1, InOrderRead DEF VersionInv
  <2> QED BY <1>a, <2>1, <2>2, <2>3 DEF VersionInv
<1>3. CASE InstallJob
  <2>1. /\ mpc = "ntf_job" /\ mpc' = "loop" /\ UNCHANGED <<inq, announced>>
        /\ shared_job'.id = msg.id /\ shared_job'.ver = msg.ver
    BY <1>0, <1>3 DEF InstallJob, NextLine, netVars, Jobs
  <2>2. \A w \in Workers : wl'[w].id =< msg.ver
    <3>1. ASSUME NEW w \in Workers PROVE wl'[w].id \in Nat
      <4>1. wl' = wl
        BY <1>3 DEF InstallJob, workVars
      <4> QED BY <4>1, IdTypes
    <3> QED BY <1>0, <1>a, <2>1, <3>1 DEF VersionInv
  <2> QED BY <2>1, <2>2 DEF VersionInv
<1>4. CASE CloseSocket \/ LinkBreaks
  <2>1. /\ inq' = inq \/ inq' = <<>>
        /\ UNCHANGED <<shared_job, announced, msg>>
        /\ mpc' \in {"ntf_sock", "ntf_job"} => mpc' = mpc
    BY <1>4 DEF CloseSocket, LinkBreaks, jobVars, mainLocals
  <2>2. \A v \in Nat :
          InOrder(inq, v, announced) => InOrder(inq', v, announced)
    BY <2>1 DEF InOrder
  <2> QED BY <1>0, <1>a, <2>1, <2>2 DEF VersionInv
<1>5. ASSUME NEW line \in Lines, inq' = Append(inq, line),
             UNCHANGED <<shared_job, mpc, msg>>,
             announced' \in Nat, announced =< announced',
             line.kind = "notify" =>
               /\ line.id = line.ver /\ line.ver = announced + 1
               /\ announced < announced'
      PROVE  VersionInv'
  <2>1. \A v \in Nat :
          v =< announced /\ InOrder(inq, v, announced)
            => InOrder(inq', v, announced')
    BY <1>0, <1>5, InOrderPush
  <2> QED BY <1>0, <1>a, <1>5, <2>1 DEF VersionInv
<1>6. CASE PoolAnswersHandshake
  <2>1. PICK k \in {"subscribe", "authorize"}, ok \in BOOLEAN :
          inq' = Append(inq, [kind |-> k, ok |-> ok])
    BY <1>6 DEF PoolAnswersHandshake
  <2>2. [kind |-> k, ok |-> ok] \in Lines
    BY DEF Lines
  <2>3. UNCHANGED <<shared_job, mpc, msg, announced>>
    BY <1>6 DEF PoolAnswersHandshake, jobVars, mainLocals
  <2> QED BY <1>0, <1>5, <2>1, <2>2, <2>3
<1>7. CASE PoolAnswersShare
  <2>1. PICK i \in DOMAIN wire, v \in Verdicts :
          inq' = Append(inq, [kind |-> "submit", id |-> i, verdict |-> v])
    BY <1>7 DEF PoolAnswersShare
  <2>2. [kind |-> "submit", id |-> i, verdict |-> v] \in Lines
    BY DEF Lines, TypeOK, HistTypes
  <2>3. UNCHANGED <<shared_job, mpc, msg, announced>>
    BY <1>7 DEF PoolAnswersShare, jobVars, mainLocals
  <2> QED BY <1>0, <1>5, <2>1, <2>2, <2>3
<1>8. CASE PoolSendsJob
  <2>1. PICK id \in JobIds :
          /\ id = announced + 1
          /\ inq' = Append(inq, [kind |-> "notify", id |-> id,
                                 ver |-> announced + 1])
    BY <1>8 DEF PoolSendsJob
  <2>2. [kind |-> "notify", id |-> id, ver |-> announced + 1] \in Lines
    BY <1>0 DEF Lines
  <2>3. UNCHANGED <<shared_job, mpc, msg>> /\ announced' = announced + 1
    BY <1>8 DEF PoolSendsJob, jobVars, mainLocals
  <2> QED BY <1>0, <1>5, <2>1, <2>2, <2>3
<1>9. CASE PoolSetsDifficulty
  <2>1. PICK d \in Diffs :
          inq' = Append(inq, [kind |-> "set_difficulty", diff |-> d])
    BY <1>9 DEF PoolSetsDifficulty
  <2>2. [kind |-> "set_difficulty", diff |-> d] \in Lines
    BY DEF Lines
  <2>3. UNCHANGED <<shared_job, mpc, msg, announced>>
    BY <1>9 DEF PoolSetsDifficulty, jobVars, mainLocals
  <2> QED BY <1>0, <1>5, <2>1, <2>2, <2>3
<1> QED
  BY <1>1, <1>2, <1>3, <1>4, <1>6, <1>7, <1>8, <1>9, VersionFrame
     DEF Environment

\* Every step keeps the headers of the workers.
LEMMA HeaderStep ==
  FreshIds /\ TypeOK /\ JobInv /\ [Next]_vars => HeaderInv'
<1> SUFFICES ASSUME FreshIds, TypeOK, JobInv, [Next]_vars, NEW w \in Workers
             PROVE  HeaderFits(w)' /\ GenerationFits(w)'
  BY DEF HeaderInv
<1> USE DEF HeaderFits, GenerationFits
<1>0. /\ wpc \in [Workers -> WorkerPcs] /\ wl \in [Workers -> Locals]
      /\ shared_job \in Jobs /\ wl[w] \in Locals
      /\ wl[w].gen \in Nat /\ shared_job.gen \in Nat
  BY DEF TypeOK, WorkerTypes, JobTypes, Locals, Jobs
<1>a. /\ wl[w].id =< shared_job.ver /\ shared_job.id = shared_job.ver
      /\ wl[w].id \in Nat /\ shared_job.ver \in Nat
  BY <1>0, IdTypes DEF JobInv, VersionInv, Jobs
<1>1. CASE UNCHANGED <<wl, wpc>> \/ SigpipeKills
  <2>0. wl' = wl /\ (wpc'[w] \in Busy => wpc'[w] = wpc[w])
    BY <1>1 DEF SigpipeKills, Busy
  <2>1. CASE UNCHANGED shared_job
    BY <2>0, <2>1 DEF JobInv, HeaderInv
  <2>2. CASE SubscribeResponse
    <3>1. /\ shared_job' = [shared_job EXCEPT !.ex1 = sess]
          /\ shared_job.valid => shared_job.ex1 = sess
      BY <2>2 DEF SubscribeResponse, JobInv, SessionInv, ValidInv
    <3>2. /\ shared_job'.id = shared_job.id /\ shared_job'.gen = shared_job.gen
          /\ shared_job'.ver = shared_job.ver
          /\ shared_job'.valid = shared_job.valid
          /\ shared_job.valid => shared_job'.ex1 = shared_job.ex1
      BY <1>0, <3>1 DEF Jobs
    <3> QED BY <2>0, <3>2 DEF JobInv, HeaderInv
  <2>3. CASE SetDifficulty
    <3>1. /\ shared_job'.id = shared_job.id /\ shared_job'.gen = shared_job.gen
          /\ shared_job'.ver = shared_job.ver
          /\ shared_job'.valid = shared_job.valid
          /\ shared_job'.ex1 = shared_job.ex1
      BY <1>0, <2>3 DEF SetDifficulty, Jobs
    <3> QED BY <2>0, <3>1 DEF JobInv, HeaderInv
  <2>4. CASE InstallJob
    <3>1. /\ shared_job'.id = msg.id /\ shared_job'.gen = shared_job.gen + 1
          /\ shared_job.ver < msg.ver /\ msg.id = msg.ver /\ msg.ver \in Nat
      BY <1>0, <2>4, MsgFields
         DEF InstallJob, Jobs, JobInv, VersionInv, TypeOK, MainTypes
    <3>2. wl'[w].id # shared_job'.id
      BY <1>a, <2>0, <3>1
    <3> QED BY <1>0, <2>0, <3>1, <3>2 DEF JobInv, HeaderInv
  <2>5. CASE InvalidateJob
    <3>1. shared_job'.gen = shared_job.gen + 1 /\ ~shared_job'.valid
      BY <1>0, <2>5 DEF InvalidateJob, Jobs
    <3> QED BY <1>0, <2>0, <3>1 DEF JobInv, HeaderInv
  <2> QED BY <2>1, <2>2, <2>3, <2>4, <2>5, JobFrame
<1>3. ASSUME NEW v \in Workers, WorkerStep(v), ~TakeJob(v)
      PROVE  HeaderFits(w)' /\ GenerationFits(w)'
  <2>1. /\ UNCHANGED shared_job /\ wl'[w].id = wl[w].id
        /\ wl'[w].scanned # 0 \/ wpc'[w] \in Busy
             => /\ wl[w].scanned # 0 \/ wpc[w] \in Busy
                /\ wl'[w].hdr = wl[w].hdr
        /\ wpc'[w] \in Busy => wpc[w] \in Busy /\ wl'[w].gen = wl[w].gen
    BY <1>3, WorkerKeeps
  <2> QED BY <2>1 DEF JobInv, HeaderInv
<1>4. ASSUME NEW v \in Workers, TakeJob(v), v # w
      PROVE  UNCHANGED shared_job /\ wl'[w] = wl[w] /\ wpc'[w] = wpc[w]
  BY <1>0, <1>4 DEF TakeJob, SetWorker, jobVars
<1>5. CASE TakeJob(w)
  <2> DEFINE new == [ver |-> shared_job.ver, ex1 |-> shared_job.ex1]
             hdr == IF Place(w) = 0 THEN new ELSE wl[w].hdr
             l == [wl[w] EXCEPT !.id = shared_job.id, !.gen = shared_job.gen,
                                !.scanned = Place(w),
                                !.target = shared_job.diff, !.hdr = hdr]
  <2>1. /\ wl' = [wl EXCEPT ![w] = l] /\ wpc' = [wpc EXCEPT ![w] = "scan"]
        /\ UNCHANGED shared_job /\ shared_job.valid
    BY <1>0, <1>5 DEF TakeJob, SetWorker, jobVars
  <2>2. /\ l.id = shared_job.id /\ l.gen = shared_job.gen /\ l.hdr = hdr
    BY <1>0 DEF Locals
  <2>3. hdr = new
    BY <2>1 DEF Place, JobInv, HeaderInv
  <2> HIDE DEF l, hdr
  <2>4. wl'[w] = l
    BY <1>0, <2>1
  <2> QED BY <1>0, <2>1, <2>2, <2>3, <2>4
<1>6. CASE UNCHANGED workVars
  BY <1>1, <1>6 DEF workVars
<1>7. ASSUME NEW v \in Workers, TakeJob(v), v # w
      PROVE  HeaderFits(w)' /\ GenerationFits(w)'
  BY <1>4, <1>7 DEF JobInv, HeaderInv
<1> QED BY <1>1, <1>3, <1>5, <1>6, <1>7, WorkerFrame

\* A share sent while its generation is current was built from the current
\* job and from the extranonce1 of the connection it goes out on, provided
\* the pool gives every job an id of its own: the generation tells that the
\* job is still there, the id that the header is of that job, and the order
\* of the pool's lines that the extranonce1 came before it.
THEOREM SharesFit == Spec => []FreshSharesFit
<1>1. CASE FreshIds
  <2>1. TypeOK /\ JobInv /\ [Next]_vars => (TypeOK /\ JobInv)'
    BY <1>1, TypeStep, SessionStep, VersionStep, HeaderStep DEF JobInv
  <2>2. JobInv => FreshSharesFit
    BY DEF FreshSharesFit, JobInv, SessionInv, ValidInv, HeaderInv,
           HeaderFits, GenerationFits, Busy
  <2> QED BY <2>1, <2>2, TypeInit, JobInit, PTL DEF Spec
<1>2. CASE ~FreshIds
  <2>1. FreshSharesFit
    BY <1>2 DEF FreshSharesFit
  <2> QED BY <2>1, PTL
<1> QED BY <1>1, <1>2

-----------------------------------------------------------------------------
(* Submits in flight.                                                      *)

\* The submits the pool has yet to answer, and where answers stand in line.
Asked(outs) == {id \in Nat : [kind |-> "submit", id |-> id] \in outs}

Answers(q) == {k \in 1..Len(q) : q[k].kind = "submit"}

\* No submit is answered twice: what is asked, what waits in q and the line
\* m at hand are different submits, all older than n.
Once(q, asked, m, n) ==
  /\ \A id \in asked : id < n
  /\ \A k \in Answers(q) : q[k].id < n /\ q[k].id \notin asked
  /\ \A k, l \in Answers(q) : q[k].id = q[l].id => k = l
  /\ m.kind = "submit" =>
       /\ m.id < n /\ m.id \notin asked
       /\ \A k \in Answers(q) : q[k].id # m.id

\* An answer has the id of a submit.
LEMMA AnswersTypes ==
  ASSUME NEW q \in Seq(Lines), NEW k \in Answers(q)
  PROVE  k \in 1..Len(q) /\ q[k] \in Lines /\ q[k].id \in Nat
  BY LineFields DEF Answers

\* The requests of the handshake ask for no submit.
LEMMA AskedOther ==
  ASSUME NEW outs, NEW r, r.kind # "submit"
  PROVE  Asked(outs \cup {r}) = Asked(outs) /\ Asked(outs \ {r}) = Asked(outs)
  BY DEF Asked

\* A submit sent is one more to answer.
LEMMA AskedMore ==
  ASSUME NEW outs, NEW n \in Nat
  PROVE  Asked(outs \cup {[kind |-> "submit", id |-> n]}) = Asked(outs) \cup {n}
<1>1. \A i \in Nat :
        [kind |-> "submit", id |-> i] = [kind |-> "submit", id |-> n] => i = n
  OBVIOUS
<1> QED BY <1>1 DEF Asked

\* A submit answered is one less.
LEMMA AskedLess ==
  ASSUME NEW outs, NEW n \in Nat
  PROVE  Asked(outs \ {[kind |-> "submit", id |-> n]}) = Asked(outs) \ {n}
<1>1. \A i \in Nat :
        [kind |-> "submit", id |-> i] = [kind |-> "submit", id |-> n] => i = n
  OBVIOUS
<1> QED BY <1>1 DEF Asked

\* The answers in a queue that grew by a line.
LEMMA AppendAnswers ==
  ASSUME NEW q \in Seq(Lines), NEW line \in Lines
  PROVE  /\ \A k \in Answers(Append(q, line)) :
              \/ k \in Answers(q) /\ Append(q, line)[k] = q[k]
              \/ k = Len(q) + 1 /\ Append(q, line)[k] = line
         /\ line.kind # "submit" => Len(q) + 1 \notin Answers(Append(q, line))
         /\ Len(q) + 1 \notin Answers(q)
<1>1. Len(q) \in Nat
  OBVIOUS
<1> QED BY <1>1, AppendAt DEF Answers

\* A line that answers no submit changes nothing.
LEMMA OncePush ==
  ASSUME NEW q \in Seq(Lines), NEW asked, NEW m, NEW n, NEW line \in Lines,
         line.kind # "submit", Once(q, asked, m, n)
  PROVE  Once(Append(q, line), asked, m, n)
<1> DEFINE p == Append(q, line)
<1>1. \A k \in Answers(p) : k \in Answers(q) /\ p[k] = q[k]
  BY AppendAnswers
<1> HIDE DEF p
<1>2. Once(p, asked, m, n)
  BY <1>1 DEF Once
<1> QED BY <1>2 DEF p

\* The answer to a submit takes its place.
LEMMA OnceAnswered ==
  ASSUME NEW q \in Seq(Lines), NEW asked, NEW m, NEW n, NEW line \in Lines,
         line.kind = "submit", line.id \in asked, Once(q, asked, m, n)
  PROVE  Once(Append(q, line), asked \ {line.id}, m, n)
<1> DEFINE p == Append(q, line)
           new == Len(q) + 1
<1>1. \A k \in Answers(p) :
        \/ k \in Answers(q) /\ p[k] = q[k]
        \/ k = new /\ p[k] = line
  BY AppendAnswers
<1> HIDE DEF p, new
<1>2. Once(p, asked \ {line.id}, m, n)
  BY <1>1 DEF Once
<1> QED BY <1>2 DEF p

\* The answers in a queue whose first line was read.
LEMMA TailAnswers ==
  ASSUME NEW q \in Seq(Lines), q # <<>>
  PROVE  /\ \A k \in Answers(Tail(q)) :
              k \in Nat \ {0} /\ k + 1 \in Answers(q) /\ Tail(q)[k] = q[k + 1]
         /\ Head(q) = q[1] /\ Head(q) \in Lines
         /\ Head(q).kind = "submit" => 1 \in Answers(q)
<1>1. ASSUME NEW k \in Answers(Tail(q))
      PROVE  k \in Nat \ {0} /\ k + 1 \in Answers(q) /\ Tail(q)[k] = q[k + 1]
  BY TailAt DEF Answers
<1>2. Head(q) = q[1] /\ Head(q) \in Lines
  OBVIOUS
<1>3. Head(q).kind = "submit" => 1 \in Answers(q)
  BY TailAt DEF Answers
<1> QED BY <1>1, <1>2, <1>3

\* Reading moves the first answer to the line at hand.
LEMMA OnceRead ==
  ASSUME NEW q \in Seq(Lines), q # <<>>, NEW asked, NEW m, NEW n,
         Once(q, asked, m, n)
  PROVE  Once(Tail(q), asked, Head(q), n)
<1> DEFINE t == Tail(q)
           h == Head(q)
<1>1. /\ \A k \in Answers(t) :
           k \in Nat \ {0} /\ k + 1 \in Answers(q) /\ t[k] = q[k + 1]
      /\ h = q[1]
      /\ h.kind = "submit" => 1 \in Answers(q)
  BY TailAnswers
<1> HIDE DEF t, h
<1>2. \A k \in Answers(t) : t[k].id < n /\ t[k].id \notin asked
  BY <1>1 DEF Once
<1>3. \A k, l \in Answers(t) : t[k].id = t[l].id => k = l
  BY <1>1 DEF Once
<1>4. h.kind = "submit" =>
        /\ h.id < n /\ h.id \notin asked
        /\ \A k \in Answers(t) : t[k].id # h.id
  BY <1>1 DEF Once
<1>5. Once(t, asked, h, n)
  BY <1>2, <1>3, <1>4 DEF Once
<1> QED BY <1>5 DEF t, h

\* A new submit is younger than all others.
LEMMA OnceAsk ==
  ASSUME NEW q \in Seq(Lines), NEW asked, asked \subseteq Nat, NEW m,
         m.kind = "submit" => m.id \in Nat, NEW n \in Nat,
         Once(q, asked, m, n)
  PROVE  Once(q, asked \cup {n}, m, n + 1) /\ Once(q, asked, m, n + 1)
<1>1. \A k \in Answers(q) : q[k].id \in Nat
  BY AnswersTypes
<1> QED BY <1>1 DEF Once

\* A lost connection loses submits and answers.
LEMMA OnceShrinks ==
  ASSUME NEW q, NEW p \in {q, <<>>}, NEW asked, NEW less \in SUBSET asked,
         NEW m, NEW n, Once(q, asked, m, n)
  PROVE  Once(p, less, m, n)
  BY DEF Once, Answers

\* A line is done with.
LEMMA OnceDropped ==
  ASSUME NEW q, NEW asked, NEW m, NEW n, NEW other, other.kind # "submit",
         Once(q, asked, m, n)
  PROVE  Once(q, asked, other, n)
  BY DEF Once

-----------------------------------------------------------------------------
(* One answer for each submit.                                             *)

\* The line at hand answers a submit in the handler of such answers only,
\* or where the main thread left it behind at its end.
MsgInv ==
  msg.kind = "submit" =>
    mpc \in {"resp_job", "resp_sock", "stop", "join", "done", "killed"}

\* Each submit is answered once, on its way, in line or at hand.
OnceInv == Once(inq, Asked(outq), msg, submit_id)

\* At first there is nothing to answer.
LEMMA AnswersInit == Init => MsgInv /\ OnceInv
  BY DEF Init, MsgInv, OnceInv, Once, Answers, Asked, NoLine

\* Every step keeps answers in their handler.
LEMMA MsgStep == TypeOK /\ MsgInv /\ [Next]_vars => MsgInv'
<1> SUFFICES ASSUME TypeOK, MsgInv, [Next]_vars PROVE MsgInv'
  OBVIOUS
<1> USE DEF MsgInv
<1>1. CASE UNCHANGED <<mpc, mainLocals>>
  BY <1>1 DEF mainLocals
<1>2. CASE MainStep
  <2>1. CASE ReadLine
    <3>1. msg' \in Lines /\ mpc' = HandlerOf(msg')
      BY <2>1 DEF ReadLine, TypeOK, NetTypes
    <3> QED BY <3>1, LineFields DEF HandlerOf
  <2>2. CASE ~ReadLine
    BY <1>2, <2>2
       DEF MainStep, NextLine, NoLine, mainLocals, CheckEngines,
           FirstSubscribe, ReadClosed, ReadTimesOut, SeesReconnectFlag,
           StatsLockSocket, StatsPrint, SubscribeResponse, SendAuthorize,
           AuthorizeResponse, SetDifficulty, ReportDifficulty,
           NotifyLockSocket, InstallJob, ReadGeneration, ShareAccepted,
           ShareRejected, ShareRetried, InvalidateJob, ClearPending,
           CloseSocket, Connect, ConnectFails, ReportReconnect,
           ResetSession, Resubscribe, StopWorkers, JoinWorkers
  <2> QED BY <2>1, <2>2
<1>3. CASE SigpipeKills
  BY <1>3 DEF SigpipeKills, mainLocals
<1> QED BY <1>1, <1>2, <1>3, MainFrame

\* Who asks, answers, reads and drops.
LEMMA AnswersFrame ==
  ASSUME [Next]_vars
  PROVE  \/ UNCHANGED <<inq, outq, msg, submit_id>>
         \/ FirstSubscribe \/ ReadLine \/ SendAuthorize \/ AuthorizeResponse
            \/ ReportDifficulty \/ InstallJob \/ ShareAccepted \/
            ShareRejected \/ ShareRetried \/ CloseSocket \/ Resubscribe \/
            LinkBreaks \/ PoolAnswersHandshake \/ PoolAnswersShare \/
            PoolSendsJob \/ PoolSetsDifficulty
         \/ \E w \in Workers : SendShare(w)
<1> USE DEF jobVars, shareVars, flagVars, mainLocals, workVars, netVars,
            histVars
<1>1. CASE MainStep
  BY <1>1 DEF MainStep, CheckEngines, ReadClosed, ReadTimesOut,
         SeesReconnectFlag, StatsLockSocket, StatsPrint, SubscribeResponse,
         SetDifficulty, NotifyLockSocket, ReadGeneration, InvalidateJob,
         ClearPending, Connect, ConnectFails, ReportReconnect, ResetSession,
         StopWorkers, JoinWorkers
<1>2. ASSUME NEW w \in Workers, WorkerStep(w)
      PROVE  UNCHANGED <<inq, outq, msg, submit_id>> \/ SendShare(w)
  BY <1>2 DEF WorkerStep, SetWorker, CreateEngine, PrintDevice, SeesStop,
         TakeJob, ScanFindsNothing, ScanFinds, ScanFails, PrintFailure,
         CheckStale, DropShare, LockSocket, RecordPending, SendFailed
<1>3. CASE Environment \/ SigpipeKills
  BY <1>3 DEF Environment, SigpipeKills
<1>4. CASE UNCHANGED vars
  BY <1>4 DEF vars
<1> QED BY <1>1, <1>2, <1>3, <1>4 DEF Next, Stops

\* Jobs and difficulties answer no submit.
LEMMA JobPushed ==
  ASSUME TypeOK, PoolSendsJob \/ PoolSetsDifficulty
  PROVE  \E line \in Lines : line.kind # "submit" /\ inq' = Append(inq, line)
<1>1. CASE PoolSendsJob
  <2>1. PICK id \in JobIds :
          inq' = Append(inq, [kind |-> "notify", id |-> id,
                              ver |-> announced + 1])
    BY <1>1 DEF PoolSendsJob
  <2>2. [kind |-> "notify", id |-> id, ver |-> announced + 1] \in Lines
    BY DEF Lines, TypeOK, NetTypes
  <2> QED BY <2>1, <2>2
<1>2. CASE PoolSetsDifficulty
  <2>1. PICK d \in Diffs :
          inq' = Append(inq, [kind |-> "set_difficulty", diff |-> d])
    BY <1>2 DEF PoolSetsDifficulty
  <2>2. [kind |-> "set_difficulty", diff |-> d] \in Lines
    BY DEF Lines
  <2> QED BY <2>1, <2>2
<1> QED BY <1>1, <1>2

\* Every step keeps the answers apart.
LEMMA OnceStep == TypeOK /\ MsgInv /\ OnceInv /\ [Next]_vars => OnceInv'
<1> SUFFICES ASSUME TypeOK, MsgInv, OnceInv, [Next]_vars PROVE OnceInv'
  OBVIOUS
<1> DEFINE asked == Asked(outq)
<1>0. /\ inq \in Seq(Lines) /\ asked \subseteq Nat /\ submit_id \in Nat
      /\ msg.kind = "submit" => msg.id \in Nat
      /\ NoLine.kind # "submit"
  BY MsgFields DEF TypeOK, NetTypes, ShareTypes, Asked, NoLine
<1>a. \A k \in {"subscribe", "authorize"} :
        /\ Asked(outq \cup {[kind |-> k]}) = asked
        /\ Asked(outq \ {[kind |-> k]}) = asked
  BY AskedOther
<1>b. Once(inq, asked, msg, submit_id)
  BY DEF OnceInv
<1> HIDE DEF asked
<1> USE DEF jobVars, shareVars, flagVars, mainLocals, workVars, netVars,
            histVars, Deliver, NextLine
<1>1. CASE UNCHANGED <<inq, outq, msg, submit_id>>
  BY <1>1 DEF OnceInv
<1>2. CASE FirstSubscribe \/ Resubscribe
  <2>1. Asked(outq') = asked /\ UNCHANGED <<inq, msg, submit_id>>
    BY <1>2, <1>a DEF FirstSubscribe, Resubscribe, asked
  <2> QED BY <1>b, <2>1 DEF OnceInv
<1>3. CASE ReadLine
  <2>1. /\ inq # <<>> /\ inq' = Tail(inq) /\ msg' = Head(inq)
        /\ UNCHANGED <<outq, submit_id>>
    BY <1>3 DEF ReadLine
  <2>2. Once(Tail(inq), asked, Head(inq), submit_id)
    BY <1>0, <1>b, <2>1, OnceRead
  <2> QED BY <2>1, <2>2 DEF OnceInv, asked
<1>4. CASE SendAuthorize \/ AuthorizeResponse
  <2>1. /\ Asked(outq') = asked /\ UNCHANGED <<inq, submit_id>>
        /\ msg' = msg \/ msg' = NoLine
    BY <1>4, <1>a DEF SendAuthorize, AuthorizeResponse, asked
  <2> QED BY <1>0, <1>b, <2>1, OnceDropped DEF OnceInv
<1>5. CASE ReportDifficulty \/ InstallJob \/ ShareAccepted \/ ShareRejected
  <2>1. UNCHANGED <<inq, outq, submit_id>> /\ msg' = NoLine
    BY <1>5 DEF ReportDifficulty, InstallJob, ShareAccepted, ShareRejected
  <2> QED BY <1>0, <1>b, <2>1, OnceDropped DEF OnceInv, asked
<1>6. CASE ShareRetried
  <2>1. /\ UNCHANGED inq /\ submit_id' = submit_id + 1
        /\ \/ UNCHANGED outq
           \/ outq' = outq \cup {[kind |-> "submit", id |-> submit_id]}
        /\ msg' = msg \/ msg' = NoLine
    BY <1>6 DEF ShareRetried
  <2>2. Asked(outq') = asked \/ Asked(outq') = asked \cup {submit_id}
    <3>1. CASE UNCHANGED outq
      BY <3>1 DEF asked
    <3>2. CASE outq' = outq \cup {[kind |-> "submit", id |-> submit_id]}
      BY <1>0, <3>2, AskedMore DEF asked
    <3> QED BY <2>1, <3>1, <3>2
  <2>3. \A a \in {asked, asked \cup {submit_id}} :
          Once(inq, a, msg, submit_id + 1)
    <3>1. /\ Once(inq, asked \cup {submit_id}, msg, submit_id + 1)
          /\ Once(inq, asked, msg, submit_id + 1)
      BY <1>0, <1>b, OnceAsk
    <3> QED BY ONLY <3>1
  <2>4. Once(inq, Asked(outq'), msg, submit_id')
    BY <2>1, <2>2, <2>3
  <2> QED BY <1>0, <2>1, <2>4, OnceDropped DEF OnceInv
<1>7. CASE CloseSocket \/ LinkBreaks
  <2>1. /\ inq' \in {inq, <<>>} /\ Asked(outq') \in SUBSET asked
        /\ UNCHANGED <<msg, submit_id>>
    BY <1>7 DEF CloseSocket, LinkBreaks, Asked
  <2> QED BY <1>b, <2>1, OnceShrinks DEF OnceInv
<1>8. CASE PoolAnswersHandshake
  <2>1. PICK k \in {"subscribe", "authorize"}, ok \in BOOLEAN :
          /\ outq' = outq \ {[kind |-> k]}
          /\ inq' = Append(inq, [kind |-> k, ok |-> ok])
    BY <1>8 DEF PoolAnswersHandshake
  <2>2. [kind |-> k, ok |-> ok] \in Lines
    BY DEF Lines
  <2>3. Once(inq', asked, msg, submit_id)
    BY <1>0, <1>b, <2>1, <2>2, OncePush
  <2>4. UNCHANGED <<msg, submit_id>>
    BY <1>8 DEF PoolAnswersHandshake
  <2> QED BY <1>a, <2>1, <2>3, <2>4 DEF OnceInv
<1>9. CASE PoolAnswersShare
  <2>1. PICK id \in DOMAIN wire, v \in Verdicts :
          /\ [kind |-> "submit", id |-> id] \in outq
          /\ outq' = outq \ {[kind |-> "submit", id |-> id]}
          /\ inq' = Append(inq, [kind |-> "submit", id |-> id, verdict |-> v])
    BY <1>9 DEF PoolAnswersShare
  <2>2. id \in Nat /\ id \in asked
    BY <2>1 DEF TypeOK, HistTypes, Asked, asked
  <2> DEFINE line == [kind |-> "submit", id |-> id, verdict |-> v]
  <2>3. line \in Lines /\ line.kind = "submit" /\ line.id = id
    BY <2>2 DEF Lines
  <2> HIDE DEF line
  <2>4. Once(Append(inq, line), asked \ {id}, msg, submit_id)
    BY <1>0, <1>b, <2>2, <2>3, OnceAnswered
  <2>5. Asked(outq') = asked \ {id}
    BY <2>1, <2>2, AskedLess DEF asked
  <2>6. UNCHANGED <<msg, submit_id>>
    BY <1>9 DEF PoolAnswersShare
  <2> QED BY <2>1, <2>4, <2>5, <2>6 DEF OnceInv, line
<1>10. CASE PoolSendsJob \/ PoolSetsDifficulty
  <2>1. PICK line \in Lines : line.kind # "submit" /\ inq' = Append(inq, line)
    BY <1>10, JobPushed
  <2>2. UNCHANGED <<outq, msg, submit_id>>
    BY <1>10 DEF PoolSendsJob, PoolSetsDifficulty
  <2> QED BY <1>0, <1>b, <2>1, <2>2, OncePush DEF OnceInv, asked
<1>11. ASSUME NEW w \in Workers, SendShare(w) PROVE OnceInv'
  <2>1. /\ UNCHANGED <<inq, msg>> /\ submit_id' = submit_id + 1
        /\ \/ UNCHANGED outq
           \/ outq' = outq \cup {[kind |-> "submit", id |-> submit_id]}
    BY <1>11 DEF SendShare
  <2>2. Asked(outq') = asked \/ Asked(outq') = asked \cup {submit_id}
    <3>1. CASE UNCHANGED outq
      BY <3>1 DEF asked
    <3>2. CASE outq' = outq \cup {[kind |-> "submit", id |-> submit_id]}
      BY <1>0, <3>2, AskedMore DEF asked
    <3> QED BY <2>1, <3>1, <3>2
  <2>3. \A a \in {asked, asked \cup {submit_id}} :
          Once(inq, a, msg, submit_id + 1)
    <3>1. /\ Once(inq, asked \cup {submit_id}, msg, submit_id + 1)
          /\ Once(inq, asked, msg, submit_id + 1)
      BY <1>0, <1>b, OnceAsk
    <3> QED BY ONLY <3>1
  <2> QED BY <2>1, <2>2, <2>3 DEF OnceInv
<1> QED
  BY <1>1, <1>2, <1>3, <1>4, <1>5, <1>6, <1>7, <1>8, <1>9, <1>10, <1>11,
     AnswersFrame

-----------------------------------------------------------------------------
(* Every answer finds its pending submit.                                  *)

\* The submits whose answer is still to be handled.
Flying(q, asked, m) ==
  asked \cup {q[k].id : k \in Answers(q)}
        \cup {id \in Nat : m.kind = "submit" /\ m.id = id}

\* The submits that are recorded, or about to be by the worker that sent
\* them and still owns socket_mutex.
KnownIds ==
  DOMAIN pending_submits
    \cup {wl[w].req : w \in {v \in Workers : wpc[v] = "record"}}

\* From reconnect_session's clear to its close, and once the loop is left,
\* answers may have lost their submit: nobody reads them.
Forgotten == {"rc_close", "stop", "join", "done", "killed"}

\* The answer to a submit is handled.
Handled == ShareAccepted \/ ShareRejected \/ ShareRetried

\* Every submit in flight is known, while the loop may read its answer.
KnownInv ==
  mpc \notin Forgotten => Flying(inq, Asked(outq), msg) \subseteq KnownIds

\* Flying follows the queue, as Once does.
LEMMA FlyingPush ==
  ASSUME NEW q \in Seq(Lines), NEW asked, NEW m, NEW line \in Lines,
         NEW id \in Flying(Append(q, line), asked, m)
  PROVE  id \in Flying(q, asked, m) \/ (line.kind = "submit" /\ id = line.id)
<1> DEFINE p == Append(q, line)
<1>1. \A k \in Answers(p) :
        \/ k \in Answers(q) /\ p[k] = q[k]
        \/ p[k] = line /\ p[k].kind = "submit"
  BY AppendAnswers DEF Answers
<1> HIDE DEF p
<1>2. id \in Flying(p, asked, m)
  BY DEF p
<1> QED BY <1>1, <1>2 DEF Flying

\* A line read is still in flight.
LEMMA FlyingRead ==
  ASSUME NEW q \in Seq(Lines), q # <<>>, NEW asked, NEW m
  PROVE  Flying(Tail(q), asked, Head(q)) \subseteq Flying(q, asked, m)
<1> DEFINE t == Tail(q)
           h == Head(q)
<1>1. /\ \A k \in Answers(t) : k + 1 \in Answers(q) /\ t[k] = q[k + 1]
      /\ h = q[1]
      /\ h.kind = "submit" => 1 \in Answers(q)
  BY TailAnswers
<1> HIDE DEF t, h
<1>2. Flying(t, asked, h) \subseteq Flying(q, asked, m)
  BY <1>1 DEF Flying
<1> QED BY <1>2 DEF t, h

\* A line handled is not.
LEMMA FlyingDropped ==
  ASSUME NEW q, NEW asked, NEW m, NEW n, NEW other, other.kind # "submit",
         Once(q, asked, m, n)
  PROVE  /\ Flying(q, asked, other) \subseteq Flying(q, asked, m)
         /\ m.kind = "submit" => m.id \notin Flying(q, asked, other)
  BY DEF Flying, Once

\* A lost connection loses what was in flight.
LEMMA FlyingShrinks ==
  ASSUME NEW q, NEW p \in {q, <<>>}, NEW asked, NEW less \in SUBSET asked,
         NEW m
  PROVE  Flying(p, less, m) \subseteq Flying(q, asked, m)
  BY DEF Flying, Answers

\* A submit sent is in flight.
LEMMA FlyingAsk ==
  ASSUME NEW q, NEW asked, NEW m, NEW n,
         NEW id \in Flying(q, asked \cup {n}, m)
  PROVE  id \in Flying(q, asked, m) \/ id = n
  BY DEF Flying

\* At first nothing is in flight.
LEMMA KnownInit == Init => KnownInv
  BY DEF Init, KnownInv, Flying, Answers, Asked, NoLine

\* A step forgets the submit it handles only.
LEMMA KnownKept ==
  ASSUME TypeOK, [Next]_vars, mpc' \notin Forgotten, NEW id \in KnownIds
  PROVE  id \in KnownIds' \/ (id = msg.id /\ Handled)
<1> USE DEF KnownIds, Handled
<1>1. CASE id \in DOMAIN pending_submits
  <2>1. CASE UNCHANGED shareVars
    BY <1>1, <2>1 DEF shareVars
  <2>2. CASE ShareAccepted
    BY <1>1, <2>2 DEF ShareAccepted, Without
  <2>3. CASE ShareRejected
    BY <1>1, <2>3 DEF ShareRejected, Without
  <2>4. CASE ShareRetried
    BY <1>1, <2>4 DEF ShareRetried, Without, Put
  <2>5. CASE ClearPending
    BY <2>5 DEF ClearPending, Forgotten
  <2>6. ASSUME NEW w \in Workers, DropShare(w) \/ SendShare(w)
        PROVE  id \in KnownIds'
    BY <1>1, <2>6 DEF DropShare, SendShare
  <2>7. ASSUME NEW w \in Workers, RecordPending(w) PROVE id \in KnownIds'
    BY <1>1, <2>7 DEF RecordPending, Put
  <2> QED BY <2>1, <2>2, <2>3, <2>4, <2>5, <2>6, <2>7, ShareFrame
<1>2. ASSUME NEW w \in Workers, wpc[w] = "record", id = wl[w].req
      PROVE  id \in KnownIds'
  <2>1. CASE UNCHANGED workVars
    BY <1>2, <2>1 DEF workVars
  <2>2. CASE SigpipeKills
    BY <2>2 DEF SigpipeKills, Forgotten
  <2>3. CASE RecordPending(w)
    BY <1>2, <2>3 DEF RecordPending, Put
  <2>4. ASSUME NEW v \in Workers, WorkerStep(v), ~RecordPending(w)
        PROVE  id \in KnownIds'
    <3>1. wpc'[w] = wpc[w] /\ wl'[w] = wl[w]
      BY <1>2, <2>4
         DEF TypeOK, WorkerTypes, WorkerStep, SetWorker, CreateEngine,
             PrintDevice, SeesStop, TakeJob, ScanFindsNothing, ScanFinds,
             ScanFails, PrintFailure, CheckStale, DropShare, LockSocket,
             SendShare, RecordPending, SendFailed
    <3> QED BY <1>2, <3>1
  <2> QED BY <2>1, <2>2, <2>3, <2>4, WorkerFrame
<1> QED BY <1>1, <1>2

\* The submit is known, and on the wire of the current connection.
Sent(id) == id \in KnownIds /\ id \in DOMAIN wire /\ wire[id].sess = sess

\* A submit that is newly in flight was just sent; one whose answer was just
\* handled is not in flight any more.
LEMMA FlyingMoves ==
  ASSUME TypeOK, MsgInv, OnceInv, [Next]_vars, mpc' \notin Forgotten,
         NEW id \in Flying(inq, Asked(outq), msg)'
  PROVE  \/ Sent(id)'
         \/ id \in Flying(inq, Asked(outq), msg) /\ (Handled => id # msg.id)
<1> DEFINE asked == Asked(outq)
           flying == Flying(inq, asked, msg)
<1>0. /\ inq \in Seq(Lines) /\ asked \subseteq Nat /\ submit_id \in Nat
      /\ msg.kind = "submit" => msg.id \in Nat
      /\ NoLine.kind # "submit"
  BY MsgFields DEF TypeOK, NetTypes, ShareTypes, Asked, NoLine
<1>a. \A k \in {"subscribe", "authorize"} :
        /\ Asked(outq \cup {[kind |-> k]}) = asked
        /\ Asked(outq \ {[kind |-> k]}) = asked
  BY AskedOther
<1>b. Once(inq, asked, msg, submit_id)
  BY DEF OnceInv
<1>c. id \in Flying(inq', Asked(outq'), msg')
  BY DEF Flying, Answers, Asked
<1> HIDE DEF asked
<1>e. /\ Flying(inq, asked, NoLine) \subseteq flying
      /\ msg.kind = "submit" => msg.id \notin Flying(inq, asked, NoLine)
  BY <1>0, <1>b, FlyingDropped
<1>d. Handled => mpc = "resp_sock"
  BY DEF Handled, ShareAccepted, ShareRejected, ShareRetried
<1> USE DEF jobVars, shareVars, flagVars, mainLocals, workVars, netVars,
            histVars, Deliver, NextLine
<1>1. CASE UNCHANGED <<inq, outq, msg, submit_id>>
  <2>1. id \in flying
    BY <1>c, <1>1 DEF asked
  <2>2. Handled => msg' # msg \/ submit_id' # submit_id
    <3>1. Handled => msg.kind = "submit"
      BY <1>d DEF TypeOK, MainTypes
    <3>2. ShareAccepted \/ ShareRejected => msg' = NoLine
      BY DEF ShareAccepted, ShareRejected
    <3>3. ShareRetried => submit_id' # submit_id
      BY <1>0 DEF ShareRetried
    <3> QED BY <1>0, <3>1, <3>2, <3>3 DEF Handled
  <2> QED BY <1>1, <2>1, <2>2 DEF asked
<1>2. CASE FirstSubscribe \/ Resubscribe
  <2>1. /\ Asked(outq') = asked /\ UNCHANGED <<inq, msg>>
        /\ mpc # "resp_sock"
    BY <1>2, <1>a DEF FirstSubscribe, Resubscribe, asked
  <2> QED BY <1>c, <1>d, <2>1 DEF asked
<1>3. CASE ReadLine
  <2>1. /\ inq # <<>> /\ inq' = Tail(inq) /\ msg' = Head(inq)
        /\ UNCHANGED outq /\ mpc # "resp_sock"
    BY <1>3 DEF ReadLine
  <2>2. Flying(Tail(inq), asked, Head(inq)) \subseteq flying
    BY <1>0, <2>1, FlyingRead
  <2> QED BY <1>c, <1>d, <2>1, <2>2 DEF asked
<1>4. CASE SendAuthorize \/ AuthorizeResponse
  <2>1. /\ Asked(outq') = asked /\ UNCHANGED inq
        /\ msg' = msg \/ msg' = NoLine
        /\ mpc # "resp_sock"
    BY <1>4, <1>a DEF SendAuthorize, AuthorizeResponse, asked
  <2>2. id \in flying
    BY <1>c, <1>e, <2>1
  <2> QED BY <1>d, <2>1, <2>2 DEF asked
<1>5. CASE ReportDifficulty \/ InstallJob \/ ShareAccepted \/ ShareRejected
  <2>1. UNCHANGED <<inq, outq>> /\ msg' = NoLine
    BY <1>5 DEF ReportDifficulty, InstallJob, ShareAccepted, ShareRejected
  <2>2. id \in flying /\ (msg.kind = "submit" => id # msg.id)
    BY <1>c, <1>e, <2>1 DEF asked
  <2>3. Handled => msg.kind = "submit"
    BY <1>d DEF TypeOK, MainTypes
  <2> QED BY <2>2, <2>3 DEF asked
<1>6. CASE ShareRetried
  <2>1. /\ UNCHANGED inq /\ msg' = NoLine
        /\ \/ UNCHANGED outq
           \/ outq' = outq \cup {[kind |-> "submit", id |-> submit_id]}
        /\ submit_id \in DOMAIN pending_submits'
        /\ wire' = Put(wire, submit_id, [be |-> ~pending_submits[msg.id].be,
                                         sess |-> sess, of |-> msg.id])
        /\ sess' = sess
    BY <1>6 DEF ShareRetried, Forgotten, Put
  <2>2. Asked(outq') = asked \/ Asked(outq') = asked \cup {submit_id}
    BY <1>0, <2>1, AskedMore DEF asked
  <2>3. id \in Flying(inq, asked, NoLine) \/ id = submit_id
    BY <1>c, <2>1, <2>2, FlyingAsk
  <2>4. CASE id = submit_id
    BY <2>1, <2>4 DEF Sent, KnownIds, Put
  <2>5. CASE id \in Flying(inq, asked, NoLine)
    <3>1. id \in flying /\ (msg.kind = "submit" => id # msg.id)
      BY <1>e, <2>5
    <3>2. msg.kind = "submit"
      BY <1>6 DEF ShareRetried, TypeOK, MainTypes
    <3> QED BY <3>1, <3>2 DEF asked
  <2> QED BY <2>3, <2>4, <2>5
<1>7. CASE CloseSocket \/ LinkBreaks
  <2>1. /\ inq' \in {inq, <<>>} /\ Asked(outq') \in SUBSET asked
        /\ UNCHANGED msg
    BY <1>7 DEF CloseSocket, LinkBreaks, Asked
  <2>2. id \in flying
    BY <1>c, <2>1, FlyingShrinks
  <2>3. ~Handled
    <3>1. CloseSocket => mpc # "resp_sock"
      BY DEF CloseSocket
    <3>2. LinkBreaks => UNCHANGED <<mpc, msg>>
      BY DEF LinkBreaks
    <3>3. Handled => mpc' # mpc
      BY DEF Handled, ShareAccepted, ShareRejected, ShareRetried
    <3> QED BY <1>7, <1>d, <3>1, <3>2, <3>3
  <2> QED BY <2>2, <2>3 DEF asked
<1>8. CASE PoolAnswersHandshake \/ PoolSendsJob \/ PoolSetsDifficulty
  <2>1. PICK line \in Lines :
          line.kind # "submit" /\ inq' = Append(inq, line)
    <3>1. CASE PoolAnswersHandshake
      <4>1. PICK k \in {"subscribe", "authorize"}, ok \in BOOLEAN :
              inq' = Append(inq, [kind |-> k, ok |-> ok])
        BY <3>1 DEF PoolAnswersHandshake
      <4>2. [kind |-> k, ok |-> ok] \in Lines
        BY DEF Lines
      <4> QED BY <4>1, <4>2
    <3>2. CASE PoolSendsJob \/ PoolSetsDifficulty
      BY <3>2, JobPushed
    <3> QED BY <1>8, <3>1, <3>2
  <2>2. Asked(outq') = asked /\ UNCHANGED <<msg, mpc>>
    BY <1>8, <1>a
       DEF PoolAnswersHandshake, PoolSendsJob, PoolSetsDifficulty, asked
  <2>3. id \in flying
    BY <1>0, <1>c, <2>1, <2>2, FlyingPush
  <2>4. ~Handled
    BY <2>2 DEF Handled, ShareAccepted, ShareRejected, ShareRetried
  <2> QED BY <2>3, <2>4 DEF asked
<1>9. CASE PoolAnswersShare
  <2>1. PICK i \in DOMAIN wire, v \in Verdicts :
          /\ [kind |-> "submit", id |-> i] \in outq
          /\ outq' = outq \ {[kind |-> "submit", id |-> i]}
          /\ inq' = Append(inq, [kind |-> "submit", id |-> i, verdict |-> v])
    BY <1>9 DEF PoolAnswersShare
  <2>2. i \in Nat /\ i \in asked
    BY <2>1 DEF TypeOK, HistTypes, Asked, asked
  <2> DEFINE line == [kind |-> "submit", id |-> i, verdict |-> v]
  <2>3. line \in Lines /\ line.kind = "submit" /\ line.id = i
    BY <2>2 DEF Lines
  <2> HIDE DEF line
  <2>4. Asked(outq') = asked \ {i}
    BY <2>1, <2>2, AskedLess DEF asked
  <2>5. UNCHANGED <<msg, mpc>>
    BY <1>9 DEF PoolAnswersShare
  <2>6. id \in Flying(inq, asked \ {i}, msg) \/ id = i
    <3>1. id \in Flying(Append(inq, line), asked \ {i}, msg)
      BY <1>c, <2>1, <2>4, <2>5 DEF line
    <3> QED BY <1>0, <2>3, <3>1, FlyingPush
  <2>7. id \in flying
    BY <2>2, <2>6 DEF Flying
  <2>8. ~Handled
    BY <2>5 DEF Handled, ShareAccepted, ShareRejected, ShareRetried
  <2> QED BY <2>7, <2>8 DEF asked
<1>10. ASSUME NEW w \in Workers, SendShare(w)
       PROVE  Sent(id)' \/ (id \in flying /\ ~Handled)
  <2> DEFINE l == [wl[w] EXCEPT !.rec = active_nonce_submit_be,
                                !.req = submit_id]
  <2>a. wpc \in [Workers -> WorkerPcs] /\ wl \in [Workers -> Locals]
    BY DEF TypeOK, WorkerTypes
  <2>b. l.req = submit_id
    BY <2>a DEF Locals
  <2> HIDE DEF l
  <2>c. /\ UNCHANGED <<inq, msg, mpc>>
        /\ \/ UNCHANGED outq
           \/ /\ outq' = outq \cup {[kind |-> "submit", id |-> submit_id]}
              /\ SetWorker(w, "record", l)
              /\ submit_id \in DOMAIN wire' /\ wire'[submit_id].sess = sess'
    BY <1>10 DEF SendShare, Put, l
  <2>1. /\ UNCHANGED <<inq, msg, mpc>>
        /\ \/ UNCHANGED outq
           \/ /\ outq' = outq \cup {[kind |-> "submit", id |-> submit_id]}
              /\ wpc'[w] = "record" /\ wl'[w].req = submit_id
              /\ submit_id \in DOMAIN wire' /\ wire'[submit_id].sess = sess'
    BY <2>a, <2>b, <2>c DEF SetWorker
  <2>2. ~Handled
    BY <2>1 DEF Handled, ShareAccepted, ShareRejected, ShareRetried
  <2>3. CASE UNCHANGED outq
    BY <1>c, <2>1, <2>2, <2>3 DEF asked
  <2>4. CASE /\ outq' = outq \cup {[kind |-> "submit", id |-> submit_id]}
             /\ wpc'[w] = "record" /\ wl'[w].req = submit_id
             /\ submit_id \in DOMAIN wire' /\ wire'[submit_id].sess = sess'
    <3>1. Asked(outq') = asked \cup {submit_id}
      BY <1>0, <2>4, AskedMore DEF asked
    <3>2. id \in flying \/ id = submit_id
      BY <1>c, <2>1, <3>1, FlyingAsk
    <3>3. id = submit_id => Sent(id)'
      BY <2>4 DEF Sent, KnownIds
    <3> QED BY <2>2, <3>2, <3>3
  <2> QED BY <2>1, <2>3, <2>4
<1> QED
  BY <1>1, <1>2, <1>3, <1>4, <1>5, <1>6, <1>7, <1>8, <1>9, <1>10,
     AnswersFrame DEF asked

\* Only closing the socket leads back to reading, and loses what was in
\* flight.
LEMMA ClosingForgets ==
  ASSUME TypeOK, MsgInv, [Next]_vars,
         \/ mpc \in Forgotten /\ mpc' \notin Forgotten
         \/ mpc # "rc_connect" /\ mpc' = "rc_connect"
  PROVE  CloseSocket /\ Flying(inq, Asked(outq), msg)' = {}
<1>1. CloseSocket
  <2>1. ~UNCHANGED <<mpc, mainLocals>> /\ ~SigpipeKills
    BY DEF SigpipeKills, Forgotten
  <2>2. MainStep
    BY <2>1, MainFrame
  <2>3. CASE ReadLine
    <3>1. mpc = "loop" /\ mpc' = HandlerOf(msg') /\ msg' \in Lines
      BY <2>3 DEF ReadLine, TypeOK, NetTypes
    <3>2. ~ (mpc \in Forgotten) /\ mpc' # "rc_connect"
      BY <3>1, LineFields DEF Forgotten, HandlerOf
    <3> QED BY <3>2
  <2> QED
    BY <2>2, <2>3
       DEF Forgotten, NextLine, MainStep, CheckEngines, FirstSubscribe,
           ReadClosed, ReadTimesOut, SeesReconnectFlag, StatsLockSocket,
           StatsPrint, SubscribeResponse, SendAuthorize, AuthorizeResponse,
           SetDifficulty, ReportDifficulty, NotifyLockSocket, InstallJob,
           ReadGeneration, ShareAccepted, ShareRejected, ShareRetried,
           InvalidateJob, ClearPending, Connect, ConnectFails,
           ReportReconnect, ResetSession, Resubscribe, StopWorkers,
           JoinWorkers
<1>2. inq' = <<>> /\ outq' = {} /\ msg'.kind # "submit"
  BY <1>1 DEF CloseSocket, MsgInv, mainLocals
<1> QED BY <1>1, <1>2 DEF Flying, Answers, Asked

\* Every step keeps what is in flight known.
LEMMA KnownStep ==
  TypeOK /\ MsgInv /\ OnceInv /\ KnownInv /\ [Next]_vars => KnownInv'
<1> SUFFICES ASSUME TypeOK, MsgInv, OnceInv, KnownInv, [Next]_vars,
                    mpc' \notin Forgotten,
                    NEW id \in Flying(inq, Asked(outq), msg)'
             PROVE  id \in KnownIds'
  BY DEF KnownInv
<1>1. CASE mpc \notin Forgotten
  BY <1>1, FlyingMoves, KnownKept DEF KnownInv, Sent
<1>2. CASE mpc \in Forgotten
  BY <1>2, ClosingForgets
<1> QED BY <1>1, <1>2

\* The owner of the lock knows the submit, once the main thread has it.
LEMMA AnswersFind ==
  TypeOK /\ SocketInv /\ KnownInv => ResponseFindsPending
<1> SUFFICES ASSUME TypeOK, SocketInv, KnownInv, mpc = "resp_sock",
                    socket_mutex = NoOne
             PROVE  HavePending
  BY DEF ResponseFindsPending
<1>1. msg.kind = "submit" /\ msg.id \in Nat
  BY MsgFields DEF TypeOK, MainTypes
<1>2. msg.id \in KnownIds
  BY <1>1 DEF KnownInv, Forgotten, Flying
<1>3. \A w \in Workers : wpc[w] # "record"
  BY ProcsAssumption DEF SocketInv, WorkerSocketInv, Sending
<1> QED BY <1>2, <1>3 DEF KnownIds, HavePending

\* The inductive invariant of the answers.
AnswersInv == SocketInv /\ MsgInv /\ OnceInv /\ KnownInv

\* It holds at first.
LEMMA AnswersHold == Init => AnswersInv
  BY SocketInit, AnswersInit, KnownInit DEF AnswersInv

\* Every step keeps it.
LEMMA AnswersStep == TypeOK /\ AnswersInv /\ [Next]_vars => AnswersInv'
  BY SocketStep, MsgStep, OnceStep, KnownStep DEF AnswersInv

\* A response read from the socket always finds the submit it answers: the
\* worker that sent it holds socket_mutex until it has recorded it, and
\* reconnect_session clears the record only with the connection.
THEOREM AnswerNeverLost == Spec => []ResponseFindsPending
<1>1. TypeOK /\ AnswersInv /\ [Next]_vars => (TypeOK /\ AnswersInv)'
  BY TypeStep, AnswersStep
<1>2. TypeOK /\ AnswersInv => ResponseFindsPending
  BY AnswersFind DEF AnswersInv
<1> QED BY <1>1, <1>2, TypeInit, AnswersHold, PTL DEF Spec

-----------------------------------------------------------------------------
(* Rejected and discarded shares.                                          *)

\* The generation read under job_mutex is current until the answer has been
\* handled under socket_mutex.
GenerationInv == mpc = "resp_sock" => current_generation = shared_job.gen

\* Only the main thread changes the generation, and it is busy.
LEMMA GenerationStep ==
  TypeOK /\ GenerationInv /\ [Next]_vars => GenerationInv'
<1> SUFFICES ASSUME TypeOK, GenerationInv, [Next]_vars, mpc' = "resp_sock"
             PROVE  current_generation' = shared_job'.gen
  BY DEF GenerationInv
<1>1. CASE UNCHANGED <<mpc, mainLocals>>
  <2>1. UNCHANGED shared_job
    BY <1>1, JobFrame
       DEF SubscribeResponse, SetDifficulty, InstallJob, InvalidateJob,
           NextLine
  <2> QED BY <1>1, <2>1 DEF GenerationInv, mainLocals
<1>2. CASE ReadGeneration
  BY <1>2 DEF ReadGeneration, jobVars
<1>3. CASE MainStep /\ ~ReadGeneration
  <2>1. ~ReadLine
    <3>1. ReadLine => msg' \in Lines /\ mpc' = HandlerOf(msg')
      BY DEF ReadLine, TypeOK, NetTypes
    <3> QED BY <3>1, LineFields DEF HandlerOf
  <2> QED
    BY <1>3, <2>1
       DEF MainStep, NextLine, CheckEngines, FirstSubscribe, ReadClosed,
           ReadTimesOut, SeesReconnectFlag, StatsLockSocket, StatsPrint,
           SubscribeResponse, SendAuthorize, AuthorizeResponse,
           SetDifficulty, ReportDifficulty, NotifyLockSocket, InstallJob,
           ShareAccepted, ShareRejected, ShareRetried, InvalidateJob,
           ClearPending, CloseSocket, Connect, ConnectFails,
           ReportReconnect, ResetSession, Resubscribe, StopWorkers,
           JoinWorkers
<1>4. CASE SigpipeKills
  BY <1>4 DEF SigpipeKills
<1> QED BY <1>1, <1>2, <1>3, <1>4, MainFrame

\* A rejection is counted against a share of the current generation.
LEMMA RejectionStep ==
  TypeOK /\ AnswersInv /\ GenerationInv /\ [Next]_vars
    => (share_rejects' # share_rejects
          => pending_submits[msg.id].gen = shared_job.gen)
<1> SUFFICES ASSUME TypeOK, AnswersInv, GenerationInv, [Next]_vars,
                    share_rejects' # share_rejects
             PROVE  pending_submits[msg.id].gen = shared_job.gen
  OBVIOUS
<1>1. ShareRejected \/ ShareRetried
  BY ShareFrame
     DEF shareVars, ShareAccepted, ClearPending, DropShare, SendShare,
         RecordPending
<1>2. HavePending /\ current_generation = shared_job.gen
  BY <1>1, AnswersFind
     DEF AnswersInv, GenerationInv, ResponseFindsPending, ShareRejected,
         ShareRetried
<1>3. ~LikelyDiscard
  BY <1>1 DEF ShareRejected, ShareRetried, CountRejection
<1> QED BY <1>2, <1>3 DEF LikelyDiscard

\* A share whose job was replaced while it was in flight is counted as
\* discarded, never as rejected.
THEOREM RejectsFresh == Spec => RejectsAreFresh
<1>1. Init => TypeOK /\ AnswersInv /\ GenerationInv
  BY TypeInit, AnswersHold DEF GenerationInv, Init
<1>2. TypeOK /\ AnswersInv /\ GenerationInv /\ [Next]_vars
        => (TypeOK /\ AnswersInv /\ GenerationInv)'
  BY TypeStep, AnswersStep, GenerationStep
<1>3. TypeOK /\ AnswersInv /\ GenerationInv /\ [Next]_vars
        => [share_rejects' # share_rejects
              => pending_submits[msg.id].gen = shared_job.gen]_vars
  BY RejectionStep
<1> QED BY <1>1, <1>2, <1>3, PTL DEF Spec, RejectsAreFresh

-----------------------------------------------------------------------------
(* The nonce encoding.  Workers read the mode twice without a lock, the    *)
(* answers of the pool change it: the first accepted share still settles   *)
(* it for good.                                                            *)

\* Submit ids are used once.
WireInv == \A i \in DOMAIN wire : i < submit_id

\* An accepted share was on the wire in the pool's encoding.
AcceptFits(line) ==
  line.kind = "submit" /\ line.verdict = "accept"
    => line.id \in DOMAIN wire /\ wire[line.id].be = PoolBe

AcceptInv ==
  /\ \A k \in 1..Len(inq) : AcceptFits(inq[k])
  /\ AcceptFits(msg)

\* The record of a share may name another encoding than the one on the wire,
\* but not if the pool can accept the share.
RecordInv ==
  /\ \A i \in DOMAIN pending_submits :
       /\ i \in DOMAIN wire
       /\ wire[i].be = PoolBe => pending_submits[i].be = PoolBe
  /\ \A w \in Workers : wpc[w] = "record" =>
       /\ wl[w].req \in DOMAIN wire
       /\ wire[wl[w].req].be = PoolBe => wl[w].rec = PoolBe

\* A worker that wrote its nonce in the pool's encoding read the mode after
\* it was settled, or when it was that encoding from the start.
WorkInv ==
  \A w \in Workers :
    wpc[w] \in {"check", "lock", "send"} /\ wl[w].be = PoolBe
      => active_nonce_submit_be = PoolBe

\* The inductive invariant of the encoding.
ModeInv == WireInv /\ AcceptInv /\ RecordInv /\ WorkInv /\ ModeConverges

\* At first there is no share.
LEMMA ModeInit == Init => ModeInv
<1> SUFFICES ASSUME Init PROVE ModeInv
  OBVIOUS
<1>1. WireInv /\ RecordInv /\ WorkInv /\ ModeConverges
  BY DEF Init, Empty, WireInv, RecordInv, WorkInv, ModeConverges
<1>2. AcceptInv
  BY DEF Init, AcceptInv, AcceptFits, NoLine
<1> QED BY <1>1, <1>2 DEF ModeInv

\* No step takes back or overwrites what was sent.
LEMMA WireStep ==
  ASSUME TypeOK, WireInv, [Next]_vars
  PROVE  /\ WireInv'
         /\ \A i \in DOMAIN wire : i \in DOMAIN wire' /\ wire'[i] = wire[i]
<1>0. submit_id \in Nat /\ DOMAIN wire \subseteq Nat
  BY DEF TypeOK, ShareTypes, HistTypes
<1>1. submit_id' \in Nat /\ submit_id =< submit_id'
  <2>1. CASE UNCHANGED shareVars
    BY <1>0, <2>1 DEF shareVars
  <2>2. CASE ShareAccepted \/ ShareRejected \/ ShareRetried \/ ClearPending
    BY <1>0, <2>2 DEF ShareAccepted, ShareRejected, ShareRetried, ClearPending
  <2>3. ASSUME NEW w \in Workers,
               DropShare(w) \/ SendShare(w) \/ RecordPending(w)
        PROVE  submit_id' \in Nat /\ submit_id =< submit_id'
    BY <1>0, <2>3 DEF DropShare, SendShare, RecordPending
  <2> QED BY <2>1, <2>2, <2>3, ShareFrame
<1>2. \/ UNCHANGED wire
      \/ /\ submit_id' = submit_id + 1
         /\ \E v : wire' = Put(wire, submit_id, v)
  <2>1. CASE UNCHANGED histVars
    BY <2>1 DEF histVars
  <2>2. CASE ShareRetried
    BY <2>2 DEF ShareRetried
  <2>3. ASSUME NEW w \in Workers, ScanFinds(w) \/ SendShare(w)
        PROVE  \/ UNCHANGED wire
               \/ /\ submit_id' = submit_id + 1
                  /\ \E v : wire' = Put(wire, submit_id, v)
    BY <2>3 DEF ScanFinds, SendShare
  <2> QED BY <2>1, <2>2, <2>3, HistFrame
<1>3. CASE UNCHANGED wire
  BY <1>0, <1>1, <1>3 DEF WireInv
<1>4. CASE /\ submit_id' = submit_id + 1
           /\ \E v : wire' = Put(wire, submit_id, v)
  BY <1>0, <1>4 DEF WireInv, Put
<1> QED BY <1>2, <1>3, <1>4

\* How the wire grows.
LEMMA WireMoves ==
  ASSUME [Next]_vars
  PROVE  \/ UNCHANGED wire
         \/ /\ ShareRetried
            /\ wire' = Put(wire, submit_id,
                           [be |-> ~pending_submits[msg.id].be,
                            sess |-> sess, of |-> msg.id])
         \/ \E w \in Workers :
              /\ SendShare(w)
              /\ wire' = Put(wire, submit_id,
                             [be |-> wl[w].be, sess |-> sess,
                              of |-> submit_id])
<1>1. CASE UNCHANGED histVars
  BY <1>1 DEF histVars
<1>2. CASE ShareRetried
  BY <1>2 DEF ShareRetried
<1>3. ASSUME NEW w \in Workers, ScanFinds(w) PROVE UNCHANGED wire
  BY <1>3 DEF ScanFinds
<1>4. ASSUME NEW w \in Workers, SendShare(w)
      PROVE  \/ UNCHANGED wire
             \/ wire' = Put(wire, submit_id,
                            [be |-> wl[w].be, sess |-> sess,
                             of |-> submit_id])
  BY <1>4 DEF SendShare
<1> QED BY <1>1, <1>2, <1>3, <1>4, HistFrame

\* What a step makes of the records: it keeps them, or makes one of a retry
\* or of a share just sent.
LEMMA PendingMoves ==
  ASSUME TypeOK, [Next]_vars, NEW i \in DOMAIN pending_submits'
  PROVE  \/ /\ i \in DOMAIN pending_submits
            /\ pending_submits'[i] = pending_submits[i]
            /\ ShareRetried => i # msg.id
         \/ /\ ShareRetried /\ i = submit_id
            /\ pending_submits'[i].be = ~pending_submits[msg.id].be
            /\ pending_submits'[i].attempt = 2
            /\ wire' = Put(wire, submit_id,
                           [be |-> ~pending_submits[msg.id].be,
                            sess |-> sess, of |-> msg.id])
         \/ \E w \in Workers :
              /\ RecordPending(w) /\ i = wl[w].req
              /\ pending_submits'[i].be = wl[w].rec
              /\ pending_submits'[i].attempt = 1
<1>a. ShareRetried => mpc = "resp_sock" /\ mpc' # mpc
                      /\ submit_id' = submit_id + 1 /\ submit_id \in Nat
  BY DEF ShareRetried, NextLine, TypeOK, ShareTypes
<1>1. CASE UNCHANGED shareVars
  BY <1>1, <1>a DEF shareVars
<1>2. CASE ShareAccepted \/ ShareRejected
  BY <1>2, <1>a DEF ShareAccepted, ShareRejected, Without
<1>3. CASE ShareRetried
  <2> DEFINE share == pending_submits[msg.id]
             rest == Without(pending_submits, msg.id)
  <2>1. share \in PendingSubmits
    BY <1>3 DEF ShareRetried, RetryDue, HavePending, TypeOK, ShareTypes
  <2>2. Retry(share).be = ~share.be /\ Retry(share).attempt = 2
    BY <2>1 DEF Retry, PendingSubmits
  <2>3. CASE /\ pending_submits' = Put(rest, submit_id, Retry(share))
             /\ wire' = Put(wire, submit_id,
                            [be |-> ~share.be, sess |-> sess,
                             of |-> msg.id])
    <3>1. CASE i = submit_id
      <4>1. pending_submits'[i] = Retry(share)
        BY <2>3, <3>1 DEF Put
      <4> QED BY <1>3, <2>2, <2>3, <3>1, <4>1
    <3>2. CASE i # submit_id
      BY <2>3, <3>2 DEF Put, Without
    <3> QED BY <3>1, <3>2
  <2>4. CASE pending_submits' = rest
    BY <2>4 DEF Without
  <2> QED BY <1>3, <2>3, <2>4 DEF ShareRetried
<1>4. CASE ClearPending
  BY <1>4 DEF ClearPending, Empty
<1>5. ASSUME NEW w \in Workers, DropShare(w) \/ SendShare(w)
      PROVE  pending_submits' = pending_submits /\ ~ShareRetried
  BY <1>5, <1>a DEF DropShare, SendShare
<1>6. ASSUME NEW w \in Workers, RecordPending(w)
      PROVE  \/ /\ i \in DOMAIN pending_submits
                /\ pending_submits'[i] = pending_submits[i]
                /\ ~ShareRetried
             \/ /\ i = wl[w].req
                /\ pending_submits'[i].be = wl[w].rec
                /\ pending_submits'[i].attempt = 1
  BY <1>6, <1>a DEF RecordPending, Put
<1> QED BY <1>1, <1>2, <1>3, <1>4, <1>5, <1>6, ShareFrame

\* A worker that is about to record a share sent it now or before.
LEMMA RecordMoves ==
  ASSUME TypeOK, [Next]_vars, NEW w \in Workers, wpc'[w] = "record"
  PROVE  \/ wpc[w] = "record" /\ wl'[w] = wl[w]
         \/ /\ SendShare(w)
            /\ wl'[w].req = submit_id /\ wl'[w].rec = active_nonce_submit_be
            /\ wire' = Put(wire, submit_id,
                           [be |-> wl[w].be, sess |-> sess,
                            of |-> submit_id])
<1>0. wpc \in [Workers -> WorkerPcs] /\ wl \in [Workers -> Locals]
  BY DEF TypeOK, WorkerTypes
<1>1. CASE SendShare(w)
  <2> DEFINE l == [wl[w] EXCEPT !.rec = active_nonce_submit_be,
                                !.req = submit_id]
  <2>1. l.rec = active_nonce_submit_be /\ l.req = submit_id
    BY <1>0 DEF Locals
  <2> HIDE DEF l
  <2>2. /\ SetWorker(w, "record", l)
        /\ wire' = Put(wire, submit_id,
                       [be |-> wl[w].be, sess |-> sess, of |-> submit_id])
    BY <1>0, <1>1 DEF SendShare, SetWorker, l
  <2>3. wl'[w] = l
    BY <1>0, <2>2 DEF SetWorker
  <2> QED BY <1>1, <2>1, <2>2, <2>3
<1>2. CASE UNCHANGED workVars
  BY <1>2 DEF workVars
<1>3. CASE SigpipeKills
  BY <1>3 DEF SigpipeKills
<1>4. ASSUME NEW v \in Workers, WorkerStep(v), ~SendShare(w)
      PROVE  wpc[w] = "record" /\ wl'[w] = wl[w]
  BY <1>0, <1>4
     DEF WorkerStep, SetWorker, CreateEngine, PrintDevice, SeesStop,
         TakeJob, ScanFindsNothing, ScanFinds, ScanFails, PrintFailure,
         CheckStale, DropShare, LockSocket, SendShare, RecordPending,
         SendFailed
<1> QED BY <1>1, <1>2, <1>3, <1>4, WorkerFrame

\* A worker has the mode it read when it found its share.
LEMMA FoundMoves ==
  ASSUME TypeOK, [Next]_vars, NEW w \in Workers,
         wpc'[w] \in {"check", "lock", "send"}
  PROVE  \/ wpc[w] \in {"check", "lock", "send"} /\ wl'[w].be = wl[w].be
         \/ wl'[w].be = active_nonce_submit_be
<1>0. wpc \in [Workers -> WorkerPcs] /\ wl \in [Workers -> Locals]
  BY DEF TypeOK, WorkerTypes
<1>1. CASE ScanFinds(w)
  <2>1. PICK ok \in BOOLEAN :
          wl' = [wl EXCEPT ![w] = [wl[w] EXCEPT !.scanned = Advance(@),
                                                !.be = active_nonce_submit_be,
                                                !.ok = ok]]
    BY <1>1 DEF ScanFinds, SetWorker
  <2> QED BY <1>0, <2>1 DEF Locals
<1>2. CASE CheckStale(w)
  BY <1>0, <1>2 DEF CheckStale, SetWorker, Locals
<1>3. CASE UNCHANGED workVars
  BY <1>3 DEF workVars
<1>4. CASE SigpipeKills
  BY <1>4 DEF SigpipeKills
<1>5. ASSUME NEW v \in Workers, WorkerStep(v), ~ScanFinds(w), ~CheckStale(w)
      PROVE  wpc[w] \in {"check", "lock", "send"} /\ wl'[w].be = wl[w].be
  BY <1>0, <1>5
     DEF WorkerStep, SetWorker, CreateEngine, PrintDevice, SeesStop,
         TakeJob, ScanFindsNothing, ScanFinds, ScanFails, PrintFailure,
         CheckStale, DropShare, LockSocket, SendShare, RecordPending,
         SendFailed
<1> QED BY <1>1, <1>2, <1>3, <1>4, <1>5, WorkerFrame

\* Every step keeps what is said of accepted shares.
LEMMA LinesFit ==
  ASSUME TypeOK, WireInv, AcceptInv, [Next]_vars
  PROVE  AcceptInv'
<1>0. inq \in Seq(Lines)
  BY DEF TypeOK, NetTypes
<1>1. ASSUME NEW line, AcceptFits(line)
      PROVE  line.kind = "submit" /\ line.verdict = "accept"
               => line.id \in DOMAIN wire' /\ wire'[line.id].be = PoolBe
  BY <1>1, WireStep DEF AcceptFits
<1> DEFINE Fits(line) ==
             line.kind = "submit" /\ line.verdict = "accept"
               => line.id \in DOMAIN wire' /\ wire'[line.id].be = PoolBe
<1>2. /\ \A k \in 1..Len(inq) : Fits(inq[k])
      /\ Fits(msg) /\ Fits(NoLine)
  BY <1>1 DEF AcceptInv, NoLine
<1>3. SUFFICES (\A k \in 1..Len(inq') : Fits(inq'[k])) /\ Fits(msg')
  BY DEF AcceptInv, AcceptFits
<1>4. ASSUME NEW line \in Lines, Fits(line), inq' = Append(inq, line)
      PROVE  \A k \in 1..Len(inq') : Fits(inq'[k])
  <2>1. \A k \in 1..Len(inq') :
          inq'[k] = line \/ (k \in 1..Len(inq) /\ inq'[k] = inq[k])
    BY <1>0, <1>4, AppendAt
  <2> QED BY <1>2, <1>4, <2>1
<1> HIDE DEF Fits
<1> USE DEF jobVars, shareVars, flagVars, mainLocals, workVars, netVars,
            histVars, NextLine
<1>5. CASE UNCHANGED <<inq, outq, msg, submit_id>>
  BY <1>2, <1>5
<1>6. CASE \/ FirstSubscribe \/ SendAuthorize \/ AuthorizeResponse
           \/ ReportDifficulty \/ InstallJob \/ ShareAccepted
           \/ ShareRejected \/ ShareRetried \/ Resubscribe
  <2>1. UNCHANGED inq /\ msg' \in {msg, NoLine}
    BY <1>6 DEF FirstSubscribe, SendAuthorize, AuthorizeResponse,
                ReportDifficulty, InstallJob, ShareAccepted, ShareRejected,
                ShareRetried, Resubscribe
  <2> QED BY <1>2, <2>1
<1>7. CASE ReadLine
  <2>1. inq # <<>> /\ inq' = Tail(inq) /\ msg' = Head(inq)
    BY <1>7 DEF ReadLine
  <2>2. /\ \A k \in 1..Len(inq') :
             k + 1 \in 1..Len(inq) /\ inq'[k] = inq[k + 1]
        /\ msg' = inq[1] /\ 1 \in 1..Len(inq)
    BY <1>0, <2>1, TailAt
  <2> QED BY <1>2, <2>2
<1>8. CASE CloseSocket \/ LinkBreaks
  <2>1. inq' \in {inq, <<>>} /\ UNCHANGED msg
    BY <1>8 DEF CloseSocket, LinkBreaks
  <2> QED BY <1>2, <2>1
<1>9. CASE PoolAnswersHandshake
  <2>1. PICK k \in {"subscribe", "authorize"}, ok \in BOOLEAN :
          inq' = Append(inq, [kind |-> k, ok |-> ok])
    BY <1>9 DEF PoolAnswersHandshake
  <2>2. [kind |-> k, ok |-> ok] \in Lines
    BY DEF Lines
  <2>3. Fits([kind |-> k, ok |-> ok]) /\ UNCHANGED msg
    BY <1>9 DEF Fits, PoolAnswersHandshake
  <2> QED BY <1>2, <1>4, <2>1, <2>2, <2>3
<1>10. CASE PoolSendsJob \/ PoolSetsDifficulty
  <2>1. PICK line \in Lines : line.kind # "submit" /\ inq' = Append(inq, line)
    BY <1>10, JobPushed
  <2>2. Fits(line) /\ UNCHANGED msg
    BY <1>10, <2>1 DEF Fits, PoolSendsJob, PoolSetsDifficulty
  <2> QED BY <1>2, <1>4, <2>1, <2>2
<1>11. CASE PoolAnswersShare
  <2>1. PICK i \in DOMAIN wire, v \in Verdicts :
          /\ v = "accept" => wire[i].be = PoolBe
          /\ inq' = Append(inq, [kind |-> "submit", id |-> i, verdict |-> v])
    BY <1>11 DEF PoolAnswersShare
  <2> DEFINE line == [kind |-> "submit", id |-> i, verdict |-> v]
  <2>2. line \in Lines
    BY <2>1 DEF Lines, TypeOK, HistTypes
  <2>3. UNCHANGED <<msg, wire>>
    BY <1>11 DEF PoolAnswersShare
  <2>4. Fits(line)
    BY <2>1, <2>3 DEF Fits
  <2> QED BY <1>2, <1>4, <2>1, <2>2, <2>3, <2>4
<1>12. ASSUME NEW w \in Workers, SendShare(w)
       PROVE  (\A k \in 1..Len(inq') : Fits(inq'[k])) /\ Fits(msg')
  <2>1. UNCHANGED <<inq, msg>>
    BY <1>12 DEF SendShare
  <2> QED BY <1>2, <2>1
<1> QED
  BY <1>5, <1>6, <1>7, <1>8, <1>9, <1>10, <1>11, <1>12, AnswersFrame

\* What an accepted share does: it settles the mode, or finds it settled.
LEMMA AcceptSettles ==
  ASSUME TypeOK, AnswersInv, ModeInv, ShareAccepted
  PROVE  active_nonce_submit_be' = PoolBe
<1>1. HavePending
  BY AnswersFind DEF AnswersInv, ShareAccepted, ResponseFindsPending
<1>2. msg.kind = "submit" /\ msg.verdict = "accept"
  BY DEF ShareAccepted, TypeOK, MainTypes
<1>3. wire[msg.id].be = PoolBe
  BY <1>2 DEF ModeInv, AcceptInv, AcceptFits
<1>4. pending_submits[msg.id].be = PoolBe
  BY <1>1, <1>3 DEF HavePending, ModeInv, RecordInv
<1> QED BY <1>1, <1>4 DEF ShareAccepted

\* Any other step leaves the mode and the accepts alone.
LEMMA ModeKept ==
  ASSUME TypeOK, AnswersInv, ModeInv, [Next]_vars
  PROVE  \/ active_nonce_submit_be' = PoolBe
         \/ UNCHANGED <<active_nonce_submit_be, share_accepts>>
<1>1. CASE UNCHANGED shareVars
  BY <1>1 DEF shareVars
<1>2. CASE ShareAccepted
  BY <1>2, AcceptSettles
<1>3. CASE ShareRejected \/ ShareRetried \/ ClearPending
  BY <1>3 DEF ShareRejected, ShareRetried, ClearPending
<1>4. ASSUME NEW w \in Workers,
             DropShare(w) \/ SendShare(w) \/ RecordPending(w)
      PROVE  UNCHANGED <<active_nonce_submit_be, share_accepts>>
  BY <1>4 DEF DropShare, SendShare, RecordPending
<1> QED BY <1>1, <1>2, <1>3, <1>4, ShareFrame

\* Every step keeps a settled mode.
LEMMA ConvergesStep ==
  TypeOK /\ AnswersInv /\ ModeInv /\ [Next]_vars => ModeConverges'
  BY ModeKept DEF ModeInv, ModeConverges

\* Every step keeps the workers in line with it.
LEMMA WorkStep ==
  TypeOK /\ AnswersInv /\ ModeInv /\ [Next]_vars => WorkInv'
<1> SUFFICES ASSUME TypeOK, AnswersInv, ModeInv, [Next]_vars,
                    NEW w \in Workers,
                    wpc'[w] \in {"check", "lock", "send"}, wl'[w].be = PoolBe
             PROVE  active_nonce_submit_be' = PoolBe
  BY DEF WorkInv
<1>1. active_nonce_submit_be = PoolBe
  BY FoundMoves DEF ModeInv, WorkInv
<1> QED BY <1>1, ModeKept

\* Every step keeps the records in line with the wire.
LEMMA RecordStep ==
  TypeOK /\ AnswersInv /\ ModeInv /\ [Next]_vars => RecordInv'
<1> SUFFICES ASSUME TypeOK, AnswersInv, ModeInv, [Next]_vars
             PROVE  RecordInv'
  OBVIOUS
<1>0. \A i \in DOMAIN wire : i \in DOMAIN wire' /\ wire'[i] = wire[i]
  BY WireStep DEF ModeInv
<1>1. ASSUME NEW i \in DOMAIN pending_submits'
      PROVE  /\ i \in DOMAIN wire'
             /\ wire'[i].be = PoolBe => pending_submits'[i].be = PoolBe
  <2>1. CASE /\ i \in DOMAIN pending_submits
             /\ pending_submits'[i] = pending_submits[i]
    BY <1>0, <2>1 DEF ModeInv, RecordInv
  <2>2. CASE /\ i = submit_id
             /\ pending_submits'[i].be = ~pending_submits[msg.id].be
             /\ wire' = Put(wire, submit_id,
                            [be |-> ~pending_submits[msg.id].be,
                             sess |-> sess, of |-> msg.id])
    <3>1. /\ i \in DOMAIN wire'
          /\ wire'[i].be = ~pending_submits[msg.id].be
      BY <2>2 DEF Put
    <3> QED BY <2>2, <3>1
  <2>3. ASSUME NEW w \in Workers, RecordPending(w), i = wl[w].req,
               pending_submits'[i].be = wl[w].rec
        PROVE  /\ i \in DOMAIN wire'
               /\ wire'[i].be = PoolBe => pending_submits'[i].be = PoolBe
    BY <1>0, <2>3 DEF RecordPending, ModeInv, RecordInv
  <2> QED BY <2>1, <2>2, <2>3, PendingMoves
<1>2. ASSUME NEW w \in Workers, wpc'[w] = "record"
      PROVE  /\ wl'[w].req \in DOMAIN wire'
             /\ wire'[wl'[w].req].be = PoolBe => wl'[w].rec = PoolBe
  <2>1. CASE wpc[w] = "record" /\ wl'[w] = wl[w]
    BY <1>0, <2>1 DEF ModeInv, RecordInv
  <2>2. CASE /\ SendShare(w)
             /\ wl'[w].req = submit_id /\ wl'[w].rec = active_nonce_submit_be
             /\ wire' = Put(wire, submit_id,
                            [be |-> wl[w].be, sess |-> sess,
                             of |-> submit_id])
    <3>1. wl[w].be = PoolBe => active_nonce_submit_be = PoolBe
      BY <2>2 DEF SendShare, ModeInv, WorkInv
    <3>2. submit_id \in DOMAIN wire' /\ wire'[submit_id].be = wl[w].be
      BY <2>2 DEF Put
    <3> QED BY <2>2, <3>1, <3>2
  <2> QED BY <1>2, <2>1, <2>2, RecordMoves
<1> QED BY <1>1, <1>2 DEF RecordInv

\* Every step keeps the encoding.
LEMMA ModeStep == TypeOK /\ AnswersInv /\ ModeInv /\ [Next]_vars => ModeInv'
<1>1. TypeOK /\ ModeInv /\ [Next]_vars => WireInv' /\ AcceptInv'
  BY WireStep, LinesFit DEF ModeInv
<1> QED BY <1>1, RecordStep, WorkStep, ConvergesStep DEF ModeInv

\* Once the pool has accepted a share, the miner submits in the encoding
\* the pool understands.
THEOREM ModeSettled == Spec => []ModeConverges
<1>1. Init => TypeOK /\ AnswersInv /\ ModeInv
  BY AnswersHold, TypeInit, ModeInit
<1>2. TypeOK /\ AnswersInv /\ ModeInv /\ [Next]_vars
        => (TypeOK /\ AnswersInv /\ ModeInv)'
  BY TypeStep, AnswersStep, ModeStep
<1> QED BY <1>1, <1>2, PTL DEF Spec, ModeInv

-----------------------------------------------------------------------------
(* Retries.                                                                *)

\* The first request of a share, sent but once.
Sole(i) ==
  /\ i \in DOMAIN wire /\ wire[i].of = i
  /\ \A j \in DOMAIN wire : wire[j].of = i => j = i

\* The record of a submit tells whether its share was retried.
AttemptInv ==
  /\ \A i \in DOMAIN pending_submits :
       /\ i \in DOMAIN wire
       /\ pending_submits[i].attempt = 1 => Sole(i)
       /\ pending_submits[i].attempt = 2 => wire[i].of # i
  /\ \A w \in Workers : wpc[w] = "record" => Sole(wl[w].req)

\* Until a share is accepted everything but a retry is in the mode of the
\* configuration.
FirstModeInv ==
  share_accepts = 0 =>
    /\ active_nonce_submit_be = ConfigBe
    /\ \A w \in Workers :
         /\ wpc[w] \in {"check", "lock", "send"} => wl[w].be = ConfigBe
         /\ wpc[w] = "record" => wl[w].rec = ConfigBe
    /\ \A i \in DOMAIN wire : wire[i].of = i => wire[i].be = ConfigBe
    /\ \A i \in DOMAIN pending_submits :
         pending_submits[i].attempt = 1 => pending_submits[i].be = ConfigBe

\* What is in flight was sent on this connection; nothing is in flight while
\* there is none.
FlightInv ==
  /\ mpc \notin Forgotten =>
       \A id \in Flying(inq, Asked(outq), msg) :
         id \in DOMAIN wire /\ wire[id].sess = sess
  /\ mpc = "rc_connect" =>
       conn = "closed" /\ Flying(inq, Asked(outq), msg) = {}

\* The inductive invariant of the retries.
RetryInv == AttemptInv /\ FirstModeInv /\ FlightInv /\ RetriesOnceFlipped

\* At first no share is sent.
LEMMA RetryInit == Init => RetryInv
<1> SUFFICES ASSUME Init PROVE RetryInv
  OBVIOUS
<1>1. AttemptInv /\ FirstModeInv /\ RetriesOnceFlipped
  BY DEF Init, Empty, AttemptInv, FirstModeInv, RetriesOnceFlipped
<1>2. FlightInv
  BY DEF Init, FlightInv, Flying, Answers, Asked, NoLine
<1> QED BY <1>1, <1>2 DEF RetryInv

\* A share stays sent but once until its own retry.
LEMMA SoleKept ==
  ASSUME TypeOK, WireInv, [Next]_vars, NEW i, Sole(i),
         ShareRetried => i # msg.id
  PROVE  Sole(i)'
<1>1. i \in Nat /\ submit_id \in Nat /\ i # submit_id /\ i \in DOMAIN wire
  BY DEF TypeOK, HistTypes, ShareTypes, WireInv, Sole
<1>2. CASE UNCHANGED wire
  BY <1>2 DEF Sole
<1>3. ASSUME NEW r, wire' = Put(wire, submit_id, r), r.of # i
      PROVE  Sole(i)'
  BY <1>1, <1>3 DEF Sole, Put
<1>4. CASE /\ ShareRetried
           /\ wire' = Put(wire, submit_id,
                          [be |-> ~pending_submits[msg.id].be,
                           sess |-> sess, of |-> msg.id])
  BY <1>3, <1>4
<1>5. ASSUME NEW w \in Workers,
             wire' = Put(wire, submit_id,
                         [be |-> wl[w].be, sess |-> sess, of |-> submit_id])
      PROVE  Sole(i)'
  BY <1>1, <1>3, <1>5
<1> QED BY <1>2, <1>4, <1>5, WireMoves


\* Every step keeps the records in line with the attempts.
LEMMA AttemptStep ==
  TypeOK /\ SocketInv /\ WireInv /\ RetryInv /\ [Next]_vars => AttemptInv'
<1> SUFFICES ASSUME TypeOK, SocketInv, WireInv, RetryInv, [Next]_vars
             PROVE  AttemptInv'
  OBVIOUS
<1>0. /\ submit_id \in Nat /\ submit_id \notin DOMAIN wire
      /\ \A i \in DOMAIN wire :
           /\ i \in DOMAIN wire' /\ wire'[i] = wire[i]
           /\ i \in Nat /\ i < submit_id /\ wire[i].of \in DOMAIN wire
  BY WireStep DEF TypeOK, ShareTypes, HistTypes, WireInv, RetryInv,
                  RetriesOnceFlipped
<1>1. ASSUME NEW i \in DOMAIN pending_submits'
      PROVE  /\ i \in DOMAIN wire'
             /\ pending_submits'[i].attempt = 1 => Sole(i)'
             /\ pending_submits'[i].attempt = 2 => wire'[i].of # i
  <2>1. CASE /\ i \in DOMAIN pending_submits
             /\ pending_submits'[i] = pending_submits[i]
             /\ ShareRetried => i # msg.id
    BY <1>0, <2>1, SoleKept DEF RetryInv, AttemptInv
  <2>2. CASE /\ ShareRetried /\ i = submit_id
             /\ pending_submits'[i].attempt = 2
             /\ wire' = Put(wire, submit_id,
                            [be |-> ~pending_submits[msg.id].be,
                             sess |-> sess, of |-> msg.id])
    <3>1. msg.id \in DOMAIN wire
      BY <2>2 DEF ShareRetried, RetryDue, HavePending, RetryInv, AttemptInv
    <3>2. i \in DOMAIN wire' /\ wire'[i].of = msg.id
      BY <2>2 DEF Put
    <3> QED BY <1>0, <2>2, <3>1, <3>2
  <2>3. ASSUME NEW w \in Workers, RecordPending(w), i = wl[w].req,
               pending_submits'[i].attempt = 1
        PROVE  i \in DOMAIN wire' /\ Sole(i)'
    <3>1. wpc[w] = "record" /\ Sole(i)
      BY <2>3 DEF RecordPending, RetryInv, AttemptInv
    <3>2. ~ShareRetried
      BY <3>1, ProcsAssumption
         DEF ShareRetried, SocketInv, WorkerSocketInv, Sending
    <3>3. i \in DOMAIN wire
      BY <3>1 DEF Sole
    <3> QED BY <1>0, <3>1, <3>2, <3>3, SoleKept
  <2> QED BY <2>1, <2>2, <2>3, PendingMoves
<1>2. ASSUME NEW w \in Workers, wpc'[w] = "record"
      PROVE  Sole(wl[w].req)'
  <2>1. CASE wpc[w] = "record" /\ wl'[w] = wl[w]
    <3>1. Sole(wl[w].req)
      BY <2>1 DEF RetryInv, AttemptInv
    <3>2. ~ShareRetried
      BY <2>1, ProcsAssumption
         DEF ShareRetried, SocketInv, WorkerSocketInv, Sending
    <3>3. ASSUME NEW i, Sole(i) PROVE Sole(i)'
      BY <3>2, <3>3, SoleKept
    <3> QED BY <2>1, <3>1, <3>3 DEF Sole
  <2>2. CASE /\ wl'[w].req = submit_id
             /\ wire' = Put(wire, submit_id,
                            [be |-> wl[w].be, sess |-> sess,
                             of |-> submit_id])
    <3> DEFINE new == [be |-> wl[w].be, sess |-> sess, of |-> submit_id]
    <3>1. new.of = submit_id
      OBVIOUS
    <3> HIDE DEF new
    <3>2. wire' = Put(wire, submit_id, new)
      BY <2>2 DEF new
    <3> QED BY <1>0, <2>2, <3>1, <3>2 DEF Sole, Put
  <2> QED BY <2>1, <2>2, <1>2, RecordMoves
<1> QED BY <1>1, <1>2 DEF AttemptInv

\* The accepts only grow, and the mode is changed by an accept.
LEMMA AcceptsGrow ==
  ASSUME TypeOK, [Next]_vars, share_accepts' = 0
  PROVE  share_accepts = 0 /\ UNCHANGED active_nonce_submit_be
<1>1. CASE UNCHANGED shareVars
  BY <1>1 DEF shareVars
<1>2. CASE ShareAccepted
  BY <1>2 DEF ShareAccepted, TypeOK, ShareTypes
<1>3. CASE ShareRejected \/ ShareRetried \/ ClearPending
  BY <1>3 DEF ShareRejected, ShareRetried, ClearPending
<1>4. ASSUME NEW w \in Workers,
             DropShare(w) \/ SendShare(w) \/ RecordPending(w)
      PROVE  UNCHANGED <<active_nonce_submit_be, share_accepts>>
  BY <1>4 DEF DropShare, SendShare, RecordPending
<1> QED BY <1>1, <1>2, <1>3, <1>4, ShareFrame

\* Every step keeps the first mode.
LEMMA FirstModeStep ==
  TypeOK /\ WireInv /\ RetryInv /\ [Next]_vars => FirstModeInv'
<1> SUFFICES ASSUME TypeOK, WireInv, RetryInv, [Next]_vars,
                    share_accepts' = 0
             PROVE  /\ active_nonce_submit_be' = ConfigBe
                    /\ \A w \in Workers :
                         /\ wpc'[w] \in {"check", "lock", "send"}
                              => wl'[w].be = ConfigBe
                         /\ wpc'[w] = "record" => wl'[w].rec = ConfigBe
                    /\ \A i \in DOMAIN wire' :
                         wire'[i].of = i => wire'[i].be = ConfigBe
                    /\ \A i \in DOMAIN pending_submits' :
                         pending_submits'[i].attempt = 1
                           => pending_submits'[i].be = ConfigBe
  BY DEF FirstModeInv
<1>0. /\ active_nonce_submit_be = ConfigBe
      /\ \A w \in Workers :
           /\ wpc[w] \in {"check", "lock", "send"} => wl[w].be = ConfigBe
           /\ wpc[w] = "record" => wl[w].rec = ConfigBe
      /\ \A i \in DOMAIN wire : wire[i].of = i => wire[i].be = ConfigBe
      /\ \A i \in DOMAIN pending_submits :
           pending_submits[i].attempt = 1 => pending_submits[i].be = ConfigBe
  BY AcceptsGrow DEF RetryInv, FirstModeInv
<1>1. active_nonce_submit_be' = ConfigBe
  BY <1>0, AcceptsGrow
<1>2. ASSUME NEW w \in Workers
      PROVE  /\ wpc'[w] \in {"check", "lock", "send"} => wl'[w].be = ConfigBe
             /\ wpc'[w] = "record" => wl'[w].rec = ConfigBe
  BY <1>0, FoundMoves, RecordMoves
<1>3. ASSUME NEW i \in DOMAIN wire', wire'[i].of = i
      PROVE  wire'[i].be = ConfigBe
  <2>1. CASE UNCHANGED wire
    BY <1>0, <1>3, <2>1
  <2>2. CASE /\ ShareRetried
             /\ wire' = Put(wire, submit_id,
                            [be |-> ~pending_submits[msg.id].be,
                             sess |-> sess, of |-> msg.id])
    <3>1. msg.id \in DOMAIN wire
      BY <2>2 DEF ShareRetried, RetryDue, HavePending, RetryInv, AttemptInv
    <3>2. msg.id # submit_id
      BY <3>1 DEF WireInv, TypeOK, ShareTypes, HistTypes
    <3>3. i = submit_id => wire'[i].of = msg.id
      BY <2>2 DEF Put
    <3>4. i # submit_id => i \in DOMAIN wire /\ wire'[i] = wire[i]
      BY <2>2 DEF Put
    <3> QED BY <1>0, <1>3, <3>2, <3>3, <3>4
  <2>3. ASSUME NEW w \in Workers, SendShare(w),
               wire' = Put(wire, submit_id, [be |-> wl[w].be, sess |-> sess,
                                             of |-> submit_id])
        PROVE  wire'[i].be = ConfigBe
    <3>1. i = submit_id => wire'[i].be = wl[w].be
      BY <2>3 DEF Put
    <3>2. wl[w].be = ConfigBe
      BY <1>0, <2>3 DEF SendShare
    <3>3. i # submit_id => i \in DOMAIN wire /\ wire'[i] = wire[i]
      BY <2>3 DEF Put
    <3> QED BY <1>0, <1>3, <3>1, <3>2, <3>3
  <2> QED BY <2>1, <2>2, <2>3, WireMoves
<1>4. ASSUME NEW i \in DOMAIN pending_submits',
             pending_submits'[i].attempt = 1
      PROVE  pending_submits'[i].be = ConfigBe
  <2>1. CASE /\ i \in DOMAIN pending_submits
             /\ pending_submits'[i] = pending_submits[i]
    BY <1>0, <1>4, <2>1
  <2>2. ASSUME NEW w \in Workers, RecordPending(w),
               pending_submits'[i].be = wl[w].rec
        PROVE  pending_submits'[i].be = ConfigBe
    <3>1. wpc[w] = "record"
      BY <2>2 DEF RecordPending
    <3> QED BY <1>0, <2>2, <3>1
  <2>3. pending_submits'[i].attempt # 2
    BY <1>4
  <2> QED BY <2>1, <2>2, <2>3, PendingMoves
<1> QED BY <1>1, <1>2, <1>3, <1>4

\* While there is no connection nothing is sent or received.
LEMMA ClosedStays ==
  ASSUME TypeOK, MsgInv, FlightInv, [Next]_vars, mpc' = "rc_connect"
  PROVE  conn' = "closed" /\ Flying(inq, Asked(outq), msg)' = {}
<1>1. CASE mpc # "rc_connect"
  BY <1>1, ClosingForgets DEF CloseSocket
<1>2. CASE mpc = "rc_connect"
  <2>1. ~MainStep
    BY <1>2
       DEF MainStep, NextLine, CheckEngines, FirstSubscribe, ReadLine,
           ReadClosed, ReadTimesOut, SeesReconnectFlag, StatsLockSocket,
           StatsPrint, SubscribeResponse, SendAuthorize, AuthorizeResponse,
           SetDifficulty, ReportDifficulty, NotifyLockSocket, InstallJob,
           ReadGeneration, ShareAccepted, ShareRejected, ShareRetried,
           InvalidateJob, ClearPending, CloseSocket, Connect, ConnectFails,
           ReportReconnect, ResetSession, Resubscribe, StopWorkers,
           JoinWorkers
  <2>2. UNCHANGED msg
    BY <1>2, <2>1, MainFrame DEF SigpipeKills, mainLocals
  <2>3. conn = "closed" /\ Flying(inq, Asked(outq), msg) = {}
    BY <1>2 DEF FlightInv
  <2>4. UNCHANGED <<conn, inq, outq>>
    <3>1. CASE UNCHANGED netVars
      BY <3>1 DEF netVars
    <3>2. ASSUME NEW w \in Workers, SendShare(w)
          PROVE  UNCHANGED <<conn, inq, outq>>
      BY <2>3, <3>2 DEF SendShare, CanSend
    <3>3. ~Environment \/ UNCHANGED netVars
      BY <2>3 DEF Environment, LinkBreaks, PoolAnswersHandshake,
                  PoolAnswersShare, PoolSendsJob, PoolSetsDifficulty, CanPush
    <3> QED
      BY <2>1, <3>1, <3>2, <3>3, NetFrame DEF MainStep, Environment
  <2>5. Flying(inq, Asked(outq), msg)' = Flying(inq, Asked(outq), msg)
    BY <2>2, <2>4 DEF Flying, Answers, Asked
  <2> QED BY <2>3, <2>4, <2>5
<1> QED BY <1>1, <1>2

\* Every step keeps what is in flight on its connection.
LEMMA FlightStep ==
  TypeOK /\ AnswersInv /\ WireInv /\ RetryInv /\ [Next]_vars => FlightInv'
<1> SUFFICES ASSUME TypeOK, AnswersInv, WireInv, RetryInv, [Next]_vars
             PROVE  FlightInv'
  OBVIOUS
<1>1. ASSUME mpc' \notin Forgotten,
             NEW id \in Flying(inq, Asked(outq), msg)'
      PROVE  id \in DOMAIN wire' /\ wire'[id].sess = sess'
  <2>1. mpc \notin Forgotten
    BY <1>1, ClosingForgets DEF AnswersInv
  <2>2. CASE Sent(id)'
    BY <2>2 DEF Sent
  <2>3. CASE id \in Flying(inq, Asked(outq), msg)
    <3>1. id \in DOMAIN wire /\ wire[id].sess = sess
      BY <2>1, <2>3 DEF RetryInv, FlightInv
    <3>2. ~Connect
      BY <2>3 DEF Connect, RetryInv, FlightInv
    <3>3. sess' = sess
      <4>1. ASSUME NEW w \in Workers, SendShare(w) PROVE sess' = sess
        BY <4>1 DEF SendShare
      <4> QED
        BY <3>2, <4>1, NetFrame
           DEF netVars, FirstSubscribe, ReadLine, SendAuthorize,
               ShareRetried, CloseSocket, Resubscribe, LinkBreaks,
               PoolAnswersHandshake, PoolAnswersShare, PoolSendsJob,
               PoolSetsDifficulty
    <3> QED BY <3>1, <3>3, WireStep
  <2> QED BY <1>1, <2>2, <2>3, FlyingMoves DEF AnswersInv
<1>2. mpc' = "rc_connect" =>
        conn' = "closed" /\ Flying(inq, Asked(outq), msg)' = {}
  BY ClosedStays DEF AnswersInv, RetryInv
<1> QED BY <1>1, <1>2 DEF FlightInv

\* Every step keeps what is said of retries.
LEMMA RetriesStep ==
  TypeOK /\ AnswersInv /\ WireInv /\ RetryInv /\ [Next]_vars
    => RetriesOnceFlipped'
<1> SUFFICES ASSUME TypeOK, AnswersInv, WireInv, RetryInv, [Next]_vars,
                    NEW i \in DOMAIN wire', wire'[i].of # i
             PROVE  LET o == wire'[i].of
                    IN  /\ o \in DOMAIN wire' /\ wire'[o].of = o
                        /\ wire'[o].be # wire'[i].be
                        /\ wire'[o].sess = wire'[i].sess
                        /\ \A j \in DOMAIN wire' :
                             wire'[j].of = o => j \in {o, i}
  BY DEF RetriesOnceFlipped
<1> DEFINE o == wire'[i].of
<1>0. /\ submit_id \in Nat /\ submit_id \notin DOMAIN wire
      /\ \A j \in DOMAIN wire : wire[j].of \in DOMAIN wire
  BY DEF TypeOK, ShareTypes, HistTypes, WireInv, RetryInv, RetriesOnceFlipped
<1>a. \A j \in DOMAIN wire :
        LET p == wire[j].of
        IN  p # j => /\ p \in DOMAIN wire /\ wire[p].of = p
                     /\ wire[p].be # wire[j].be
                     /\ wire[p].sess = wire[j].sess
                     /\ \A k \in DOMAIN wire : wire[k].of = p => k \in {p, j}
  BY DEF RetryInv, RetriesOnceFlipped
<1>1. CASE UNCHANGED wire
  BY <1>a, <1>1
<1>2. ASSUME NEW r, wire' = Put(wire, submit_id, r), i # submit_id,
             r.of # wire[i].of
      PROVE  /\ o \in DOMAIN wire' /\ wire'[o].of = o
             /\ wire'[o].be # wire'[i].be
             /\ wire'[o].sess = wire'[i].sess
             /\ \A j \in DOMAIN wire' : wire'[j].of = o => j \in {o, i}
  <2>1. /\ i \in DOMAIN wire /\ wire'[i] = wire[i]
        /\ DOMAIN wire' = DOMAIN wire \cup {submit_id}
        /\ wire'[submit_id] = r
        /\ \A j \in DOMAIN wire : wire'[j] = wire[j]
    BY <1>0, <1>2 DEF Put
  <2> QED BY <1>0, <1>a, <1>2, <2>1
<1>3. CASE /\ ShareRetried
           /\ wire' = Put(wire, submit_id,
                          [be |-> ~pending_submits[msg.id].be,
                           sess |-> sess, of |-> msg.id])
  <2> DEFINE new == [be |-> ~pending_submits[msg.id].be, sess |-> sess,
                     of |-> msg.id]
  <2>1. new.of = msg.id /\ new.sess = sess
        /\ new.be = ~pending_submits[msg.id].be
    OBVIOUS
  <2> HIDE DEF new
  <2>2. wire' = Put(wire, submit_id, new)
    BY <1>3 DEF new
  <2>3. /\ msg.id \in DOMAIN pending_submits /\ mpc = "resp_sock"
        /\ pending_submits[msg.id].attempt = 1 /\ share_accepts = 0
    BY <1>3 DEF ShareRetried, RetryDue, HavePending
  <2>4. Sole(msg.id)
    BY <2>3 DEF RetryInv, AttemptInv
  <2>5. CASE i # submit_id
    <3>1. i \in DOMAIN wire /\ wire'[i] = wire[i]
      BY <2>2, <2>5 DEF Put
    <3>2. wire[i].of # msg.id
      BY <2>4, <3>1 DEF Sole
    <3> QED BY <1>2, <2>1, <2>2, <2>5, <3>2
  <2>6. CASE i = submit_id
    <3>1. /\ wire'[i] = new /\ o = msg.id
          /\ DOMAIN wire' = DOMAIN wire \cup {i}
          /\ \A j \in DOMAIN wire : wire'[j] = wire[j]
      BY <1>0, <2>1, <2>2, <2>6 DEF Put
    <3>2. wire[o].be = ConfigBe /\ pending_submits[o].be = ConfigBe
      BY <2>3, <2>4, <3>1 DEF RetryInv, FirstModeInv, Sole
    <3>3. new.be # ConfigBe
      BY <2>1, <3>1, <3>2
    <3>4. wire[o].sess = sess
      <4>1. msg.kind = "submit" /\ msg.id \in Nat
        BY <2>3, MsgFields DEF TypeOK, MainTypes
      <4>2. msg.id \in Flying(inq, Asked(outq), msg)
        BY <4>1 DEF Flying
      <4> QED BY <2>3, <3>1, <4>2 DEF RetryInv, FlightInv, Forgotten
    <3> QED BY <2>1, <2>4, <3>1, <3>2, <3>3, <3>4 DEF Sole
  <2> QED BY <2>5, <2>6
<1>4. ASSUME NEW w \in Workers,
             wire' = Put(wire, submit_id, [be |-> wl[w].be, sess |-> sess,
                                           of |-> submit_id])
      PROVE  /\ o \in DOMAIN wire' /\ wire'[o].of = o
             /\ wire'[o].be # wire'[i].be
             /\ wire'[o].sess = wire'[i].sess
             /\ \A j \in DOMAIN wire' : wire'[j].of = o => j \in {o, i}
  <2> DEFINE new == [be |-> wl[w].be, sess |-> sess, of |-> submit_id]
  <2>1. new.of = submit_id
    OBVIOUS
  <2> HIDE DEF new
  <2>2. wire' = Put(wire, submit_id, new)
    BY <1>4 DEF new
  <2>3. i # submit_id
    BY <2>1, <2>2 DEF Put
  <2>4. i \in DOMAIN wire
    BY <2>2, <2>3 DEF Put
  <2>5. wire[i].of # submit_id
    BY <1>0, <2>4
  <2> QED BY <1>2, <2>1, <2>2, <2>3, <2>5
<1> QED BY <1>1, <1>3, <1>4, WireMoves

\* Every step keeps the retries.
LEMMA RetryStep ==
  TypeOK /\ AnswersInv /\ WireInv /\ RetryInv /\ [Next]_vars => RetryInv'
  BY AttemptStep, FirstModeStep, FlightStep, RetriesStep
     DEF AnswersInv, RetryInv

\* A retry sends its share in the encoding that was not on the wire before,
\* on the same connection, and no share goes out a third time: before any
\* share is accepted the mode is the configured one, and the main thread
\* retries a share it finds recorded as sent once, with socket_mutex free.
THEOREM RetriesFlip == Spec => []RetriesOnceFlipped
<1>1. Init => TypeOK /\ AnswersInv /\ WireInv /\ RetryInv
  BY TypeInit, AnswersHold, ModeInit, RetryInit DEF ModeInv
<1>2. TypeOK /\ AnswersInv /\ WireInv /\ RetryInv /\ [Next]_vars
        => (TypeOK /\ AnswersInv /\ WireInv /\ RetryInv)'
  BY TypeStep, AnswersStep, WireStep, RetryStep
<1> QED BY <1>1, <1>2, PTL DEF Spec, RetryInv

-----------------------------------------------------------------------------
(* The life cycle of a share.                                              *)

Recording == {wl[w].req : w \in {v \in Workers : wpc[v] = "record"}}

\* The signal ends the workers with the main thread.
KilledInv == mpc = "killed" => \A w \in Workers : wpc[w] = "exited"

\* Only the signal kills the process.
LEMMA KilledStays ==
  ASSUME TypeOK, [Next]_vars, ~SigpipeKills
  PROVE  mpc' = "killed" <=> mpc = "killed"
<1>1. ReadLine => mpc' # "killed" /\ mpc # "killed"
  <2>1. ReadLine => mpc' = HandlerOf(msg') /\ msg' \in Lines /\ mpc = "loop"
    BY DEF ReadLine, TypeOK, NetTypes
  <2> QED BY <2>1, LineFields DEF HandlerOf
<1>2. MainStep /\ ~ReadLine => mpc' # "killed" /\ mpc # "killed"
  BY DEF NextLine, MainStep, CheckEngines, FirstSubscribe, ReadClosed,
         ReadTimesOut, SeesReconnectFlag, StatsLockSocket, StatsPrint,
         SubscribeResponse, SendAuthorize, AuthorizeResponse,
         SetDifficulty, ReportDifficulty, NotifyLockSocket, InstallJob,
         ReadGeneration, ShareAccepted, ShareRejected, ShareRetried,
         InvalidateJob, ClearPending, CloseSocket, Connect, ConnectFails,
         ReportReconnect, ResetSession, Resubscribe, StopWorkers,
         JoinWorkers
<1> QED BY <1>1, <1>2, MainFrame

\* Nobody moves after it.
LEMMA KilledStep == TypeOK /\ KilledInv /\ [Next]_vars => KilledInv'
<1> SUFFICES ASSUME TypeOK, KilledInv, [Next]_vars, mpc' = "killed",
                    NEW w \in Workers
             PROVE  wpc'[w] = "exited"
  BY DEF KilledInv
<1>1. CASE SigpipeKills
  BY <1>1 DEF SigpipeKills
<1>2. CASE ~SigpipeKills
  <2>1. \A v \in Workers : wpc[v] = "exited"
    BY <1>2, KilledStays DEF KilledInv
  <2>2. \A v \in Workers : ~WorkerStep(v)
    BY <2>1
       DEF WorkerStep, CreateEngine, PrintDevice, SeesStop, TakeJob,
           ScanFindsNothing, ScanFinds, ScanFails, PrintFailure, CheckStale,
           DropShare, LockSocket, SendShare, RecordPending, SendFailed
  <2> QED BY <1>2, <2>1, <2>2, WorkerFrame DEF workVars
<1> QED BY <1>1, <1>2

\* What Pending and out are.
LEMMA OutIs ==
  /\ mpc # "killed" => Pending = DOMAIN pending_submits \cup Recording
  /\ mpc = "killed" => Pending = {}
  /\ DOMAIN out = {wire[i].of : i \in Pending}
  /\ \A s \in DOMAIN out : out[s] = Cardinality(Attempts(s))
  /\ out = [s \in DOMAIN out |-> out[s]]
  BY DEF Pending, Recording, out

\* The same, a step later.
LEMMA OutWillBe ==
  /\ mpc' # "killed" => Pending' = DOMAIN pending_submits' \cup Recording'
  /\ mpc' = "killed" => Pending' = {}
  /\ DOMAIN out' = {wire'[i].of : i \in Pending'}
  /\ \A s \in DOMAIN out' : out'[s] = Cardinality(Attempts(s)')
  /\ out' = [s \in DOMAIN out' |-> out'[s]]
  BY DEF Pending, Recording, out

\* At first there is no share.
LEMMA LifecycleInit == Init => Lifecycle!Init
<1> SUFFICES ASSUME Init PROVE Lifecycle!Init
  OBVIOUS
<1>1. Pending = {} /\ used = {}
  BY DEF Init, Pending, used, Empty
<1>2. out = [s \in {} |-> 0]
  BY <1>1, OutIs
<1> QED BY <1>1, <1>2 DEF Init, Lifecycle!Init

\* What the proof of a step may use.
LifecycleInv ==
  TypeOK /\ AnswersInv /\ WireInv /\ RetryInv /\ KilledInv

\* A request without an answer is on the wire, and no share has two.
LEMMA PendingApart ==
  ASSUME LifecycleInv
  PROVE  /\ Pending \subseteq DOMAIN wire
         /\ \A i, j \in Pending : wire[i].of = wire[j].of => i = j
<1>1. ASSUME NEW i \in Pending
      PROVE  \/ Sole(i)
             \/ /\ i \in DOMAIN pending_submits /\ i \in DOMAIN wire
                /\ wire[i].of # i
  BY <1>1
     DEF Pending, LifecycleInv, RetryInv, AttemptInv, TypeOK, ShareTypes,
         PendingSubmits
<1>2. ASSUME NEW i \in Pending, NEW j \in Pending, wire[i].of = wire[j].of
      PROVE  i = j
  <2>1. CASE Sole(i) \/ Sole(j)
    BY <1>1, <1>2, <2>1 DEF Sole
  <2>2. CASE ~Sole(i) /\ ~Sole(j)
    BY <1>1, <1>2, <2>2 DEF LifecycleInv, RetryInv, RetriesOnceFlipped
  <2> QED BY <2>1, <2>2
<1> QED BY <1>1, <1>2 DEF Sole

\* Nothing happens to the shares.
LEMMA OutStays ==
  ASSUME UNCHANGED wire, Pending' = Pending
  PROVE  out' = out /\ used' = used
<1>1. \A s : Attempts(s)' = Attempts(s)
  BY DEF Attempts
<1>2. used' = used
  BY DEF used
<1>3. DOMAIN out' = DOMAIN out
  BY OutIs, OutWillBe
<1>4. \A s \in DOMAIN out : out'[s] = out[s]
  BY <1>1, <1>3, OutIs, OutWillBe
<1> QED BY <1>2, <1>3, <1>4, OutIs, OutWillBe

\* One request is answered for good.
LEMMA OutSettles ==
  ASSUME LifecycleInv, UNCHANGED wire,
         NEW i \in Pending, Pending' = Pending \ {i}
  PROVE  /\ used' = used /\ wire[i].of \in DOMAIN out
         /\ Lifecycle!Settled(wire[i].of)
<1> DEFINE s == wire[i].of
<1>1. used' = used /\ \A r : Attempts(r)' = Attempts(r)
  BY DEF Attempts, used
<1>2. DOMAIN out' = DOMAIN out \ {s} /\ s \in DOMAIN out
  BY PendingApart, OutIs, OutWillBe
<1>3. \A r \in DOMAIN out' : out'[r] = out[r]
  BY <1>1, <1>2, OutIs, OutWillBe
<1>4. out' = [r \in DOMAIN out \ {s} |-> out[r]]
  BY <1>2, <1>3, OutWillBe
<1> QED BY <1>1, <1>2, <1>4 DEF Lifecycle!Settled

\* A share is sent for the first time.
LEMMA OutSends ==
  ASSUME LifecycleInv, NEW b, NEW c, NEW n, n = submit_id,
         wire' = Put(wire, n, [be |-> b, sess |-> c, of |-> n]),
         Pending' = Pending \cup {n},
         UNCHANGED <<share_accepts, share_rejects, share_discarded>>
  PROVE  Lifecycle!Send
<1> DEFINE new == [be |-> b, sess |-> c, of |-> n]
<1>0. /\ n \in Nat /\ n \notin DOMAIN wire
      /\ \A i \in DOMAIN wire : wire[i].of \in DOMAIN wire
  BY DEF LifecycleInv, TypeOK, ShareTypes, HistTypes, WireInv, RetryInv,
         RetriesOnceFlipped
<1>1. /\ DOMAIN wire' = DOMAIN wire \cup {n} /\ wire'[n].of = n
      /\ \A i \in DOMAIN wire : wire'[i] = wire[i]
  <2>1. new.of = n
    OBVIOUS
  <2> HIDE DEF new
  <2>2. wire' = Put(wire, n, new)
    BY DEF new
  <2> QED BY <1>0, <2>1, <2>2 DEF Put
<1>2. used' = used \cup {n} /\ n \notin used
  BY <1>0, <1>1 DEF used
<1>3. \A r : r # n => Attempts(r)' = Attempts(r)
  BY <1>0, <1>1 DEF Attempts
<1>4. Attempts(n)' = {n}
  BY <1>0, <1>1 DEF Attempts
<1>5. DOMAIN out' = DOMAIN out \cup {n} /\ n \notin DOMAIN out
  BY <1>0, <1>1, PendingApart, OutIs, OutWillBe
<1>6. out'[n] = 1
  <2>1. Cardinality({n}) = 1
    BY FS_Singleton
  <2> QED BY <1>4, <1>5, <2>1, OutWillBe
<1>7. \A r \in DOMAIN out : out'[r] = out[r]
  BY <1>3, <1>5, OutIs, OutWillBe
<1>8. out' = [r \in DOMAIN out \cup {n} |-> IF r = n THEN 1 ELSE out[r]]
  BY <1>5, <1>6, <1>7, OutWillBe
<1> QED BY <1>0, <1>2, <1>8 DEF Lifecycle!Send

\* A share is sent again.
LEMMA OutRetries ==
  ASSUME LifecycleInv, NEW b, NEW c, NEW s \in Pending, Sole(s),
         wire' = Put(wire, submit_id, [be |-> b, sess |-> c, of |-> s]),
         Pending' = (Pending \ {s}) \cup {submit_id}
  PROVE  /\ used' = used /\ s \in DOMAIN out /\ out[s] = 1
         /\ out' = [out EXCEPT ![s] = 2]
<1> DEFINE n == submit_id
           new == [be |-> b, sess |-> c, of |-> s]
<1>0. n \in Nat /\ n \notin DOMAIN wire /\ s \in DOMAIN wire /\ wire[s].of = s
  BY DEF LifecycleInv, TypeOK, ShareTypes, HistTypes, WireInv, Sole
<1>1. /\ DOMAIN wire' = DOMAIN wire \cup {n} /\ wire'[n].of = s
      /\ \A i \in DOMAIN wire : wire'[i] = wire[i]
  <2>1. new.of = s
    OBVIOUS
  <2> HIDE DEF new
  <2>2. wire' = Put(wire, n, new)
    BY DEF new
  <2> QED BY <1>0, <2>1, <2>2 DEF Put
<1>2. used' = used
  BY <1>0, <1>1 DEF used
<1>3. \A r : r # s => Attempts(r)' = Attempts(r)
  BY <1>0, <1>1 DEF Attempts
<1>4. Attempts(s) = {s} /\ Attempts(s)' = {s} \cup {n} /\ n # s
  BY <1>0, <1>1 DEF Attempts, Sole
<1>5. DOMAIN out' = DOMAIN out /\ s \in DOMAIN out
  BY <1>0, <1>1, PendingApart, OutIs, OutWillBe
<1>6. out[s] = 1
  <2>1. Cardinality({s}) = 1
    BY FS_Singleton
  <2> QED BY <1>4, <1>5, <2>1, OutIs
<1>7. out'[s] = 2
  <2>1. IsFiniteSet({s}) /\ Cardinality({s}) = 1
    BY FS_Singleton
  <2>2. Cardinality({s} \cup {n}) = 2
    BY <1>4, <2>1, FS_AddElement
  <2>3. s \in DOMAIN out'
    BY <1>5
  <2>4. out'[s] = Cardinality(Attempts(s)')
    BY <2>3, OutWillBe
  <2> QED BY <1>4, <2>2, <2>4
<1>8. \A r \in DOMAIN out : r # s => out'[r] = out[r]
  BY <1>3, <1>5, OutIs, OutWillBe
<1>9. out' = [out EXCEPT ![s] = 2]
  BY <1>5, <1>7, <1>8, OutIs, OutWillBe
<1> QED BY <1>2, <1>5, <1>6, <1>9

\* Everything without an answer is given up.
LEMMA OutForgets ==
  ASSUME UNCHANGED wire, Pending' = {}
  PROVE  used' = used /\ out' = [s \in {} |-> 0]
<1>1. used' = used
  BY DEF used
<1>2. DOMAIN out' = {}
  BY OutWillBe
<1> QED BY <1>1, <1>2, OutWillBe

\* Nobody is about to record while socket_mutex is free.
LEMMA NoneRecords ==
  ASSUME SocketInv, socket_mutex = NoOne
  PROVE  Recording = {}
  BY ProcsAssumption DEF SocketInv, WorkerSocketInv, Sending, Recording

\* Most steps leave the requests without an answer alone.
LEMMA PendingStays ==
  ASSUME TypeOK, [Next]_vars, ~SigpipeKills, UNCHANGED pending_submits,
         \A w \in Workers : ~RecordPending(w),
         \A w \in Workers : SendShare(w) => wpc'[w] # "record"
  PROVE  Pending' = Pending
<1>0. wpc \in [Workers -> WorkerPcs] /\ wl \in [Workers -> Locals]
  BY DEF TypeOK, WorkerTypes
<1>1. ASSUME NEW w \in Workers
      PROVE  /\ wpc'[w] = "record" <=> wpc[w] = "record"
             /\ wpc[w] = "record" => wl'[w] = wl[w]
  <2>1. CASE UNCHANGED workVars
    BY <2>1 DEF workVars
  <2>2. ASSUME NEW v \in Workers, WorkerStep(v)
        PROVE  wpc[w] = "record" => wpc'[w] = "record" /\ wl'[w] = wl[w]
    BY <1>0, <2>2
       DEF WorkerStep, SetWorker, CreateEngine, PrintDevice, SeesStop,
           TakeJob, ScanFindsNothing, ScanFinds, ScanFails, PrintFailure,
           CheckStale, DropShare, LockSocket, SendShare, SendFailed
  <2>3. wpc'[w] = "record" => wpc[w] = "record"
    BY RecordMoves
  <2> QED BY <2>1, <2>2, <2>3, WorkerFrame
<1>2. Recording' = Recording
  BY <1>1 DEF Recording
<1> QED BY <1>2, KilledStays, OutIs, OutWillBe

\* A share is sent for the first time, or the send fails.
LEMMA SendMaps ==
  ASSUME LifecycleInv, [Next]_vars, NEW w \in Workers, SendShare(w)
  PROVE  Lifecycle!Send \/ UNCHANGED Lifecycle!lifecycleVars
<1> USE DEF LifecycleInv
<1>0. /\ wpc \in [Workers -> WorkerPcs] /\ wl \in [Workers -> Locals]
      /\ wpc[w] = "send" /\ mpc # "killed" /\ UNCHANGED mpc
      /\ UNCHANGED <<pending_submits, share_accepts, share_rejects,
                     share_discarded>>
  BY DEF TypeOK, WorkerTypes, KilledInv, SendShare
<1>1. CASE wpc'[w] = "record"
  <2>1. /\ wl'[w].req = submit_id
        /\ wire' = Put(wire, submit_id,
                       [be |-> wl[w].be, sess |-> sess, of |-> submit_id])
    BY <1>0, <1>1, RecordMoves
  <2>2. \A v \in Workers :
          v # w => wpc'[v] = wpc[v] /\ wl'[v] = wl[v]
    BY <1>0 DEF SendShare, SetWorker
  <2>3. Recording' = Recording \cup {submit_id}
    BY <1>0, <1>1, <2>1, <2>2 DEF Recording
  <2>4. Pending' = Pending \cup {submit_id}
    BY <1>0, <2>3, OutIs, OutWillBe
  <2> QED BY <1>0, <2>1, <2>4, OutSends
<1>2. CASE wpc'[w] # "record"
  <2>1. UNCHANGED wire
    BY <1>0, <1>2 DEF SendShare, SetWorker
  <2>2. ~SigpipeKills /\ \A v \in Workers : ~RecordPending(v)
    BY <1>0 DEF SigpipeKills, RecordPending, SendShare, TypeOK, ShareTypes
  <2>3. \A v \in Workers : SendShare(v) => wpc'[v] # "record"
    BY <1>0, <1>2 DEF SendShare, SetWorker
  <2>4. Pending' = Pending
    BY <1>0, <2>2, <2>3, PendingStays
  <2> QED BY <1>0, <2>1, <2>4, OutStays DEF Lifecycle!lifecycleVars
<1> QED BY <1>1, <1>2

\* A share is recorded.
LEMMA RecordMaps ==
  ASSUME LifecycleInv, [Next]_vars, NEW w \in Workers, RecordPending(w)
  PROVE  UNCHANGED Lifecycle!lifecycleVars
<1> USE DEF LifecycleInv
<1>0. /\ wpc \in [Workers -> WorkerPcs] /\ wl \in [Workers -> Locals]
      /\ wpc[w] = "record" /\ mpc # "killed" /\ UNCHANGED mpc
      /\ UNCHANGED <<wire, share_accepts, share_rejects, share_discarded>>
  BY DEF TypeOK, WorkerTypes, KilledInv, RecordPending, histVars
<1>1. DOMAIN pending_submits' = DOMAIN pending_submits \cup {wl[w].req}
  BY DEF RecordPending, Put
<1>2. \A v \in Workers : v # w => wpc'[v] = wpc[v] /\ wl'[v] = wl[v]
  BY <1>0 DEF RecordPending, SetWorker
<1>3. wpc'[w] # "record"
  BY <1>0 DEF RecordPending, SetWorker
<1>4. Recording = Recording' \cup {wl[w].req}
  BY <1>0, <1>2, <1>3 DEF Recording
<1>5. Pending' = Pending
  BY <1>0, <1>1, <1>4, OutIs, OutWillBe
<1> QED BY <1>0, <1>5, OutStays DEF Lifecycle!lifecycleVars

\* The pool accepts a share.
LEMMA AcceptMaps ==
  ASSUME LifecycleInv, ShareAccepted
  PROVE  Lifecycle!Accept
<1> USE DEF LifecycleInv
<1>1. HavePending
  BY AnswersFind DEF AnswersInv, ShareAccepted, ResponseFindsPending
<1>2. Recording = {} /\ Recording' = {}
  BY NoneRecords DEF AnswersInv, ShareAccepted, workVars, Recording
<1>3. /\ DOMAIN pending_submits' = DOMAIN pending_submits \ {msg.id}
      /\ mpc # "killed" /\ mpc' # "killed"
      /\ share_accepts' = share_accepts + 1
      /\ UNCHANGED <<wire, share_rejects, share_discarded>>
  BY DEF ShareAccepted, Without, NextLine, histVars
<1>4. Pending' = Pending \ {msg.id} /\ msg.id \in Pending
  BY <1>1, <1>2, <1>3, OutIs, OutWillBe DEF HavePending
<1> QED BY <1>3, <1>4, OutSettles DEF Lifecycle!Accept

\* The pool rejects a share that is not retried.
LEMMA RejectMaps ==
  ASSUME LifecycleInv, ShareRejected
  PROVE  Lifecycle!Refuse
<1> USE DEF LifecycleInv
<1>1. HavePending
  BY AnswersFind DEF AnswersInv, ShareRejected, ResponseFindsPending
<1>2. Recording = {} /\ Recording' = {}
  BY NoneRecords DEF AnswersInv, ShareRejected, workVars, Recording
<1>3. /\ DOMAIN pending_submits' = DOMAIN pending_submits \ {msg.id}
      /\ mpc # "killed" /\ mpc' # "killed"
      /\ UNCHANGED <<wire, share_accepts>>
  BY DEF ShareRejected, Without, NextLine, histVars
<1>4. Pending' = Pending \ {msg.id} /\ msg.id \in Pending
  BY <1>1, <1>2, <1>3, OutIs, OutWillBe DEF HavePending
<1>5. Lifecycle!CountsRefusal
  BY DEF ShareRejected, CountRejection, Lifecycle!CountsRefusal
<1> QED BY <1>3, <1>4, <1>5, OutSettles DEF Lifecycle!Refuse

\* The pool rejects a share that is retried, if it can be sent.
LEMMA RetryMaps ==
  ASSUME LifecycleInv, ShareRetried
  PROVE  Lifecycle!Refuse \/ Lifecycle!Retry
<1> USE DEF LifecycleInv
<1>1. /\ HavePending /\ share_accepts = 0
      /\ pending_submits[msg.id].attempt = 1
  BY DEF ShareRetried, RetryDue
<1>2. Recording = {} /\ Recording' = {}
  BY NoneRecords DEF AnswersInv, ShareRetried, workVars, Recording
<1>3. /\ mpc # "killed" /\ mpc' # "killed" /\ UNCHANGED share_accepts
  BY DEF ShareRetried, NextLine
<1>4. Lifecycle!CountsRefusal
  BY DEF ShareRetried, CountRejection, Lifecycle!CountsRefusal
<1>5. msg.id \in Pending /\ Sole(msg.id)
  BY <1>1, <1>2, <1>3, OutIs DEF HavePending, RetryInv, AttemptInv
<1>6. CASE /\ pending_submits' = Without(pending_submits, msg.id)
           /\ UNCHANGED wire
  <2>1. Pending' = Pending \ {msg.id}
    BY <1>2, <1>3, <1>6, OutIs, OutWillBe DEF Without
  <2> QED BY <1>3, <1>4, <1>5, <1>6, <2>1, OutSettles DEF Lifecycle!Refuse
<1>7. CASE LET share == pending_submits[msg.id]
           IN  /\ wire' = Put(wire, submit_id, [be |-> ~share.be,
                                                sess |-> sess,
                                                of |-> msg.id])
               /\ pending_submits' = Put(Without(pending_submits, msg.id),
                                         submit_id, Retry(share))
  <2>1. DOMAIN pending_submits'
          = (DOMAIN pending_submits \ {msg.id}) \cup {submit_id}
    BY <1>7 DEF Put, Without
  <2>2. Pending' = (Pending \ {msg.id}) \cup {submit_id}
    BY <1>2, <1>3, <2>1, OutIs, OutWillBe
  <2>3. \E s \in DOMAIN out :
          /\ used' = used /\ out[s] = 1 /\ out' = [out EXCEPT ![s] = 2]
    BY <1>5, <1>7, <2>2, OutRetries
  <2> QED BY <1>1, <1>3, <1>4, <2>3 DEF Lifecycle!Retry
<1> QED BY <1>6, <1>7 DEF ShareRetried

\* The records are cleared with the connection.
LEMMA ClearMaps ==
  ASSUME LifecycleInv, ClearPending
  PROVE  Lifecycle!Forget
<1> USE DEF LifecycleInv
<1>1. Recording' = {}
  BY NoneRecords DEF AnswersInv, ClearPending, workVars, Recording
<1>2. /\ DOMAIN pending_submits' = {} /\ mpc' # "killed"
      /\ UNCHANGED <<wire, share_accepts, share_rejects, share_discarded>>
  BY DEF ClearPending, Empty, histVars
<1>3. Pending' = {}
  BY <1>1, <1>2, OutWillBe
<1> QED BY <1>2, <1>3, OutForgets DEF Lifecycle!Forget

\* A share is dropped before it is sent.
LEMMA DropMaps ==
  ASSUME LifecycleInv, [Next]_vars, NEW w \in Workers, DropShare(w)
  PROVE  Lifecycle!Discard
<1> USE DEF LifecycleInv
<1>0. /\ wpc \in [Workers -> WorkerPcs] /\ wl \in [Workers -> Locals]
      /\ wpc[w] = "lock" /\ mpc # "killed" /\ UNCHANGED mpc
      /\ share_discarded' = share_discarded + 1
      /\ UNCHANGED <<wire, pending_submits, submit_id, share_accepts,
                     share_rejects>>
  BY DEF TypeOK, WorkerTypes, KilledInv, DropShare, histVars
<1>1. ~SigpipeKills
  BY <1>0 DEF SigpipeKills
<1>2. \A v \in Workers : ~SendShare(v) /\ ~RecordPending(v)
  BY <1>0 DEF SendShare, RecordPending, TypeOK, ShareTypes
<1>3. Pending' = Pending
  BY <1>0, <1>1, <1>2, PendingStays
<1> QED BY <1>0, <1>3, OutStays DEF Lifecycle!Discard

\* The process is killed.
LEMMA KillMaps ==
  ASSUME SigpipeKills
  PROVE  Lifecycle!Forget
<1>1. /\ mpc' = "killed"
      /\ UNCHANGED <<wire, share_accepts, share_rejects, share_discarded>>
  BY DEF SigpipeKills, shareVars, histVars
<1>2. Pending' = {}
  BY <1>1, OutWillBe
<1> QED BY <1>1, <1>2, OutForgets DEF Lifecycle!Forget

\* Everything else is no step of a share's life.
LEMMA LifecycleStep ==
  ASSUME LifecycleInv, [Next]_vars
  PROVE  [Lifecycle!Next]_(Lifecycle!lifecycleVars)
<1> USE DEF LifecycleInv
<1>1. CASE SigpipeKills
  BY <1>1, KillMaps DEF Lifecycle!Next
<1>2. CASE ShareAccepted \/ ShareRejected \/ ShareRetried \/ ClearPending
  BY <1>2, AcceptMaps, RejectMaps, RetryMaps, ClearMaps DEF Lifecycle!Next
<1>3. ASSUME NEW w \in Workers,
             DropShare(w) \/ SendShare(w) \/ RecordPending(w)
      PROVE  [Lifecycle!Next]_(Lifecycle!lifecycleVars)
  BY <1>3, DropMaps, SendMaps, RecordMaps DEF Lifecycle!Next
<1>4. CASE /\ ~SigpipeKills /\ UNCHANGED shareVars
           /\ \A w \in Workers : ~SendShare(w) /\ ~RecordPending(w)
  <2>1. UNCHANGED <<submit_id, pending_submits, share_accepts,
                    share_rejects, share_discarded>>
    BY <1>4 DEF shareVars
  <2>2. UNCHANGED wire
    <3>1. submit_id \in Nat /\ submit_id' = submit_id
      BY <2>1 DEF TypeOK, ShareTypes
    <3>2. ~ShareRetried
      BY <3>1 DEF ShareRetried
    <3> QED BY <1>4, <3>2, WireMoves
  <2>3. Pending' = Pending
    BY <1>4, <2>1, PendingStays
  <2> QED BY <2>1, <2>2, <2>3, OutStays DEF Lifecycle!lifecycleVars
<1> QED BY <1>1, <1>2, <1>3, <1>4, ShareFrame

\* A share lives as ShareLifecycle says, whatever the order in which workers
\* send, the pool answers and the connection is replaced: it is pending from
\* the send, under socket_mutex, to the one answer that settles it or to the
\* clear that goes with its connection.
THEOREM SharesRefine == Spec => SharesFollowLifecycle
<1>1. Init => Lifecycle!Init /\ LifecycleInv
  BY LifecycleInit, TypeInit, AnswersHold, ModeInit, RetryInit
     DEF LifecycleInv, ModeInv, KilledInv, Init
<1>2. LifecycleInv /\ [Next]_vars => LifecycleInv'
  BY TypeStep, AnswersStep, WireStep, RetryStep, KilledStep DEF LifecycleInv
<1>3. LifecycleInv /\ [Next]_vars => [Lifecycle!Next]_(Lifecycle!lifecycleVars)
  BY LifecycleStep
<1> QED
  BY <1>1, <1>2, <1>3, PTL DEF Spec, SharesFollowLifecycle, Lifecycle!Spec
=============================================================================
