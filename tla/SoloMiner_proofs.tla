-------------------------- MODULE SoloMiner_proofs --------------------------
(***************************************************************************)
(* Solo mode: type correctness, and what the generation of the template    *)
(* guarantees of the blocks that are sent, for every number of devices.    *)
(***************************************************************************)
EXTENDS SoloMiner, FiniteSetTheorems, TLAPS

-----------------------------------------------------------------------------
(* Operators.                                                              *)

\* An identity is a pair of numbers.
LEMMA IdentityType ==
  ASSUME NEW tpl \in Templates
  PROVE  Identity(tpl) \in Nat \X Nat
  BY DEF Identity, Templates

\* The locals of a worker that waits are typed.
LEMMA IdleType ==
  ASSUME NEW l \in Locals
  PROVE  Idle(l) \in Locals
  BY SoloAssumption
     DEF Locals, Idle, IdleLocals, NoTemplate, Templates

\* The locals that a failing worker leaves are typed.
LEMMA IdleLocalsType == IdleLocals \in Locals
  BY SoloAssumption DEF Locals, IdleLocals, NoTemplate, Templates

\* The place in the partition stays in it.
LEMMA AdvanceType ==
  ASSUME NEW scanned \in 0..Chunks-1
  PROVE  Advance(scanned) \in 0..Chunks-1
  BY SoloAssumption DEF Advance

\* What SetWorker changes keeps its type.
LEMMA SetWorkerType ==
  ASSUME wpc \in [Workers -> WorkerPcs], wl \in [Workers -> Locals],
         NEW w \in Workers, NEW pc \in WorkerPcs, NEW l \in Locals,
         SetWorker(w, pc, l)
  PROVE  wpc' \in [Workers -> WorkerPcs] /\ wl' \in [Workers -> Locals]
  BY DEF SetWorker

-----------------------------------------------------------------------------
(* Type correctness.                                                       *)

\* The start (lines 1313-1344) is typed.
LEMMA TypeInit == Init => TypeOK
<1> SUFFICES ASSUME Init PROVE TypeOK
  OBVIOUS
<1>1. SharedTypes
  <2>1. node \in Templates
    BY DEF Init, Templates
  <2>2. shared_state \in States
    BY <2>1 DEF Init, States
  <2> QED BY <2>2 DEF Init, SharedTypes
<1>2. ThreadTypes
  <2>1. NoTemplate \in Templates
    BY DEF NoTemplate, Templates
  <2>2. wpc \in [Workers -> WorkerPcs] /\ wl \in [Workers -> Locals]
    BY IdleLocalsType DEF Init, WorkerPcs
  <2>3. longpoll_supported \in BOOLEAN
    BY SoloAssumption DEF Init
  <2> QED BY <2>1, <2>2, <2>3 DEF Init, ThreadTypes, UpdaterPcs
<1>3. WorldTypes
  BY DEF Init, WorldTypes, Templates
<1> QED BY <1>1, <1>2, <1>3 DEF TypeOK

\* The steps of the updater.
LEMMA UpdaterTypes ==
  TypeOK /\ (UpdaterStep \/ NodeStep) => TypeOK'
<1> SUFFICES ASSUME TypeOK, UpdaterStep \/ NodeStep PROVE TypeOK'
  OBVIOUS
<1> USE DEF TypeOK, SharedTypes, ThreadTypes, WorldTypes, UpdaterRest,
            UpdaterPcs, flagVars, countVars, updaterVars, workVars, histVars
<1>1. CASE OthersFindBlock
  BY <1>1 DEF OthersFindBlock, NodeMoves, Templates
<1>2. CASE MempoolChanges
  <2>1. PICK more \in {0, 1} :
          NodeMoves([node EXCEPT !.txs = @ + 1, !.value = @ + more])
    BY <1>2 DEF MempoolChanges
  <2>2. [node EXCEPT !.txs = @ + 1, !.value = @ + more] \in Templates
    <3> DEFINE n == node.txs + 1
               v == node.value + more
    <3>1. node \in Templates /\ n \in Nat /\ v \in Nat
      BY DEF Templates
    <3> HIDE DEF n, v
    <3>2. [node EXCEPT !.txs = n, !.value = v] \in Templates
      BY <3>1 DEF Templates
    <3> QED BY <3>2 DEF n, v
  <2> QED BY <2>1, <2>2 DEF NodeMoves
<1>3. CASE InstallTemplate
  <2>1. Installed \in States
    BY DEF Installed, States
  <2>2. NoTemplate \in Templates
    BY DEF NoTemplate, Templates
  <2> QED BY <1>3, <2>1, <2>2, SoloAssumption DEF InstallTemplate
<1>4. CASE NodeAnswersLongpoll \/ NodeAnswersFetch
  BY <1>4 DEF NodeAnswersLongpoll, NodeAnswersFetch
<1>5. CASE LongpollFails \/ FetchFails \/ ChooseSource
           \/ PrintLongpollFailure \/ PrintFetchFailure \/ PrintTemplate
  BY <1>5 DEF LongpollFails, FetchFails, ChooseSource,
              PrintLongpollFailure, PrintFetchFailure, PrintTemplate
<1>6. CASE PollNow \/ PollLater \/ PollElapses
  BY <1>6 DEF PollNow, PollLater, PollElapses
<1> QED
  BY <1>1, <1>2, <1>3, <1>4, <1>5, <1>6 DEF UpdaterStep, NodeStep

\* The steps of a worker up to the end of its scan.
LEMMA ScanTypes ==
  ASSUME TypeOK, NEW w \in Workers,
         \/ CreateEngine(w) \/ PrintDevice(w) \/ SeesStop(w)
         \/ TakeTemplate(w) \/ ScanFindsNothing(w) \/ ScanFinds(w)
         \/ ScanFails(w) \/ PrintFailure(w)
  PROVE  TypeOK'
<1> USE DEF TypeOK, SharedTypes, ThreadTypes, WorldTypes, WorkerRest,
            flagVars, countVars, updaterVars, workVars, histVars
<1>1. CASE CreateEngine(w)
  BY <1>1 DEF CreateEngine, WorkerPcs
<1>2. CASE PrintDevice(w) \/ SeesStop(w) \/ PrintFailure(w)
  BY <1>2 DEF PrintDevice, SeesStop, PrintFailure, WorkerPcs
<1>3. CASE TakeTemplate(w)
  <2>1. wl[w] \in Locals /\ shared_state \in States
    OBVIOUS
  <2>2. Identity(shared_state.tpl) \in Nat \X Nat
    BY <2>1, IdentityType DEF States
  <2>3. Place(w) \in 0..Chunks-1
    BY <2>1, SoloAssumption DEF Place, Locals
  <2> DEFINE i == Identity(shared_state.tpl)
             p == Place(w)
             l == [wl[w] EXCEPT !.tpl = shared_state.tpl,
                                !.gen = shared_state.gen, !.id = i,
                                !.scanned = p,
                                !.work = IF p = 0 THEN shared_state.tpl
                                                  ELSE @]
  <2>4. SetWorker(w, "scan", l) \/ SetWorker(w, "failed", IdleLocals)
    BY <1>3 DEF TakeTemplate
  <2> HIDE DEF i, p
  <2>5. l \in Locals
    BY <2>1, <2>2, <2>3 DEF Locals, States, i, p
  <2> HIDE DEF l
  <2>6. wpc' \in [Workers -> WorkerPcs] /\ wl' \in [Workers -> Locals]
    BY <2>4, <2>5, SetWorkerType, IdleLocalsType DEF WorkerPcs
  <2> QED BY <1>3, <2>6 DEF TakeTemplate
<1>4. CASE ScanFindsNothing(w)
  <2>1. [wl[w] EXCEPT !.scanned = Advance(@)] \in Locals
    BY AdvanceType DEF Locals
  <2>2. wpc' \in [Workers -> WorkerPcs] /\ wl' \in [Workers -> Locals]
    BY <1>4, <2>1, SetWorkerType, IdleType DEF ScanFindsNothing, WorkerPcs
  <2> QED BY <1>4, <2>2 DEF ScanFindsNothing
<1>5. CASE ScanFinds(w)
  <2>1. PICK ok \in BOOLEAN :
          SetWorker(w, "check",
                    [wl[w] EXCEPT !.scanned = Advance(@), !.ok = ok])
    BY <1>5 DEF ScanFinds
  <2>2. [wl[w] EXCEPT !.scanned = Advance(@), !.ok = ok] \in Locals
    <3>1. wl[w] \in Locals /\ wl[w].scanned \in 0..Chunks-1
      BY DEF Locals
    <3>2. Advance(wl[w].scanned) \in 0..Chunks-1
      BY <3>1, AdvanceType
    <3> DEFINE a == Advance(wl[w].scanned)
    <3> HIDE DEF a
    <3>3. [wl[w] EXCEPT !.scanned = a, !.ok = ok] \in Locals
      BY <3>1, <3>2 DEF Locals, a
    <3> QED BY <3>3 DEF a
  <2>3. wpc' \in [Workers -> WorkerPcs] /\ wl' \in [Workers -> Locals]
    BY <2>1, <2>2, SetWorkerType DEF WorkerPcs
  <2>4. found_at' \in [Workers -> Nat]
    BY <1>5 DEF ScanFinds, States
  <2> QED BY <1>5, <2>3, <2>4 DEF ScanFinds
<1>6. CASE ScanFails(w)
  <2>1. wpc' \in [Workers -> WorkerPcs] /\ wl' \in [Workers -> Locals]
    BY <1>6, SetWorkerType, IdleLocalsType DEF ScanFails, WorkerPcs
  <2> QED BY <1>6, <2>1 DEF ScanFails
<1> QED BY <1>1, <1>2, <1>3, <1>4, <1>5, <1>6

\* The steps of a worker that has found a block, and the node's decision.
LEMMA BlockTypes ==
  ASSUME TypeOK, NEW w \in Workers,
         \/ CheckStale(w) \/ DropBlock(w) \/ ReportError(w)
         \/ ReportAccepted(w) \/ InvalidateWork(w) \/ ReportRejected(w)
         \/ NodeDecides(w)
  PROVE  TypeOK'
<1> USE DEF TypeOK, SharedTypes, ThreadTypes, WorldTypes, WorkerRest,
            flagVars, countVars, updaterVars, workVars, histVars
<1>0. Idle(wl[w]) \in Locals
  BY IdleType
<1>1. CASE CheckStale(w)
  BY <1>1 DEF CheckStale, WorkerPcs
<1>2. CASE DropBlock(w)
  <2>1. wpc' \in [Workers -> WorkerPcs] /\ wl' \in [Workers -> Locals]
    BY <1>0, <1>2, SetWorkerType DEF DropBlock, WorkerPcs
  <2> QED BY <1>2, <2>1 DEF DropBlock
<1>3. CASE ReportError(w)
  <2>1. wpc' \in [Workers -> WorkerPcs] /\ wl' \in [Workers -> Locals]
    BY <1>0, <1>3, SetWorkerType DEF ReportError, WorkerPcs
  <2> QED BY <1>3, <2>1 DEF ReportError
<1>4. CASE ReportAccepted(w)
  BY <1>4 DEF ReportAccepted, WorkerPcs
<1>5. CASE InvalidateWork(w)
  <2>1. wpc' \in [Workers -> WorkerPcs] /\ wl' \in [Workers -> Locals]
    BY <1>0, <1>5, SetWorkerType DEF InvalidateWork, WorkerPcs
  <2>2. shared_state' \in States
    <3> DEFINE g == shared_state.gen + 1
    <3>1. shared_state \in States /\ g \in Nat
      BY DEF States
    <3>2. shared_state' = [shared_state EXCEPT !.valid = FALSE, !.gen = g]
      BY <1>5 DEF InvalidateWork
    <3> HIDE DEF g
    <3> QED BY <3>1, <3>2 DEF States
  <2> QED BY <1>5, <2>1, <2>2 DEF InvalidateWork
<1>6. CASE ReportRejected(w)
  BY <1>6 DEF ReportRejected, WorkerPcs
<1>7. CASE NodeTakesBlock(w)
  <2>1. wl' \in [Workers -> Locals]
    BY <1>7 DEF NodeTakesBlock, Locals
  <2>2. node' \in Templates
    BY <1>7 DEF NodeTakesBlock, Templates
  <2> QED BY <1>7, <2>1, <2>2 DEF NodeTakesBlock, WorkerPcs
<1>8. CASE NodeRefusesBlock(w)
  <2>1. wl' \in [Workers -> Locals]
    BY <1>8 DEF NodeRefusesBlock, Locals
  <2> QED BY <1>8, <2>1 DEF NodeRefusesBlock, WorkerPcs
<1> QED
  BY <1>1, <1>2, <1>3, <1>4, <1>5, <1>6, <1>7, <1>8 DEF NodeDecides

\* The steps of the main thread.
LEMMA MainTypes ==
  TypeOK /\ (CheckEngines \/ JoinWorkers \/ RelockThrows) => TypeOK'
  BY DEF CheckEngines, JoinWorkers, RelockThrows, TypeOK, SharedTypes,
         ThreadTypes, WorldTypes, UpdaterPcs, WorkerPcs, flagVars,
         countVars, updaterVars, workVars, histVars

\* Every step of Next keeps the types.
LEMMA TypeStep == TypeOK /\ [Next]_vars => TypeOK'
<1> SUFFICES ASSUME TypeOK, [Next]_vars PROVE TypeOK'
  OBVIOUS
<1>1. CASE UNCHANGED vars
  BY <1>1 DEF vars, TypeOK, SharedTypes, ThreadTypes, WorldTypes
<1>2. CASE CheckEngines \/ JoinWorkers \/ RelockThrows
  BY <1>2, MainTypes
<1>3. CASE UpdaterStep \/ NodeStep
  BY <1>3, UpdaterTypes
<1>4. ASSUME NEW w \in Workers, WorkerStep(w) \/ NodeDecides(w)
      PROVE  TypeOK'
  BY <1>4, ScanTypes, BlockTypes DEF WorkerStep
<1> QED
  BY <1>1, <1>2, <1>3, <1>4 DEF Next, Report, Stops

\* Every variable of solo mode keeps its type.
THEOREM SoloTypeCorrect == Spec => []TypeOK
  BY TypeInit, TypeStep, PTL DEF Spec

-----------------------------------------------------------------------------
(* One generation, one template.                                           *)

\* The strengthening: no worker is ahead of the shared generation, and one
\* that is level with it has the template in place.
GenInv ==
  \A w \in Workers : wpc[w] \in Using =>
    /\ wl[w].gen =< shared_state.gen
    /\ wl[w].gen = shared_state.gen
         => shared_state.valid /\ wl[w].tpl = shared_state.tpl

\* No worker uses a template yet.
LEMMA GenInit == Init => GenInv
  BY DEF Init, GenInv, Using

\* What a worker that comes to use a template does with its locals.
LEMMA UsingKept ==
  ASSUME TypeOK, [Next]_vars, NEW w \in Workers, wpc'[w] \in Using
  PROVE  \/ /\ wpc[w] \in Using
            /\ wl'[w].gen = wl[w].gen /\ wl'[w].tpl = wl[w].tpl
         \/ /\ wl'[w].gen = shared_state.gen
            /\ wl'[w].tpl = shared_state.tpl
            /\ shared_state.valid /\ UNCHANGED shared_state
<1> DEFINE Kept == /\ wpc[w] \in Using
                   /\ wl'[w].gen = wl[w].gen /\ wl'[w].tpl = wl[w].tpl
<1> USE DEF TypeOK, ThreadTypes, Using
<1>1. CASE UNCHANGED workVars
  BY <1>1 DEF workVars
<1>2. CASE UpdaterStep \/ NodeStep
  BY <1>2
     DEF UpdaterStep, NodeStep, OthersFindBlock, MempoolChanges, NodeMoves,
         NodeAnswersLongpoll, LongpollFails, NodeAnswersFetch, FetchFails,
         ChooseSource, PrintLongpollFailure, PollNow, PollLater,
         PollElapses, PrintFetchFailure, InstallTemplate, PrintTemplate,
         UpdaterRest, workVars
<1>3. CASE CheckEngines \/ JoinWorkers
  BY <1>3 DEF CheckEngines, JoinWorkers, workVars
<1>4. CASE RelockThrows
  BY <1>4 DEF RelockThrows
<1>5. ASSUME NEW v \in Workers, TakeTemplate(v)
      PROVE  \/ Kept
             \/ /\ wl'[w].gen = shared_state.gen
                /\ wl'[w].tpl = shared_state.tpl
                /\ shared_state.valid /\ UNCHANGED shared_state
  <2>1. CASE v = w
    <3> DEFINE t == shared_state.tpl
               g == shared_state.gen
               i == Identity(t)
               p == Place(w)
               k == IF p = 0 THEN t ELSE wl[w].work
               l == [wl[w] EXCEPT !.tpl = t, !.gen = g, !.id = i,
                                  !.scanned = p, !.work = k]
    <3>1. \/ wpc' = [wpc EXCEPT ![w] = "scan"] /\ wl' = [wl EXCEPT ![w] = l]
          \/ wpc' = [wpc EXCEPT ![w] = "failed"]
      BY <1>5, <2>1 DEF TakeTemplate, SetWorker
    <3>2. shared_state.valid /\ UNCHANGED shared_state
      BY <1>5 DEF TakeTemplate
    <3> HIDE DEF t, g, i, p, k
    <3>3. wl[w] \in Locals
      OBVIOUS
    <3>4. l.tpl = t /\ l.gen = g
      BY <3>3 DEF Locals
    <3> HIDE DEF l
    <3>5. wl'[w] = l
      BY <3>1
    <3> QED BY <3>2, <3>4, <3>5 DEF t, g
  <2>2. CASE v # w
    BY <1>5, <2>2 DEF TakeTemplate, SetWorker
  <2> QED BY <2>1, <2>2
<1>6. ASSUME NEW v \in Workers, ScanFinds(v)
      PROVE  Kept
  <2>1. CASE v = w
    BY <1>6, <2>1 DEF ScanFinds, SetWorker, Locals
  <2>2. CASE v # w
    BY <1>6, <2>2 DEF ScanFinds, SetWorker
  <2> QED BY <2>1, <2>2
<1>7. ASSUME NEW v \in Workers,
             \/ CreateEngine(v) \/ PrintDevice(v) \/ SeesStop(v)
             \/ PrintFailure(v) \/ CheckStale(v)
             \/ ReportAccepted(v) \/ ReportRejected(v)
      PROVE  Kept
  BY <1>7 DEF CreateEngine, PrintDevice, SeesStop, PrintFailure, CheckStale,
              ReportAccepted, ReportRejected
<1>8. ASSUME NEW v \in Workers,
             \/ ScanFindsNothing(v) \/ ScanFails(v) \/ DropBlock(v)
             \/ ReportError(v) \/ InvalidateWork(v)
      PROVE  Kept
  BY <1>8 DEF ScanFindsNothing, ScanFails, DropBlock, ReportError,
              InvalidateWork, SetWorker
<1>9. ASSUME NEW v \in Workers, NodeDecides(v)
      PROVE  Kept
  BY <1>9 DEF NodeDecides, NodeTakesBlock, NodeRefusesBlock
<1> QED
  BY <1>1, <1>2, <1>3, <1>4, <1>5, <1>6, <1>7, <1>8, <1>9
     DEF Next, WorkerStep, vars, workVars, Report, Stops

\* What becomes of the shared template.
LEMMA SharedKept ==
  ASSUME TypeOK, [Next]_vars
  PROVE  /\ shared_state.gen \in Nat /\ shared_state'.gen \in Nat
         /\ \/ UNCHANGED shared_state
            \/ shared_state'.gen = shared_state.gen + 1
<1> USE DEF TypeOK, SharedTypes
<1>1. shared_state.gen \in Nat /\ shared_state'.gen \in Nat
  BY TypeStep DEF States
<1>2. CASE InstallTemplate
  <2>1. shared_state' = Installed \/ UNCHANGED shared_state
    BY <1>2 DEF InstallTemplate
  <2>2. Installed.gen = shared_state.gen + 1
    BY DEF Installed
  <2> QED BY <1>1, <2>1, <2>2
<1>3. ASSUME NEW w \in Workers, InvalidateWork(w)
      PROVE  shared_state'.gen = shared_state.gen + 1
  BY <1>3 DEF InvalidateWork, States
<1>4. CASE UNCHANGED shared_state
  BY <1>1, <1>4
<1>5. CASE /\ UpdaterStep \/ NodeStep
           /\ ~InstallTemplate
  BY <1>5, <1>4
     DEF UpdaterStep, NodeStep, OthersFindBlock, MempoolChanges, NodeMoves,
         NodeAnswersLongpoll, LongpollFails, NodeAnswersFetch, FetchFails,
         ChooseSource, PrintLongpollFailure, PollNow, PollLater,
         PollElapses, PrintFetchFailure, PrintTemplate
<1>6. CASE CheckEngines \/ JoinWorkers \/ RelockThrows
  BY <1>6, <1>4 DEF CheckEngines, JoinWorkers, RelockThrows
<1>7. ASSUME NEW w \in Workers, WorkerStep(w) \/ NodeDecides(w),
             ~InvalidateWork(w)
      PROVE  UNCHANGED shared_state
  BY <1>7
     DEF WorkerStep, NodeDecides, CreateEngine, PrintDevice, SeesStop,
         TakeTemplate, ScanFindsNothing, ScanFinds, ScanFails, PrintFailure,
         CheckStale, DropBlock, ReportError, ReportAccepted,
         ReportRejected, NodeTakesBlock, NodeRefusesBlock
<1> QED
  BY <1>1, <1>2, <1>3, <1>4, <1>5, <1>6, <1>7
     DEF Next, vars, Report, Stops

\* Every step keeps GenInv: generations grow whenever the template changes.
LEMMA GenStep == TypeOK /\ GenInv /\ [Next]_vars => GenInv'
<1> SUFFICES ASSUME TypeOK, GenInv, [Next]_vars,
                    NEW w \in Workers, wpc'[w] \in Using
             PROVE  /\ wl'[w].gen =< shared_state'.gen
                    /\ wl'[w].gen = shared_state'.gen
                         => /\ shared_state'.valid
                            /\ wl'[w].tpl = shared_state'.tpl
  BY DEF GenInv, Using
<1>1. /\ shared_state.gen \in Nat
      /\ \/ UNCHANGED shared_state
         \/ shared_state'.gen = shared_state.gen + 1
  BY SharedKept
<1>2. wpc[w] \in Using => wl[w].gen \in Nat
  BY DEF TypeOK, ThreadTypes, Locals
<1>3. CASE /\ wpc[w] \in Using
           /\ wl'[w].gen = wl[w].gen /\ wl'[w].tpl = wl[w].tpl
  BY <1>1, <1>2, <1>3 DEF GenInv
<1>4. CASE /\ wl'[w].gen = shared_state.gen
           /\ wl'[w].tpl = shared_state.tpl
           /\ shared_state.valid /\ UNCHANGED shared_state
  BY <1>1, <1>4
<1> QED BY <1>3, <1>4, UsingKept

\* The stale check may compare generations: a generation never stands for
\* two templates.
THEOREM GenerationsTell == Spec => []GenerationTells
<1>1. GenInv => GenerationTells
  BY DEF GenInv, GenerationTells
<1> QED
  BY <1>1, TypeInit, TypeStep, GenInit, GenStep, PTL DEF Spec

-----------------------------------------------------------------------------
(* A block that is sent was current when it was found.                     *)

\* The strengthening: what was current then is not later than what is now.
FoundInv ==
  /\ \A w \in Workers : found_at[w] =< shared_state.gen
  /\ SubmitsFoundFresh

\* Nothing is found yet.
LEMMA FoundInit == Init => FoundInv
  BY DEF Init, FoundInv, SubmitsFoundFresh

\* found_at is the generation at a scan, or as it was.
LEMMA FoundKept ==
  ASSUME TypeOK, [Next]_vars, NEW w \in Workers
  PROVE  \/ found_at'[w] = found_at[w]
         \/ /\ found_at'[w] = shared_state.gen
            /\ UNCHANGED shared_state /\ wpc'[w] = "check"
<1> USE DEF TypeOK, ThreadTypes, WorldTypes
<1>1. CASE UNCHANGED found_at
  BY <1>1
<1>2. CASE UpdaterStep \/ NodeStep
  BY <1>2
     DEF UpdaterStep, NodeStep, OthersFindBlock, MempoolChanges, NodeMoves,
         NodeAnswersLongpoll, LongpollFails, NodeAnswersFetch, FetchFails,
         ChooseSource, PrintLongpollFailure, PollNow, PollLater,
         PollElapses, PrintFetchFailure, InstallTemplate, PrintTemplate,
         UpdaterRest, histVars
<1>3. CASE CheckEngines \/ JoinWorkers \/ RelockThrows
  BY <1>3 DEF CheckEngines, JoinWorkers, RelockThrows, histVars
<1>4. ASSUME NEW v \in Workers, ScanFinds(v)
      PROVE  \/ found_at'[w] = found_at[w]
             \/ /\ found_at'[w] = shared_state.gen
                /\ UNCHANGED shared_state /\ wpc'[w] = "check"
  BY <1>4 DEF ScanFinds, SetWorker
<1>5. ASSUME NEW v \in Workers, WorkerStep(v) \/ NodeDecides(v),
             ~ScanFinds(v)
      PROVE  UNCHANGED found_at
  BY <1>5
     DEF WorkerStep, NodeDecides, CreateEngine, PrintDevice, SeesStop,
         TakeTemplate, ScanFindsNothing, ScanFails, PrintFailure,
         CheckStale, DropBlock, ReportError, ReportAccepted,
         InvalidateWork, ReportRejected, NodeTakesBlock, NodeRefusesBlock,
         histVars
<1> QED
  BY <1>1, <1>2, <1>3, <1>4, <1>5 DEF Next, vars, Report, Stops

\* A worker comes to the submit only through the stale check.
LEMMA SubmitKept ==
  ASSUME TypeOK, [Next]_vars, NEW w \in Workers, wpc'[w] = "submit"
  PROVE  /\ wl'[w] = wl[w]
         /\ \/ wpc[w] = "submit"
            \/ wpc[w] = "check" /\ ~StaleWork(w)
<1> USE DEF TypeOK, ThreadTypes
<1>1. CASE UNCHANGED workVars
  BY <1>1 DEF workVars
<1>2. CASE UpdaterStep \/ NodeStep
  BY <1>2
     DEF UpdaterStep, NodeStep, OthersFindBlock, MempoolChanges, NodeMoves,
         NodeAnswersLongpoll, LongpollFails, NodeAnswersFetch, FetchFails,
         ChooseSource, PrintLongpollFailure, PollNow, PollLater,
         PollElapses, PrintFetchFailure, InstallTemplate, PrintTemplate,
         UpdaterRest, workVars
<1>3. CASE CheckEngines \/ JoinWorkers
  BY <1>3 DEF CheckEngines, JoinWorkers, workVars
<1>4. CASE RelockThrows
  BY <1>4 DEF RelockThrows
<1>5. ASSUME NEW v \in Workers, CheckStale(v)
      PROVE  /\ wl'[w] = wl[w]
             /\ \/ wpc[w] = "submit"
                \/ wpc[w] = "check" /\ ~StaleWork(w)
  BY <1>5 DEF CheckStale
<1>6. ASSUME NEW v \in Workers,
             \/ CreateEngine(v) \/ PrintDevice(v) \/ SeesStop(v)
             \/ PrintFailure(v) \/ ReportAccepted(v) \/ ReportRejected(v)
      PROVE  wl'[w] = wl[w] /\ wpc[w] = "submit"
  BY <1>6 DEF CreateEngine, PrintDevice, SeesStop, PrintFailure,
              ReportAccepted, ReportRejected
<1>7. ASSUME NEW v \in Workers,
             \/ TakeTemplate(v) \/ ScanFindsNothing(v) \/ ScanFinds(v)
             \/ ScanFails(v) \/ DropBlock(v) \/ ReportError(v)
             \/ InvalidateWork(v)
      PROVE  wl'[w] = wl[w] /\ wpc[w] = "submit"
  BY <1>7 DEF TakeTemplate, ScanFindsNothing, ScanFinds, ScanFails,
              DropBlock, ReportError, InvalidateWork, SetWorker
<1>8. ASSUME NEW v \in Workers, NodeDecides(v)
      PROVE  wl'[w] = wl[w] /\ wpc[w] = "submit"
  BY <1>8 DEF NodeDecides, NodeTakesBlock, NodeRefusesBlock
<1> QED
  BY <1>1, <1>2, <1>3, <1>4, <1>5, <1>6, <1>7, <1>8
     DEF Next, WorkerStep, vars, workVars, Report, Stops

\* Every step keeps FoundInv: what is found is found at a generation that is
\* no later than the one the stale check compares with.
LEMMA FoundStep == TypeOK /\ FoundInv /\ [Next]_vars => FoundInv'
<1> SUFFICES ASSUME TypeOK, FoundInv, [Next]_vars, NEW w \in Workers
             PROVE  /\ found_at'[w] =< shared_state'.gen
                    /\ wpc'[w] = "submit" => wl'[w].gen >= found_at'[w]
  BY DEF FoundInv, SubmitsFoundFresh
<1>1. /\ shared_state.gen \in Nat
      /\ \/ UNCHANGED shared_state
         \/ shared_state'.gen = shared_state.gen + 1
  BY SharedKept
<1>2. found_at[w] \in Nat /\ wl[w].gen \in Nat
  BY DEF TypeOK, ThreadTypes, WorldTypes, Locals
<1>3. found_at'[w] =< shared_state'.gen
  BY <1>1, <1>2, FoundKept DEF FoundInv
<1>4. ASSUME wpc'[w] = "submit" PROVE wl'[w].gen >= found_at'[w]
  <2>1. found_at'[w] = found_at[w]
    BY <1>4, FoundKept
  <2>2. CASE wpc[w] = "submit"
    BY <1>4, <2>1, <2>2, SubmitKept DEF FoundInv, SubmitsFoundFresh
  <2>3. CASE wpc[w] = "check" /\ ~StaleWork(w)
    <3>1. wl[w].gen = shared_state.gen
      BY <2>3 DEF StaleWork
    <3> QED BY <1>1, <1>2, <1>4, <2>1, <3>1, SubmitKept DEF FoundInv
  <2> QED BY <1>4, <2>2, <2>3, SubmitKept
<1> QED BY <1>3, <1>4

\* A block goes to the node only if its template was in place when the scan
\* reported it.
THEOREM SoloSentWhileFresh == Spec => []SubmitsFoundFresh
<1>1. FoundInv => SubmitsFoundFresh
  BY DEF FoundInv
<1> QED
  BY <1>1, TypeInit, TypeStep, FoundInit, FoundStep, PTL DEF Spec

-----------------------------------------------------------------------------
(* The header of a block and its transactions.                             *)

\* In mid-partition the header is of the identity the worker is at, and a
\* worker that uses a template is at that template's identity.
Fits(l) == l.scanned # 0 => Identity(l.work) = l.id

Meets(l) == l.id = Identity(l.tpl) /\ Identity(l.work) = l.id

FitInv ==
  \A w \in Workers : Fits(wl[w]) /\ (wpc[w] \in Using => Meets(wl[w]))

\* The locals of a new worker fit.
LEMMA FitInit == Init => FitInv
  BY DEF Init, FitInv, Fits, Using, IdleLocals

\* A worker that goes back to waiting keeps what fits.
LEMMA IdleFits ==
  ASSUME NEW l \in Locals, Fits(l)
  PROVE  Fits(Idle(l))
  BY DEF Fits, Idle, IdleLocals, Locals

\* Taking a template keeps the header only at the same identity.
LEMMA TakeFits ==
  ASSUME TypeOK, FitInv, NEW w \in Workers, TakeTemplate(w)
  PROVE  Fits(wl'[w]) /\ (wpc'[w] \in Using => Meets(wl'[w]))
<1> USE DEF TypeOK, ThreadTypes, SharedTypes
<1> DEFINE t == shared_state.tpl
           g == shared_state.gen
           i == Identity(t)
           p == Place(w)
           k == IF p = 0 THEN t ELSE wl[w].work
           l == [wl[w] EXCEPT !.tpl = t, !.gen = g, !.id = i,
                              !.scanned = p, !.work = k]
<1>1. \/ wl' = [wl EXCEPT ![w] = l]
      \/ /\ wpc' = [wpc EXCEPT ![w] = "failed"]
         /\ wl' = [wl EXCEPT ![w] = IdleLocals]
  BY DEF TakeTemplate, SetWorker
<1>2. Identity(k) = i
  <2>1. CASE p = 0
    BY <2>1
  <2>2. CASE p # 0
    <3>1. wl[w].id = i /\ wl[w].scanned # 0
      BY <2>2 DEF Place
    <3> QED BY <2>2, <3>1 DEF FitInv, Fits
  <2> QED BY <2>1, <2>2
<1> HIDE DEF t, g, i, p, k
<1>3. wl[w] \in Locals
  OBVIOUS
<1>4. l.tpl = t /\ l.id = i /\ l.work = k
  BY <1>3 DEF Locals
<1> HIDE DEF l
<1>5. CASE wl' = [wl EXCEPT ![w] = l]
  BY <1>2, <1>4, <1>5 DEF Fits, Meets, i
<1>6. CASE /\ wpc' = [wpc EXCEPT ![w] = "failed"]
           /\ wl' = [wl EXCEPT ![w] = IdleLocals]
  BY <1>6 DEF Fits, IdleLocals, Using
<1> QED BY <1>1, <1>5, <1>6

\* Every step keeps FitInv: only TakeTemplate changes the template or the
\* header of a worker.
LEMMA FitStep == TypeOK /\ FitInv /\ [Next]_vars => FitInv'
<1> SUFFICES ASSUME TypeOK, FitInv, [Next]_vars, NEW w \in Workers
             PROVE  Fits(wl'[w]) /\ (wpc'[w] \in Using => Meets(wl'[w]))
  BY DEF FitInv, Fits, Meets, Using
<1> DEFINE Goal == Fits(wl'[w]) /\ (wpc'[w] \in Using => Meets(wl'[w]))
<1> USE DEF TypeOK, ThreadTypes
<1>a. wl[w] \in Locals /\ Fits(wl[w]) /\ (wpc[w] \in Using => Meets(wl[w]))
  BY DEF FitInv
<1>1. CASE wl'[w] = wl[w] /\ (wpc'[w] \in Using => wpc[w] \in Using)
  BY <1>a, <1>1
<1>2. CASE UpdaterStep \/ NodeStep
  BY <1>1, <1>2
     DEF UpdaterStep, NodeStep, OthersFindBlock, MempoolChanges, NodeMoves,
         NodeAnswersLongpoll, LongpollFails, NodeAnswersFetch, FetchFails,
         ChooseSource, PrintLongpollFailure, PollNow, PollLater,
         PollElapses, PrintFetchFailure, InstallTemplate, PrintTemplate,
         UpdaterRest, workVars
<1>3. CASE CheckEngines \/ JoinWorkers \/ UNCHANGED vars
  BY <1>1, <1>3 DEF CheckEngines, JoinWorkers, workVars, vars
<1>4. CASE RelockThrows
  BY <1>1, <1>4 DEF RelockThrows, Using
<1>5. ASSUME NEW v \in Workers, TakeTemplate(v)
      PROVE  Goal
  <2>1. CASE v = w
    BY <1>5, <2>1, TakeFits
  <2>2. CASE v # w
    BY <1>1, <1>5, <2>2 DEF TakeTemplate, SetWorker
  <2> QED BY <2>1, <2>2
<1>6. ASSUME NEW v \in Workers, ScanFinds(v)
      PROVE  Goal
  <2>1. CASE v = w
    <3>1. PICK ok \in BOOLEAN :
            wl' = [wl EXCEPT ![w] = [wl[w] EXCEPT !.scanned = Advance(@),
                                                  !.ok = ok]]
      BY <1>6, <2>1 DEF ScanFinds, SetWorker
    <3>2. /\ wl'[w].id = wl[w].id /\ wl'[w].tpl = wl[w].tpl
          /\ wl'[w].work = wl[w].work
      BY <1>a, <3>1 DEF Locals
    <3>3. Meets(wl[w])
      BY <1>6, <2>1, <1>a DEF ScanFinds, Using
    <3> QED BY <3>2, <3>3 DEF Fits, Meets
  <2>2. CASE v # w
    BY <1>1, <1>6, <2>2 DEF ScanFinds, SetWorker
  <2> QED BY <2>1, <2>2
<1>7. ASSUME NEW v \in Workers, ScanFindsNothing(v)
      PROVE  Goal
  <2>1. CASE v = w
    <3> DEFINE l == [wl[w] EXCEPT !.scanned = Advance(@)]
    <3>1. wl'[w] = Idle(l) /\ wpc'[w] = "wait"
      BY <1>7, <2>1 DEF ScanFindsNothing, SetWorker
    <3>2. l \in Locals
      BY <1>a, AdvanceType DEF Locals
    <3>3. l.id = wl[w].id /\ l.work = wl[w].work
      BY <1>a DEF Locals
    <3> HIDE DEF l
    <3>4. Meets(wl[w])
      BY <1>7, <2>1, <1>a DEF ScanFindsNothing, Using
    <3>5. Fits(l)
      BY <3>3, <3>4 DEF Fits, Meets
    <3> QED BY <3>1, <3>2, <3>5, IdleFits DEF Using
  <2>2. CASE v # w
    BY <1>1, <1>7, <2>2 DEF ScanFindsNothing, SetWorker
  <2> QED BY <2>1, <2>2
<1>8. ASSUME NEW v \in Workers,
             \/ CreateEngine(v) \/ PrintDevice(v) \/ SeesStop(v)
             \/ PrintFailure(v) \/ CheckStale(v)
             \/ ReportAccepted(v) \/ ReportRejected(v)
      PROVE  Goal
  BY <1>1, <1>8
     DEF CreateEngine, PrintDevice, SeesStop, PrintFailure, CheckStale,
         ReportAccepted, ReportRejected, Using
<1>9. ASSUME NEW v \in Workers, ScanFails(v)
      PROVE  Goal
  BY <1>1, <1>9 DEF ScanFails, SetWorker, Fits, IdleLocals, Using
<1>10. ASSUME NEW v \in Workers,
              DropBlock(v) \/ ReportError(v) \/ InvalidateWork(v)
       PROVE  Goal
  <2>1. SetWorker(v, "wait", Idle(wl[v]))
    BY <1>10 DEF DropBlock, ReportError, InvalidateWork
  <2>2. Fits(Idle(wl[w]))
    BY <1>a, IdleFits
  <2> QED BY <1>1, <2>1, <2>2 DEF SetWorker, Using
<1>11. ASSUME NEW v \in Workers, NodeDecides(v)
       PROVE  Goal
  <2>1. wpc' = [wpc EXCEPT ![v] = "reply"]
    BY <1>11 DEF NodeDecides, NodeTakesBlock, NodeRefusesBlock
  <2>2. PICK r : wl' = [wl EXCEPT ![v].reply = r]
    BY <1>11 DEF NodeDecides, NodeTakesBlock, NodeRefusesBlock
  <2>3. /\ wl'[w].scanned = wl[w].scanned /\ wl'[w].id = wl[w].id
        /\ wl'[w].work = wl[w].work /\ wl'[w].tpl = wl[w].tpl
    BY <1>a, <2>2 DEF Locals
  <2>4. wpc'[w] \in Using => wpc[w] \in Using
    BY <2>1 DEF Using
  <2> QED BY <1>a, <2>3, <2>4 DEF Fits, Meets
<1> QED
  BY <1>2, <1>3, <1>4, <1>5, <1>6, <1>7, <1>8, <1>9, <1>10, <1>11
     DEF Next, WorkerStep, vars, Report, Stops

\* The header of a block extends the tip its transactions were chosen for
\* and, with a longpollid, commits to them.
THEOREM HeaderFits == Spec => []BlockFitsHeader
<1>1. TypeOK /\ FitInv => BlockFitsHeader
  <2> SUFFICES ASSUME TypeOK, FitInv, NEW w \in Workers, wpc[w] = "submit"
               PROVE  /\ wl[w].work.tip = wl[w].tpl.tip
                      /\ LongPoll => wl[w].work.txs = wl[w].tpl.txs
    BY DEF BlockFitsHeader
  <2>1. Identity(wl[w].work) = Identity(wl[w].tpl)
    BY DEF FitInv, Meets, Using
  <2> QED BY <2>1 DEF Identity
<1> QED
  BY <1>1, TypeInit, TypeStep, FitInit, FitStep, PTL DEF Spec

-----------------------------------------------------------------------------
(* Blocks counted as accepted.                                             *)

\* The workers the node has told that it took their block.
Told == {w \in Workers : wpc[w] = "reply" /\ wl[w].reply = "accept"}

MinedInv ==
  mpc # "killed" => block_accepts + lost + Cardinality(Told) = mined

\* Nothing is mined, counted or lost yet.
LEMMA MinedInit == Init => MinedInv
<1> SUFFICES ASSUME Init PROVE block_accepts + lost + Cardinality(Told) = mined
  BY DEF MinedInv
<1>1. Told = {}
  BY DEF Init, Told
<1>2. Cardinality(Told) = 0
  BY <1>1, FS_EmptySet
<1> QED BY <1>2 DEF Init

\* There are finitely many.
LEMMA ToldFinite ==
  IsFiniteSet(Told) /\ Cardinality(Told) \in Nat
<1>1. IsFiniteSet(Told)
  BY SoloAssumption, FS_Subset DEF Told
<1> QED BY <1>1, FS_CardinalityType

\* The answer of the node adds a worker.
LEMMA TakenCounts ==
  ASSUME TypeOK, MinedInv, NEW w \in Workers, NodeTakesBlock(w)
  PROVE  MinedInv'
<1> USE DEF TypeOK, ThreadTypes
<1>1. PICK reply \in {"accept", "error"} :
        /\ wl' = [wl EXCEPT ![w].reply = reply]
        /\ lost' = IF reply = "error" THEN lost + 1 ELSE lost
  BY DEF NodeTakesBlock
<1>2. /\ wpc[w] = "submit" /\ wpc' = [wpc EXCEPT ![w] = "reply"]
      /\ mined' = mined + 1 /\ UNCHANGED <<block_accepts, mpc>>
  BY DEF NodeTakesBlock, countVars
<1>3. wl'[w].reply = reply /\ \A v \in Workers \ {w} : wl'[v] = wl[v]
  BY <1>1 DEF Locals
<1>4. block_accepts \in Nat /\ lost \in Nat /\ mined \in Nat
  BY DEF SharedTypes, WorldTypes
<1>5. CASE reply = "accept"
  <2>1. Told' = Told \cup {w} /\ w \notin Told
    BY <1>2, <1>3, <1>5 DEF Told
  <2>2. Cardinality(Told') = Cardinality(Told) + 1
    BY <2>1, ToldFinite, FS_AddElement
  <2>3. Cardinality(Told)' = Cardinality(Told) + 1
    BY <2>2
  <2>4. lost' = lost
    BY <1>1, <1>5
  <2> QED BY <1>2, <1>4, <2>3, <2>4, ToldFinite DEF MinedInv
<1>6. CASE reply = "error"
  <2>1. Told' = Told
    BY <1>2, <1>3, <1>6 DEF Told
  <2>2. Cardinality(Told)' = Cardinality(Told)
    BY <2>1
  <2>3. lost' = lost + 1
    BY <1>1, <1>6
  <2> QED BY <1>2, <1>4, <2>2, <2>3, ToldFinite DEF MinedInv
<1> QED BY <1>5, <1>6

\* Reporting the acceptance takes it away.
LEMMA AcceptCounts ==
  ASSUME TypeOK, MinedInv, NEW w \in Workers, ReportAccepted(w)
  PROVE  MinedInv'
<1> USE DEF TypeOK, ThreadTypes
<1>1. /\ wpc[w] = "reply" /\ wl[w].reply = "accept" /\ UNCHANGED wl
      /\ wpc' = [wpc EXCEPT ![w] = "invalidate"]
      /\ block_accepts' = block_accepts + 1
      /\ UNCHANGED <<mined, lost, mpc>>
  BY DEF ReportAccepted, Accepted, histVars, WorkerRest
<1>2. Told' = Told \ {w} /\ w \in Told
  BY <1>1 DEF Told
<1>3. Cardinality(Told') = Cardinality(Told) - 1
  BY <1>2, ToldFinite, FS_RemoveElement
<1>4. Cardinality(Told)' = Cardinality(Told) - 1
  BY <1>3
<1>5. block_accepts \in Nat /\ lost \in Nat /\ mined \in Nat
  BY DEF SharedTypes, WorldTypes
<1> QED BY <1>1, <1>4, <1>5, ToldFinite DEF MinedInv

\* No other step changes who is told, or what is counted.
LEMMA OthersKeepTold ==
  ASSUME TypeOK, [Next]_vars, ~RelockThrows,
         \A w \in Workers : ~NodeTakesBlock(w) /\ ~ReportAccepted(w)
  PROVE  /\ Told' = Told
         /\ UNCHANGED <<block_accepts, mined, lost>>
         /\ mpc = "killed" => mpc' = "killed"
<1> USE DEF TypeOK, ThreadTypes
<1>1. CASE UNCHANGED vars
  BY <1>1 DEF vars, Told
<1>2. CASE UpdaterStep \/ NodeStep
  BY <1>2
     DEF UpdaterStep, NodeStep, OthersFindBlock, MempoolChanges, NodeMoves,
         NodeAnswersLongpoll, LongpollFails, NodeAnswersFetch, FetchFails,
         ChooseSource, PrintLongpollFailure, PollNow, PollLater,
         PollElapses, PrintFetchFailure, InstallTemplate, PrintTemplate,
         UpdaterRest, workVars, countVars, histVars, Told
<1>3. CASE CheckEngines \/ JoinWorkers
  BY <1>3 DEF CheckEngines, JoinWorkers, workVars, countVars, histVars, Told
<1>4. ASSUME NEW v \in Workers,
             \/ CreateEngine(v) \/ PrintDevice(v) \/ SeesStop(v)
             \/ PrintFailure(v) \/ CheckStale(v)
      PROVE  /\ Told' = Told /\ UNCHANGED <<block_accepts, mined, lost, mpc>>
  BY <1>4
     DEF CreateEngine, PrintDevice, SeesStop, PrintFailure, CheckStale,
         WorkerRest, countVars, histVars, Told
<1>5. ASSUME NEW v \in Workers,
             \/ TakeTemplate(v) \/ ScanFindsNothing(v) \/ ScanFinds(v)
             \/ ScanFails(v) \/ DropBlock(v) \/ InvalidateWork(v)
      PROVE  /\ Told' = Told /\ UNCHANGED <<block_accepts, mined, lost, mpc>>
  BY <1>5
     DEF TakeTemplate, ScanFindsNothing, ScanFinds, ScanFails, DropBlock,
         InvalidateWork, SetWorker, WorkerRest, countVars, histVars, Told
<1>6. ASSUME NEW v \in Workers, ReportError(v) \/ ReportRejected(v)
      PROVE  /\ Told' = Told /\ UNCHANGED <<block_accepts, mined, lost, mpc>>
  BY <1>6 DEF ReportError, ReportRejected, SetWorker, WorkerRest, countVars,
              histVars, Told
<1>7. ASSUME NEW v \in Workers, NodeRefusesBlock(v)
      PROVE  /\ Told' = Told /\ UNCHANGED <<block_accepts, mined, lost, mpc>>
  <2>1. /\ UNCHANGED <<block_accepts, mined, lost, mpc>>
        /\ wpc[v] = "submit" /\ \A w \in Workers \ {v} : wpc'[w] = wpc[w]
    BY <1>7 DEF NodeRefusesBlock, countVars, histVars
  <2>2. PICK r \in {"discard", "other", "error"} :
          wl' = [wl EXCEPT ![v].reply = r]
    BY <1>7 DEF NodeRefusesBlock
  <2>3. wl'[v].reply # "accept" /\ \A w \in Workers \ {v} : wl'[w] = wl[w]
    BY <2>2 DEF Locals
  <2> QED BY <2>1, <2>3 DEF Told
<1> QED
  BY <1>1, <1>2, <1>3, <1>4, <1>5, <1>6, <1>7
     DEF Next, WorkerStep, NodeDecides, Report, Stops

\* Every step keeps MinedInv.
LEMMA MinedStep == TypeOK /\ MinedInv /\ [Next]_vars => MinedInv'
<1> SUFFICES ASSUME TypeOK, MinedInv, [Next]_vars PROVE MinedInv'
  OBVIOUS
<1>1. CASE RelockThrows
  BY <1>1 DEF RelockThrows, MinedInv
<1>2. ASSUME NEW w \in Workers, NodeTakesBlock(w) \/ ReportAccepted(w)
      PROVE  MinedInv'
  BY <1>2, TakenCounts, AcceptCounts
<1>3. CASE /\ ~RelockThrows
           /\ \A w \in Workers : ~NodeTakesBlock(w) /\ ~ReportAccepted(w)
  <2>1. /\ Told' = Told /\ UNCHANGED <<block_accepts, mined, lost>>
        /\ mpc = "killed" => mpc' = "killed"
    BY <1>3, OthersKeepTold
  <2>2. Cardinality(Told)' = Cardinality(Told)
    BY <2>1
  <2> QED BY <2>1, <2>2 DEF MinedInv
<1> QED BY <1>1, <1>2, <1>3

\* A block is counted as accepted only if the node took it, and one that
\* the node took is missed only when its answer was lost.
THEOREM AcceptsMined == Spec => []AcceptsAreMined
<1>1. MinedInv => AcceptsAreMined
  BY DEF MinedInv, AcceptsAreMined, Told
<1> QED
  BY <1>1, TypeInit, TypeStep, MinedInit, MinedStep, PTL DEF Spec

=============================================================================
