----------------------------- MODULE SoloMiner -----------------------------
(***************************************************************************)
(* Solo mode (src/src/solo_miner.cpp, run_solo_miner): one thread per CUDA *)
(* device, a thread that keeps the block template up to date, the main     *)
(* thread that reports, and the Bitcoin Core node they talk to by JSON-RPC.*)
(*                                                                         *)
(* Every critical section of template_mutex only copies or assigns, so it  *)
(* is one step and the mutex is never seen held.  output_mutex is held     *)
(* across steps where its holder goes on to another mutex (lines 1515-1559)*)
(* and is the variable output_mutex.                                       *)
(*                                                                         *)
(* External, modelled from how the code uses it: the node (node, the       *)
(* answers of getblocktemplate and submitblock).                           *)
(***************************************************************************)
EXTENDS Integers, FiniteSets

CONSTANTS
  Workers,      \* one thread per configured device
  NoOne,        \* owner of a free mutex
  LongPoll,     \* whether the node advertises longpollid
  Faulty,       \* the devices whose engine, or whose header, may fail
  Chunks,       \* chunks in a worker's nonce partition
  MaxBlocks,    \* bound: candidates the workers find
  MaxTip,       \* bound: tip up to which others find blocks
  MaxTxs        \* bound: changes of the node's mempool

ASSUME SoloAssumption ==
  /\ NoOne \notin Workers /\ IsFiniteSet(Workers)
  /\ Faulty \subseteq Workers /\ LongPoll \in BOOLEAN
  /\ Chunks \in Nat \ {0}
  /\ MaxBlocks \in Nat /\ MaxTip \in Nat /\ MaxTxs \in Nat

VARIABLES
  \* under template_mutex
  shared_state,
  output_mutex,
  \* atomics
  stop_flag, refresh_now, engine_init_errors,
  block_accepts, block_rejects, block_discarded,
  \* the main thread
  mpc,
  \* the template updater
  upc, next_template, longpoll_supported,
  \* the workers
  wpc, wl,
  \* the node: its tip, the version of its mempool, the coinbase value
  node,
  \* history: the generation when a worker last found a candidate, the
  \* blocks of ours the node took, and those whose answer was lost
  found_at, mined, lost

flagVars    == <<stop_flag, refresh_now, engine_init_errors>>
countVars   == <<block_accepts, block_rejects, block_discarded>>
updaterVars == <<upc, next_template, longpoll_supported>>
workVars    == <<wpc, wl>>
histVars    == <<found_at, mined, lost>>

vars == <<shared_state, output_mutex, stop_flag, refresh_now,
          engine_init_errors, block_accepts, block_rejects, block_discarded,
          mpc, upc, next_template, longpoll_supported, wpc, wl, node,
          found_at, mined, lost>>

-----------------------------------------------------------------------------
Templates == [tip : Nat, txs : Nat, value : Nat]

NoTemplate == [tip |-> 0, txs |-> 0, value |-> 0]

\* Mutant: the tip is left out of the identity.
IdentityByValue(tpl) ==
  IF LongPoll THEN <<0, tpl.txs>> ELSE <<0, tpl.value>>

\* The longpollid names the tip and the state of the mempool; without it the
\* template is told by previous block, height and coinbase value.
Identity(tpl) ==
  IF LongPoll THEN <<tpl.tip, tpl.txs>> ELSE <<tpl.tip, tpl.value>>

\* Locals of a worker: work is the template current_work was built from.
IdleLocals == [tpl |-> NoTemplate, gen |-> 0, id |-> <<0, 0>>,
               work |-> NoTemplate, scanned |-> 0, ok |-> FALSE,
               reply |-> "none"]

Init ==
  /\ node = [tip |-> 1, txs |-> 0, value |-> 0]
  /\ shared_state = [tpl |-> node, gen |-> 1, valid |-> TRUE]
  /\ output_mutex = NoOne
  /\ stop_flag = FALSE /\ refresh_now = FALSE /\ engine_init_errors = 0
  /\ block_accepts = 0 /\ block_rejects = 0 /\ block_discarded = 0
  /\ mpc = "init"
  /\ upc = "off" /\ next_template = NoTemplate
  /\ longpoll_supported = LongPoll
  /\ wpc = [w \in Workers |-> "create"]
  /\ wl = [w \in Workers |-> IdleLocals]
  /\ found_at = [w \in Workers |-> 0]
  /\ mined = 0 /\ lost = 0

-----------------------------------------------------------------------------
(* The node.                                                               *)

Ended == mpc \in {"done", "killed"}

NodeMoves(n) ==
  /\ ~Ended
  /\ node' = n
  /\ UNCHANGED <<shared_state, output_mutex, flagVars, countVars, mpc,
                 updaterVars, workVars, histVars>>

OthersFindBlock == node.tip < MaxTip /\ NodeMoves([node EXCEPT !.tip = @ + 1])

\* Transactions come and go; the coinbase value may stay the same.
MempoolChanges ==
  /\ node.txs < MaxTxs
  /\ \E more \in {0, 1} :
       NodeMoves([node EXCEPT !.txs = @ + 1, !.value = @ + more])

\* A block is taken if its header commits to its transactions and extends
\* the tip; the node may have other reasons to refuse it.  The connection
\* may break before the answer is read.
NodeTakesBlock(w) ==
  /\ wpc[w] = "submit"
  /\ wl[w].work = wl[w].tpl /\ wl[w].work.tip = node.tip
  /\ node' = [node EXCEPT !.tip = @ + 1]
  /\ mined' = mined + 1
  /\ \E reply \in {"accept", "error"} :
       /\ wl' = [wl EXCEPT ![w].reply = reply]
       /\ lost' = IF reply = "error" THEN lost + 1 ELSE lost
  /\ wpc' = [wpc EXCEPT ![w] = "reply"]
  /\ UNCHANGED <<shared_state, output_mutex, flagVars, countVars, mpc,
                 updaterVars, found_at>>

\* "discard": the text names a stale or known block; "other": any other
\* text, as for a valid block that comes second; "error": no result at all.
NodeRefusesBlock(w) ==
  /\ wpc[w] = "submit"
  /\ \E reply \in {"discard", "other", "error"} :
       wl' = [wl EXCEPT ![w].reply = reply]
  /\ wpc' = [wpc EXCEPT ![w] = "reply"]
  /\ UNCHANGED <<shared_state, output_mutex, flagVars, countVars, mpc,
                 updaterVars, node, histVars>>

-----------------------------------------------------------------------------
(* The main thread.                                                        *)

\* engine_init_errors is read once, before the updater is started.
CheckEngines ==
  /\ mpc = "init"
  /\ IF engine_init_errors > 0
       THEN /\ stop_flag' = TRUE /\ mpc' = "join"
            /\ UNCHANGED upc
       ELSE /\ mpc' = "run" /\ upc' = "top"
            /\ UNCHANGED stop_flag
  /\ UNCHANGED <<shared_state, output_mutex, refresh_now, engine_init_errors,
                 countVars, next_template, longpoll_supported, workVars,
                 node, histVars>>

\* Nothing sets stop_flag any more: the loop only reports.
Report == mpc = "run" /\ UNCHANGED vars

JoinWorkers ==
  /\ mpc = "join" /\ \A w \in Workers : wpc[w] = "exited"
  /\ mpc' = "done"
  /\ UNCHANGED <<shared_state, output_mutex, flagVars, countVars,
                 updaterVars, workVars, node, histVars>>

-----------------------------------------------------------------------------
(* The template updater.  Only this thread writes the template, so the     *)
(* copy it makes at the top of its loop stays equal to the shared one.     *)

UpdaterRest == <<output_mutex, stop_flag, engine_init_errors, countVars, mpc,
                 workVars, node, histVars>>

ChooseSource ==
  /\ upc = "top"
  /\ upc' = IF longpoll_supported THEN "longpoll" ELSE "poll"
  /\ UNCHANGED <<shared_state, refresh_now, next_template,
                 longpoll_supported, UpdaterRest>>

\* The node answers a longpoll when its template is another one.
NodeAnswersLongpoll ==
  /\ upc = "longpoll"
  /\ Identity(node) # Identity(shared_state.tpl)
  /\ next_template' = node /\ upc' = "install"
  /\ UNCHANGED <<shared_state, refresh_now, longpoll_supported, UpdaterRest>>

\* The call, or the parsing of longpolluri, fails.
LongpollFails ==
  /\ upc = "longpoll"
  /\ upc' = "print_longpoll"
  /\ UNCHANGED <<shared_state, refresh_now, next_template,
                 longpoll_supported, UpdaterRest>>

\* The next round polls.
PrintLongpollFailure ==
  /\ upc = "print_longpoll" /\ output_mutex = NoOne
  /\ longpoll_supported' = FALSE /\ upc' = "top"
  /\ UNCHANGED <<shared_state, refresh_now, next_template, UpdaterRest>>

\* A worker asks for a template now.
PollNow ==
  /\ upc \in {"poll", "sleep"} /\ refresh_now
  /\ refresh_now' = FALSE /\ upc' = "fetch"
  /\ UNCHANGED <<shared_state, next_template, longpoll_supported,
                 UpdaterRest>>

PollLater ==
  /\ upc = "poll" /\ ~refresh_now
  /\ upc' = "sleep"
  /\ UNCHANGED <<shared_state, refresh_now, next_template,
                 longpoll_supported, UpdaterRest>>

\* template_poll_seconds are over; a request made in the last second is
\* still there.
PollElapses ==
  /\ upc = "sleep"
  /\ upc' = "fetch"
  /\ UNCHANGED <<shared_state, refresh_now, next_template,
                 longpoll_supported, UpdaterRest>>

NodeAnswersFetch ==
  /\ upc = "fetch"
  /\ next_template' = node /\ upc' = "install"
  /\ UNCHANGED <<shared_state, refresh_now, longpoll_supported, UpdaterRest>>

FetchFails ==
  /\ upc = "fetch"
  /\ upc' = "print_fetch"
  /\ UNCHANGED <<shared_state, refresh_now, next_template,
                 longpoll_supported, UpdaterRest>>

PrintFetchFailure ==
  /\ upc = "print_fetch" /\ output_mutex = NoOne
  /\ upc' = "top"
  /\ UNCHANGED <<shared_state, refresh_now, next_template,
                 longpoll_supported, UpdaterRest>>

\* Mutant: work that was invalidated is not restored.
NewIdentityOnly == Identity(shared_state.tpl) # Identity(next_template)

IsNews ==
  ~shared_state.valid \/ Identity(shared_state.tpl) # Identity(next_template)

\* Mutant: the new template keeps the generation of the old one.
InstalledSameGeneration ==
  [tpl |-> next_template, gen |-> shared_state.gen, valid |-> TRUE]

Installed ==
  [tpl |-> next_template, gen |-> shared_state.gen + 1, valid |-> TRUE]

\* Afterwards longpoll_supported is what the template in place says.
InstallTemplate ==
  /\ upc = "install"
  /\ IF IsNews THEN shared_state' = Installed /\ upc' = "print"
               ELSE UNCHANGED shared_state /\ upc' = "top"
  /\ next_template' = NoTemplate
  /\ longpoll_supported' = LongPoll
  /\ UNCHANGED <<refresh_now, UpdaterRest>>

PrintTemplate ==
  /\ upc = "print" /\ output_mutex = NoOne
  /\ upc' = "top"
  /\ UNCHANGED <<shared_state, refresh_now, next_template,
                 longpoll_supported, UpdaterRest>>

-----------------------------------------------------------------------------
(* A worker.  Locals that are dead are set back to their first value.      *)

WorkerRest == <<mpc, updaterVars>>

SetWorker(w, pc, locals) ==
  /\ wpc' = [wpc EXCEPT ![w] = pc]
  /\ wl' = [wl EXCEPT ![w] = locals]

Idle(l) == [IdleLocals EXCEPT !.id = l.id, !.scanned = l.scanned,
                              !.work = IF l.scanned = 0 THEN NoTemplate
                                                        ELSE l.work]

CreateEngine(w) ==
  /\ wpc[w] = "create"
  /\ \/ wpc' = [wpc EXCEPT ![w] = "print"] /\ UNCHANGED engine_init_errors
     \/ /\ w \in Faulty
        /\ wpc' = [wpc EXCEPT ![w] = "exited"]
        /\ engine_init_errors' = engine_init_errors + 1
  /\ UNCHANGED <<shared_state, output_mutex, stop_flag, refresh_now,
                 countVars, wl, node, histVars, WorkerRest>>

PrintDevice(w) ==
  /\ wpc[w] = "print" /\ output_mutex = NoOne
  /\ wpc' = [wpc EXCEPT ![w] = "wait"]
  /\ UNCHANGED <<shared_state, output_mutex, flagVars, countVars, wl, node,
                 histVars, WorkerRest>>

SeesStop(w) ==
  /\ wpc[w] = "wait" /\ stop_flag
  /\ wpc' = [wpc EXCEPT ![w] = "exited"]
  /\ UNCHANGED <<shared_state, output_mutex, flagVars, countVars, wl, node,
                 histVars, WorkerRest>>

\* Mutant: a new template goes on where the old one was.
KeepPlace(w) == wl[w].scanned

\* A new identity restarts the nonce partition.
Place(w) == IF Identity(shared_state.tpl) # wl[w].id THEN 0 ELSE wl[w].scanned

\* Copies the template; the header is built only at the start of the
\* partition, and may come out too long.
TakeTemplate(w) ==
  /\ wpc[w] = "wait" /\ shared_state.valid /\ ~stop_flag
  /\ \/ SetWorker(w, "scan",
          [wl[w] EXCEPT !.tpl = shared_state.tpl, !.gen = shared_state.gen,
                        !.id = Identity(shared_state.tpl),
                        !.scanned = Place(w),
                        !.work = IF Place(w) = 0 THEN shared_state.tpl
                                                 ELSE @])
     \/ /\ w \in Faulty /\ Place(w) = 0
        /\ SetWorker(w, "failed", IdleLocals)
  /\ UNCHANGED <<shared_state, output_mutex, flagVars, countVars, node,
                 histVars, WorkerRest>>

\* Mutant: the end of the partition is missed.
AdvanceOn(scanned) == scanned + 1

\* One chunk further, back to the start after the last one.
Advance(scanned) == (scanned + 1) % Chunks

ScanFindsNothing(w) ==
  /\ wpc[w] = "scan"
  /\ SetWorker(w, "wait", Idle([wl[w] EXCEPT !.scanned = Advance(@)]))
  /\ UNCHANGED <<shared_state, output_mutex, flagVars, countVars, node,
                 histVars, WorkerRest>>

\* ok is the CPU's verdict on the hash.
ScanFinds(w) ==
  /\ wpc[w] = "scan"
  /\ block_accepts + block_rejects + block_discarded < MaxBlocks
  /\ \E ok \in BOOLEAN :
       SetWorker(w, "check",
         [wl[w] EXCEPT !.scanned = Advance(@), !.ok = ok])
  /\ found_at' = [found_at EXCEPT ![w] = shared_state.gen]
  /\ UNCHANGED <<shared_state, output_mutex, flagVars, countVars, node, mined,
                 lost, WorkerRest>>

ScanFails(w) ==
  /\ wpc[w] = "scan" /\ w \in Faulty
  /\ SetWorker(w, "failed", IdleLocals)
  /\ UNCHANGED <<shared_state, output_mutex, flagVars, countVars, node,
                 histVars, WorkerRest>>

PrintFailure(w) ==
  /\ wpc[w] = "failed" /\ output_mutex = NoOne
  /\ wpc' = [wpc EXCEPT ![w] = "exited"]
  /\ UNCHANGED <<shared_state, output_mutex, flagVars, countVars, wl, node,
                 histVars, WorkerRest>>

\* Mutant: work is stale only while there is no template.
StaleWithoutTemplate(w) == ~shared_state.valid

StaleWork(w) == ~shared_state.valid \/ shared_state.gen # wl[w].gen

\* What is neither invalid nor stale goes to the node, without any lock.
CheckStale(w) ==
  /\ wpc[w] = "check"
  /\ wpc' = [wpc EXCEPT ![w] = IF wl[w].ok /\ ~StaleWork(w) THEN "submit"
                                                           ELSE "drop"]
  /\ UNCHANGED <<shared_state, output_mutex, flagVars, countVars, wl, node,
                 histVars, WorkerRest>>

DropBlock(w) ==
  /\ wpc[w] = "drop" /\ output_mutex = NoOne
  /\ block_discarded' = block_discarded + 1
  /\ SetWorker(w, "wait", Idle(wl[w]))
  /\ UNCHANGED <<shared_state, output_mutex, flagVars, block_accepts,
                 block_rejects, node, histVars, WorkerRest>>

\* No result: the call failed, or the node answered with an error.
ReportError(w) ==
  /\ wpc[w] = "reply" /\ output_mutex = NoOne
  /\ wl[w].reply = "error"
  /\ block_rejects' = block_rejects + 1
  /\ SetWorker(w, "wait", Idle(wl[w]))
  /\ UNCHANGED <<shared_state, output_mutex, flagVars, block_accepts,
                 block_discarded, node, histVars, WorkerRest>>

\* Mutant: the result, null until it is set, is looked at before the error.
NullResult(w) == wl[w].reply \in {"accept", "error"}

Accepted(w) == wl[w].reply = "accept"

ReportAccepted(w) ==
  /\ wpc[w] = "reply" /\ output_mutex = NoOne
  /\ Accepted(w)
  /\ output_mutex' = w
  /\ block_accepts' = block_accepts + 1
  /\ refresh_now' = TRUE
  /\ wpc' = [wpc EXCEPT ![w] = "invalidate"]
  /\ UNCHANGED <<shared_state, stop_flag, engine_init_errors, block_rejects,
                 block_discarded, wl, node, histVars, WorkerRest>>

\* Inside output_mutex, and whatever the template is by now.
InvalidateWork(w) ==
  /\ wpc[w] = "invalidate"
  /\ shared_state' = [shared_state EXCEPT !.valid = FALSE, !.gen = @ + 1]
  /\ output_mutex' = NoOne
  /\ SetWorker(w, "wait", Idle(wl[w]))
  /\ UNCHANGED <<flagVars, countVars, node, histVars, WorkerRest>>

\* Counts, and comes to lock output_mutex a second time (line 1552).
ReportRejected(w) ==
  /\ wpc[w] = "reply" /\ output_mutex = NoOne
  /\ wl[w].reply \in {"discard", "other"}
  /\ output_mutex' = w
  /\ IF wl[w].reply = "discard"
       THEN block_discarded' = block_discarded + 1 /\ UNCHANGED block_rejects
       ELSE block_rejects' = block_rejects + 1 /\ UNCHANGED block_discarded
  /\ wpc' = [wpc EXCEPT ![w] = "relock"]
  /\ UNCHANGED <<shared_state, flagVars, block_accepts, wl, node, histVars,
                 WorkerRest>>

\* Locking a std::mutex one owns is undefined: the thread waits for itself
\* for ever, or lock throws and the process is terminated.
RelockThrows ==
  /\ \E w \in Workers : wpc[w] = "relock"
  /\ mpc' = "killed" /\ upc' = "off"
  /\ wpc' = [w \in Workers |-> "exited"]
  /\ UNCHANGED <<shared_state, output_mutex, flagVars, countVars,
                 next_template, longpoll_supported, wl, node, histVars>>

-----------------------------------------------------------------------------
UpdaterStep ==
  \/ ChooseSource \/ PrintLongpollFailure
  \/ PollNow \/ PollLater \/ PollElapses \/ PrintFetchFailure
  \/ InstallTemplate \/ PrintTemplate

WorkerStep(w) ==
  \/ CreateEngine(w) \/ PrintDevice(w) \/ SeesStop(w) \/ TakeTemplate(w)
  \/ ScanFindsNothing(w) \/ ScanFinds(w) \/ ScanFails(w) \/ PrintFailure(w)
  \/ CheckStale(w) \/ DropBlock(w) \/ ReportError(w) \/ ReportAccepted(w)
  \/ InvalidateWork(w) \/ ReportRejected(w)

NodeStep ==
  \/ OthersFindBlock \/ MempoolChanges
  \/ NodeAnswersLongpoll \/ LongpollFails \/ NodeAnswersFetch \/ FetchFails

NodeDecides(w) == NodeTakesBlock(w) \/ NodeRefusesBlock(w)

SelfLocked == \E w \in Workers : wpc[w] = "relock"

\* The process has ended, or is joining a worker that waits for itself.
Stops ==
  /\ Ended \/ (mpc = "join" /\ SelfLocked)
  /\ UNCHANGED vars

Next ==
  \/ CheckEngines \/ Report \/ JoinWorkers
  \/ UpdaterStep
  \/ \E w \in Workers : (WorkerStep(w) \/ NodeDecides(w))
  \/ NodeStep
  \/ RelockThrows
  \/ Stops

Spec == Init /\ [][Next]_vars

-----------------------------------------------------------------------------
(* Properties.                                                             *)

UpdaterPcs ==
  {"off", "top", "longpoll", "print_longpoll", "poll", "sleep", "fetch",
   "print_fetch", "install", "print"}

WorkerPcs ==
  {"create", "print", "wait", "scan", "failed", "check", "drop", "submit",
   "reply", "invalidate", "relock", "exited"}

States == [tpl : Templates, gen : Nat, valid : BOOLEAN]

Locals ==
  [tpl : Templates, gen : Nat, id : Nat \X Nat, work : Templates,
   scanned : 0..Chunks-1, ok : BOOLEAN,
   reply : {"none", "accept", "discard", "other", "error"}]

SharedTypes ==
  /\ shared_state \in States
  /\ output_mutex \in Workers \cup {NoOne}
  /\ stop_flag \in BOOLEAN /\ refresh_now \in BOOLEAN
  /\ engine_init_errors \in Nat
  /\ block_accepts \in Nat /\ block_rejects \in Nat
  /\ block_discarded \in Nat

ThreadTypes ==
  /\ mpc \in {"init", "run", "join", "done", "killed"}
  /\ upc \in UpdaterPcs /\ next_template \in Templates
  /\ longpoll_supported \in BOOLEAN
  /\ wpc \in [Workers -> WorkerPcs] /\ wl \in [Workers -> Locals]

WorldTypes ==
  /\ node \in Templates
  /\ found_at \in [Workers -> Nat] /\ mined \in Nat /\ lost \in Nat

\* Every variable has its type.
TypeOK == SharedTypes /\ ThreadTypes /\ WorldTypes

\* Where a worker uses the template it copied.
Using == {"scan", "check", "submit"}

\* The stale check compares generations only (lines 1487-1490): one
\* generation must never stand for two templates, whoever installed or
\* invalidated one in between.
GenerationTells ==
  \A w \in Workers :
    wpc[w] \in Using /\ wl[w].gen = shared_state.gen
      => shared_state.valid /\ wl[w].tpl = shared_state.tpl

\* A block goes to the node only if its template was still in place when the
\* scan reported it (lines 1477-1511); newer templates may come after.
SubmitsFoundFresh ==
  \A w \in Workers : wpc[w] = "submit" => wl[w].gen >= found_at[w]

\* The header of a block may be older than the template that its
\* transactions are taken from (lines 1423 and 1506), but it extends the same
\* tip and, with a longpollid, commits to the same transactions.
BlockFitsHeader ==
  \A w \in Workers : wpc[w] = "submit" =>
    /\ wl[w].work.tip = wl[w].tpl.tip
    /\ LongPoll => wl[w].work.txs = wl[w].tpl.txs

\* The miner counts a block as accepted only if the node took it, and misses
\* only those whose answer was lost (lines 1520-1531).
AcceptsAreMined ==
  LET told == {w \in Workers : wpc[w] = "reply" /\ wl[w].reply = "accept"}
  IN  mpc # "killed" => block_accepts + lost + Cardinality(told) = mined

-----------------------------------------------------------------------------
(* Fairness: every thread is run, one that keeps trying for output_mutex   *)
(* gets it, and a node that is asked again and again answers some time.    *)

UpdaterPrints == PrintLongpollFailure \/ PrintFetchFailure \/ PrintTemplate

WorkerPrints(w) ==
  \/ PrintDevice(w) \/ PrintFailure(w) \/ DropBlock(w)
  \/ ReportError(w) \/ ReportAccepted(w) \/ ReportRejected(w)

Fairness ==
  /\ WF_vars(CheckEngines) /\ WF_vars(JoinWorkers)
  /\ WF_vars(UpdaterStep) /\ SF_vars(UpdaterPrints)
  /\ \A w \in Workers :
       /\ WF_vars(WorkerStep(w)) /\ SF_vars(WorkerPrints(w))
       /\ WF_vars(NodeDecides(w))
  /\ SF_vars(NodeAnswersLongpoll) /\ SF_vars(NodeAnswersFetch)

FairSpec == Spec /\ Fairness

\* The process is past its start and not kept from printing.
Impeded == SelfLocked \/ mpc \in {"join", "done", "killed"}

\* README: "the miner uses getblocktemplate longpoll to refresh work
\* immediately": once an accepted block has invalidated the work, work comes
\* back without anything else happening at the node (lines 1531-1537 against
\* 1606-1652).
WorkReturns == ~shared_state.valid ~> (shared_state.valid \/ Impeded)

\* The template in place catches up with the node's tip, also when it was
\* fetched before a block was accepted and installed after (line 1640).
TipFollowed ==
  (shared_state.tpl.tip # node.tip)
    ~> (shared_state.tpl.tip = node.tip \/ Impeded)

\* README: "Solo mode mines against your own Bitcoin Core node and submits
\* full blocks directly": a worker whose block was answered goes back to
\* mining (lines 1511-1559).
ReportsReturn ==
  \A w \in Workers : (wpc[w] = "reply") ~> (wpc[w] \in {"wait", "exited"})

=============================================================================
