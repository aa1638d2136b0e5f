# Formal model of minershartx

TLA+ modules that model the parts of minershartx where interleavings, failures
and arithmetic at a boundary matter, TLC runs that check them on small
instances, and TLAPS proofs for every value of the constants. Line numbers are
those of the sources at the commit this directory sits beside; unless a file is
named they are of `src/src/pool_miner.cpp`.

- [The system](#the-system): components, state, interactions, what is hard
- [The modules](#the-modules): which module models what, and how
- [The runs](#the-runs): what TLC checks, with which bounds and fairness
- [The proofs](#the-proofs): what TLAPS proves, and by which argument
- [Observations](#observations): what the code does that a reader may not expect
- [Not modelled](#not-modelled) and [the plan](#the-plan)

## The system

One process, three modes (`src/src/main.cpp` picks one): a benchmark, a Stratum
pool miner and a solo miner on top of Bitcoin Core's JSON-RPC. Both miners start
one thread per CUDA device.

| Component | Source | State it keeps | Operations |
|---|---|---|---|
| Pool session and share life cycle | `run_pool_miner` (730-1471) | `shared_job` under `job_mutex`; socket, pending submits, counters and submit encoding under `socket_mutex`; atomics `stop_flag`, `socket_needs_reconnect`, `engine_init_errors`; the locals of each thread | subscribe, authorize, set_difficulty, notify, submit, submit response, retry, reconnect, report, stop |
| Line socket | `LineSocket` (113-272) | descriptor, receive buffer | connect, close, send line, read line |
| Share target | `target_from_difficulty`, `hash_be_meets_target` (367-417) | none | difficulty to 256-bit target, comparison |
| Nonce partition | `src/include/nonce_partition.h` | none | range of a worker |
| Search space of a job | worker loop (871-957) | place in the partition, extranonce2 counter | next chunk, next pass, new job |
| CUDA scan engine | `src/src/sha256_benchmark.cu` (22-558) | device buffers and result, cached midstate and target with valid flags | create, scan a chunk, destroy |
| Solo miner | `run_solo_miner`, `src/src/solo_miner.cpp` 1264-1790 | `shared_state` (template, valid, generation) under `template_mutex`; output under `output_mutex`; atomics | update template, build work, scan, submit block, report |
| Bitcoin Core RPC client | `src/src/solo_miner.cpp` 56-330, 733-1090 | credentials, endpoint | HTTP call, probe, payout script, getblocktemplate |
| Address decoder | `src/src/address_decoder.cpp` | none | base58check and bech32/bech32m to script |
| Configuration | `src/src/main.cpp` | the config being built | defaults, JSON file, command line, checks |
| Benchmark mode | `src/src/sha256_benchmark.cu` 560-723 | totals under `out_mutex` | a thread per device launches for some seconds and adds to the totals |
| SHA-256 | `src/src/sha256_cpu.cpp`, kernels | none | hash, midstate |

In solo mode the **template updater** is the only thread that writes a template;
it waits in a longpoll, or polls, and installs what is new. A **worker** copies
template and generation, scans one chunk, checks both against the shared state
when it has found something, submits the block by a call of its own, and after
an acceptance invalidates the work and asks for a refresh. The **main thread**
only reports.

How they interact in pool mode:

- The **main thread** is the only one that reads the socket. It installs the
  jobs and difficulties it reads into `shared_job`, answers the handshake,
  settles submit responses against `pending_submits`, and replaces a lost
  connection. Every writer of `shared_job` is this thread.
- A **worker** waits for a valid job, copies it under `job_mutex`, scans one
  chunk of its nonce partition without any lock, and, when the scan finds a
  candidate, checks under `job_mutex` that the job is still current, and then
  sends the share under `socket_mutex` and records it as pending.
- A worker whose send fails raises `socket_needs_reconnect`; the main thread
  sees the flag at the head of its loop. `reconnect_session` invalidates the
  job, clears the pending submits, and then closes and reopens the socket
  **without** `socket_mutex`.

What is hard to test here, and what must hold:

| Behaviour | Correct when |
|---|---|
| The stale check gives `job_mutex` back before `socket_mutex` is taken | the share was of the current job when it was found; the window is one share |
| A worker sends while `reconnect_session` swaps the socket below it | the failure on the old socket never costs the new one; what is sent as current fits the session |
| The submit is recorded after it is sent | its response finds the record |
| The submit encoding is read twice without a lock, and changed by responses | the miner settles on the encoding the pool understands |
| A rejected share is retried once in the other encoding | exactly once, flipped, on the same connection |
| The job changes while a share is in flight | its rejection is counted as discarded, not as rejected |
| Two mutexes, nested in both orders | nobody waits for ever |
| The connection drops at any point | a new session is read from again, or the process ends |
| Leaving the loop | every worker ends |
| Partition, chunks and extranonce2 | no work twice until a counter is used up; none left out but in a chunk with a find |
| Difficulty floor | no worker scans below it |
| Solo: the stale check compares generations that two threads increment | one generation never stands for two templates |
| Solo: header, coinbase and transactions may come from different rounds | the header extends the same tip and commits to those transactions |
| Solo: a template fetched before an acceptance, installed after it | the template follows the node's tip |
| Solo: an acceptance invalidates a template that is already the new one | work comes back without outside help (it does not: see Observations) |
| Solo: a lost answer of submitblock | counts of accepted blocks and blocks taken differ by the lost ones only |
| A line leaves in pieces while the socket is swapped below it | no two lines mix; the rest of a line can only be the first thing on the new connection |
| Lines arrive cut anywhere, and connections end in the middle of one | the reader sees whole lines, in order, of one connection each |
| Kernel threads race for one result and leave early | a scan finds a share exactly when there is one, and reports it unmixed |
| Cached midstate and target, with copies that fail in between | what the kernel hashes is what the worker asked for |
| Two passes over the arguments, JSON files between them | the last option wins, then the last file, then the default |
| Checks that read one mode's copy of a setting | what reaches a mode was checked |
| Base58 zeros, bech32 padding | the coinbase pays the address that was given |
| Solo: byte orders of ids and Merkle root | the header commits to the block (it does not: see Observations) |
| Solo: `output_mutex` | no thread locks it twice (one does: see Observations) |

The same list, with the line where each hazard bites and the properties that
cover it, is under `hazards` in `PROJECT.json`.

## The modules

`A <-- B` reads: B extends A; `A <~~ B` reads: B implements A by a refinement
mapping.

    LineSocket   <-- LineReader, LineSocket_proofs
    LineChannel  <~~ LineReader

    PoolMiner       <-- PoolShares <-- MCPoolMiner, PoolMiner_proofs
    ShareLifecycle  <~~ PoolShares

    NoncePartition                     <-- NoncePartition_proofs
    NoncePartition                     <-- NonceSearch, Benchmark
    NonceSearch, NoncePartition_proofs <-- NonceSearch_proofs
    CudaLaunch      <-- ScanEngine, Benchmark

    HeaderHash, ShareTarget, CudaLaunch  <-- ScanEngine <-- MCScanEngine
    ScanEngine, NoncePartition_proofs    <-- ScanEngine_proofs

    Config, AddressDecoder      <-- SoloStart
    CudaLaunch, NoncePartition  <-- Benchmark
    SoloStart, Benchmark        <-- Startup  <-- MCStartup
    AddressDecoder, NoncePartition_proofs  <-- AddressDecoder_proofs
    Startup, AddressDecoder_proofs         <-- Startup_proofs

    SoloMiner  <-- MCSoloMiner, SoloMiner_proofs
    SoloWork   <-- MCSoloWork

`NoncePartition_proofs` also holds what the other proofs need of the natural
numbers: induction as a fact about sets, recursion, and division.

`Startup` ends where `PoolMiner` and `SoloMiner` begin: with a connection, or
with a first template. `ScanEngine` is what those two see as one step that
finds something, finds nothing or fails.

### PoolMiner

The whole of `run_pool_miner`: one action per handler, critical section or
stretch of code between two accesses to shared state. The variables have the
names of the code; `mpc` and `wpc[w]` are the places of the main thread and of
worker `w`, `wl[w]` the worker's locals, and a mutex is the thread that holds
it.

*When a lock is a variable.* A critical section that takes no other lock, and
that nothing can overtake, is one step guarded by the mutex being free. Where
the main thread nests the mutexes (set_difficulty; notify; the report), or
where a worker holds `socket_mutex` while `reconnect_session` acts without it
(send, record, failure), the section is cut and the lock held in between.

| Code | Actions |
|---|---|
| start, 1021-1035 | `CheckEngines`, `FirstSubscribe` |
| `read_line` and its results | `ReadLine`, `ReadTimesOut`, `ReadClosed`, `SeesReconnectFlag` |
| the report, 1371-1461 | `StatsLockSocket`, `StatsPrint` |
| id 1 and id 2 | `SubscribeResponse`, `SendAuthorize`, `AuthorizeResponse` |
| id >= 1000 | `ReadGeneration`, then `ShareAccepted`, `ShareRejected` or `ShareRetried` |
| mining.set_difficulty | `SetDifficulty`, `ReportDifficulty` |
| mining.notify | `NotifyLockSocket`, `InstallJob` |
| `reconnect_session` | `InvalidateJob`, `ClearPending`, `CloseSocket`, `Connect` or `ConnectFails`, `ReportReconnect`, `ResetSession`, `Resubscribe` |
| end | `StopWorkers`, `JoinWorkers` |
| worker start | `CreateEngine`, `PrintDevice` |
| worker loop | `SeesStop`, `TakeJob`, `ScanFindsNothing`, `ScanFinds`, `ScanFails`, `PrintFailure`, `CheckStale`, `DropShare`, `LockSocket`, `SendShare`, `RecordPending`, `SendFailed` |

External parts, modelled from how the code uses them: the connection (`conn`
up, broken by the other side, or closed; `inq` the lines not read yet) and the
pool (`outq`, `subscribed`, `announced`). The pool answers requests in any
order, rejects any share with any kind of text, never accepts a share in an
encoding it does not understand, and announces jobs and difficulties when it
likes.

What is abstracted:

- A job is its id and a version that stands for its contents; a session's
  extranonce1 is the number of the session; a header is the pair it was built
  from. Difficulties are whole, and a target is the difficulty it comes from.
- A rejection's text is reduced to what the code reads from it: about the
  target or empty, about a stale or duplicate share, or other.
- Lines that parse to nothing the code handles change no state and are left
  out; so are `got_subscribe`, `got_authorize` and the timing of their
  messages, which only steer the output. The back-off before a reconnect is
  time, and left out. Printing under `socket_mutex` is kept where another
  thread can be made to wait by it at a place that matters (`PrintDevice`,
  `PrintFailure`, `ReportReconnect`, `ReportDifficulty`, the report).
- A worker's read of "is there a job" is a wait that either finds one or
  times out, so it is the guard of `TakeJob`; a round that finds none changes
  nothing.
- A line is sent whole or not at all; `LineSocket` is the model of its pieces.
- `submit_id` counts from 0 (from 1000 in the code, to keep it apart from the
  handshake's ids, which are separate kinds of line here).

History variables, which no action reads: `wire`, every submit that left the
socket, with its encoding, session and the share it is an attempt of;
`found_at[w]`, the generation that was current when `w` last found a candidate.

### ShareLifecycle and PoolShares

`ShareLifecycle` is what pool mode promises of a share, in six actions: it is
sent; it is accepted, refused, or refused and sent once more, which is over as
soon as anything was accepted; what is not worth sending is discarded; a
reconnect forgets what is out. `PoolShares` maps `PoolMiner` to it: a share is
named by its first request, its attempts are the submits on the wire, and it is
out while a request of it is in `pending_submits` or with the worker that has
sent it and has still to record it. That the record comes after the send is
thus a difference the mapping hides, and that no answer falls into the gap is
part of what it shows. It is checked without SIGPIPE: a process that is killed
between a send and its record leaves a share that nobody counts.

### LineChannel, LineSocket and LineReader

`LineChannel` is a queue of whole lines, of which the end may be lost.
`LineSocket` has the sockets, the receive buffer, the mutex and every thread
that uses them; `LineReader` adds the mapping from it to `LineChannel` and what
is promised of reading. A line is a few pieces, the last one with the newline; `send`
and `recv` move any number.

| Code | Actions |
|---|---|
| a share, 981-1016 | `StartLine`, `SendPart`, `SendFails` |
| the main thread's first line and its answers | `MainSends`, `SendPart(Main)`, `SendFails(Main)` |
| `read_line`, `wait_readable` | `ReadLine`, `Recv`, `ReturnLine`, `ReturnTimeout`, `ReturnClosed` |
| `reconnect_session` | `Reconnect`, `Close`, `Connect`, `ConnectFails`, `Announce`, then `SendPart(Main)` without the mutex |
| network | `PoolSends`, `Break` |

The mapping: the queue is the complete lines in the buffer and on their way; a
connection that ends takes the end of it. A line that was cut short belongs to
nobody, and must not be joined to the next connection's first one.

### ShareTarget, HeaderHash, CudaLaunch and ScanEngine

`ShareTarget` is the long division of `target_from_difficulty` and the
comparison of words, with fewer words of a smaller base, against the integers
they stand for; difficulties come in halves, so that the fraction that is cut
off exists. `HeaderHash` hashes a header both ways, with the sizes of the code:
on the CPU from bytes, with padding and byte orders, and on the GPU from a
midstate, three words and a nonce. The compression function is the pair of its
arguments, so two hashes are equal exactly when all their messages are.

`ScanEngine` puts them together: a worker, its engine and the kernel's threads.

| Code | Actions |
|---|---|
| `create_scan_engine` | `CreateEngine`, `CreateEngineFails` |
| the worker's round up to the launch; `run_cuda_scan` up to it | `Launch`, `LaunchFails` |
| `sha256d_scan_kernel`, thread by thread | `LoopHead`, `First`, `Second`, `WriteNonce`, `WriteHash` |
| the copy back, and a failure there | `ReadResult`, `ScanFails` |
| the worker's round after the scan | `Judge` |

The kernel finds the header it hashes by the message that results, not by the
job the worker means: with a midstate or a tail of another header, or a nonce in
the wrong byte order, it hashes something else. The copy of the eight words of
the hash is one write, since nobody reads them before the kernel has ended.

### Config, AddressDecoder, SoloStart, Benchmark and Startup

`Startup` is the program from `main` to a running mode.

| Code | Actions |
|---|---|
| `parse_args`, round by round | `ShowHelp`; `CollectPath`, `PathMissing`, `PathsCollected`; `LoadFile`, `LoadFails`, `FilesLoaded`; `SkipConfig`, `SetFlag`, `SetOption`, `ArgumentFails`, `ArgumentsRead` |
| checks and `main` | `Dispatch`, `CheckFails` |
| `run_solo_miner` up to its first template | `StartSolo`, `StartSoloFails`, `verify_rpc_connection`, `getnewaddress`, `DecodeAddress`, `DecodeThrows`, `getaddressinfo`, `getblocktemplate`, `CallFails` |
| `run_pool_miner` up to its connection | `StartPool`, `StartPoolFails` |
| `run_benchmark` | `RunBenchmark`, `BenchStarts`, `BenchStartFails`, `BenchLaunch`, `BenchMerge`, `EndBenchmark` |

The chains of options and keys are two tables (`Options`, `Keys`): a kind of
value, the sections it is written to, and the field. External: what a text
spells as a number (`std::stoi` and its kin), the parts of a URL, the digits of
an address, the cookie files, and a node that answers or does not. What texts
mean is given by functions, so every text in a run has a meaning of its own.
`AddressDecoder` decodes with the radices and bits of the code and smaller
hashes and checksums; the checksum of base58 is some function of the payload,
and which checksum a bech32 text has (its polynomial) is an attribute of the
text. `Benchmark` takes the copy that clears the counter (631) to succeed; every
other call may fail unseen, as in the code, where a launch that failed is counted
as one all the same (670). History: `hashed`, what the kernels that ran have
hashed; `unseen`, the threads of which a launch or the copy failed.

### SoloWork

What a worker of solo mode builds from a template, from getblocktemplate to
submitblock. A digest is what was hashed and whether its bytes are reversed, so
a Merkle root is a term that names everything it commits to. `BlockRoot` is
the node's rule, external: the root of the ids of the block's transactions, in
the order of the hash throughout. The template of the run obeys it.

### NoncePartition and NonceSearch

`split_nonce_space` is a function of the source, so it is an operator here, for
any nonce space; the products of the code stay below 2^64 and do not wrap.
`NonceSearch` is the walk of the workers over a job: chunk by chunk, with the
last one cut, a new extranonce2 after each pass, and the device's index or-ed
above the counter and cut to the width the pool gave. Widths scale with `Byte`
(256 in the code), so that a small instance reaches the ends of the counter, and
goes on past them as the code does: the counter runs into the bits of the index,
or wraps, and work comes again.

A scan that finds a share ends early: a thread returns after its find
(`sha256_benchmark.cu` 301, 318), the others when they see the flag (285-287). The
worker counts and passes over the whole chunk all the same
(`pool_miner.cpp` 951-952). So `Scan` lets a scan with a find hash any part of its
chunk that has the reported nonce in it; which parts the threads can leave is
`ScanEngine`'s subject, and this allows more. History: `tried`, what was really
hashed; `found`, the nonces reported; `pass`, the passes a worker has finished in
its job, where `base_ex2` wraps; `repeated`, the rounds that hashed a nonce hashed
before.

### SoloMiner

`run_solo_miner` from the first template on. `shared_state` is the record of
the code (`tpl`, `gen`, `valid`); `upc`, `next_template` and
`longpoll_supported` belong to the updater, `wpc[w]` and `wl[w]` to worker `w`.
Every critical section of `template_mutex` copies or assigns and takes nothing
else, so it is one step and the mutex is never seen held. `output_mutex` is a
variable because its holder goes on from it to `template_mutex` (1536) and to
itself (1552).

| Code | Actions |
|---|---|
| start, 1566-1577, and end | `CheckEngines`, `Report`, `JoinWorkers` |
| updater, choice of source, 1579-1590 | `ChooseSource` |
| longpoll, 1591-1615 | `NodeAnswersLongpoll`, or `LongpollFails` and `PrintLongpollFailure` |
| polling, 1617-1636 | `PollNow`, `PollLater`, `PollElapses`, then `NodeAnswersFetch`, or `FetchFails` and `PrintFetchFailure` |
| installation, 1639-1660 | `InstallTemplate`, `PrintTemplate` |
| worker start, 1353-1395 | `CreateEngine`, `PrintDevice` |
| worker loop, 1403-1475 | `SeesStop`, `TakeTemplate`, `ScanFindsNothing`, `ScanFinds`, `ScanFails`, `PrintFailure` |
| candidate, 1477-1504 | `CheckStale`, `DropBlock` |
| submitblock and its answer, 1506-1559 | `NodeTakesBlock` or `NodeRefusesBlock`, then `ReportError`, `ReportAccepted` and `InvalidateWork`, or `ReportRejected` |
| second lock, 1552 | `RelockThrows`, or nothing ever again |

The node is external: a tip, a version of its mempool and a coinbase value,
each of which it may change. It answers a longpoll when its template has
another longpollid, and a plain request at once. It takes a block only if the
header extends the tip and commits to the block's transactions, may refuse any,
and its answer may be lost either way.

What is abstracted: a template is `tip`, `txs` and `value`, and its identity is
what the code compares: the longpollid (which names tip and mempool) or tip and
value. A header is the template it was built from; coinbase, Merkle root
and block are `SoloWork`'s, and the node here judges a block as if its header
committed to what it was built from; the extranonce counter is left out (it is
`NonceSearch`'s subject for the pool). `template_poll_seconds` is a sleep that
ends some time. Nothing in the code sets `stop_flag` once the updater runs, so
its cancellation branches (1608, 1627) are unreachable and left out.
History: `found_at[w]`, the generation when `w` last found a candidate; `mined`,
the blocks of ours the node took; `lost`, those whose answer did not arrive.

## The runs

All bounds are constants of the modules; each stands in the guard of the action
it bounds and nowhere else.

| Run | Question | Instance |
|---|---|---|
| `pool_reconnect` | What do workers, a response and the reconnect flag see when the session is replaced at any point, does the encoding settle, and does a share live as promised? (`ReconnectOnlyWhenBroken`, `SendsFoundFresh`, `ResponseFindsPending`, `RejectsAreFresh`, `ModeConverges`, `RetriesOnceFlipped`, `SharesFollowLifecycle`) | two workers, two sessions, two jobs, candidates in flight at both until one is counted, a pool that wants the encoding the miner does not start with |
| `pool_locks` | Do the opposite lock orders meet, is the floor kept, does a fresh share fit its session? (`TypeOK`, `NoCircularWait`, `ScansAboveFloor`, `FreshSharesFit`) | one worker with two chunks and every handler on: report, two difficulties around the floor, failing device, SIGPIPE |
| `pool_live` | Is a lost connection replaced, does stopping drain, is a found share decided? (`Recovers`, `StopDrains`, `SharesAreDecided`) | `FairSpec`, one worker, two sessions, two candidates |
| `lines` | Does reading give whole lines in order, and do sent lines stay apart? (`ReadsAsAChannel`, `LinesAreRead`, `SharesDoNotMix`, `RestComesFirst`) | two workers with a line each, lines of two pieces, two connections, two lines of the pool |
| `search` | When is work done twice, what does the dashboard count, and which nonces does a pass leave out? (`HashesAreDistinctWork`, `PassesAreGapless`) | extranonce2 of one, two, three and five bytes (of two values each), two devices on 5 nonces (an uneven partition, a last chunk that is cut), a job change, a find anywhere, 5 passes |
| `scan` | Does a scan find what there is, whatever was cached and whichever thread wins? (`TypeOK`, `TargetIsExact`, `FindsCandidates`, `ResultIsGenuine`, `NoFalsePositives`, `ScansReturn`) | three words of base 4, three headers of which two share a midstate, two difficulties with a fraction, one or two kernel threads, a look at the flag every second round, four scans, failures anywhere |
| `startup` | Which setting wins, what reaches a mode, whom does the coinbase pay, what does a benchmark count? (`FilesAreTheConfigs`, `ArgumentsBeforeFiles`, `LaunchIsChecked`, `StandardIsLocal`, `PaysTheAsked`, `TotalsWereHashed`, `SuccessIsComplete`) | all pairs of 29 phrases of a command line, with two sets of files or after `--mode pool`; addresses of every form; 7 kinds of credentials, 9 URLs, 0 to 2 devices |
| `solo_follow` | What does the stale check let out, what is a block made of, what is counted, and does the template follow the tip? (`GenerationTells`, `SubmitsFoundFresh`, `BlockFitsHeader`, `AcceptsAreMined`, `TipFollowed`) | `FairSpec`, one worker with two chunks, longpoll, two candidates, one foreign block, a mempool change |
| `solo_polling` | Does invalidated work come back without longpoll? (`WorkReturns`, `TypeOK`) | `FairSpec`, two workers, one of which may fail, a candidate, a foreign block |
| `solo_refresh` | Does invalidated work come back with longpoll? (`WorkReturns`: **violated**) | `FairSpec`, one worker, one candidate, a quiet mempool |
| `solo_rejected` | Does a worker go on after its block is refused? (`ReportsReturn`: **violated**) | `FairSpec`, one worker, one candidate |
| `solo_header` | Does the header of a submitted block commit to it? (`HeaderCommitsToBlock`: **violated**) | two workers, templates of no, one and two transactions |

**Why the bounds are enough.** One share in flight and one being built are
what a retry, a mode change or a replaced session can mix up. `MaxShares`
bounds the shares that were counted, so before that both workers of
`pool_reconnect` have one, and `pool_live`'s single worker has two in turn. A
second job makes a share stale, and a second session makes a pending record
foreign. The three or four generations (`MaxGen`) leave room for a reconnect
that fails before it succeeds, while the flag is up. One unread line
(`MaxLines`) suffices because lines are handled in order by one thread and every
handler ends before the next line is read: a longer queue delays lines and adds
no order of handling that a slower pool does not give. Two chunks (`pool_locks`)
let a worker be in the middle of its partition when the job or the session
changes. The second worker only matters where two workers race for the
encoding, or one sends while the other records; for everything else the proofs
cover any number of workers.

In `lines` two pieces are enough to cut a line, two connections to carry a rest
over, and two workers to have it come from another line. In `search` the
counter of one to three bytes meets the device prefix, or its own width, after
two or four passes, and the fifth pass repeats work: with one byte for both
workers, with three for the second device alone, whose prefix already has the bit
that the counter runs into. With five bytes the counter has eight values below
the prefix, so nothing may repeat here; its repetition is that of the
third byte one place up, and the theorem covers it. One find (`MaxFinds`) ends
one scan early, in any chunk of any pass, before a change of job or a repeat; a
second one would leave a second hole of the same kind. In `scan` a chunk has up to five nonces and the partition six, so that
each thread takes two nonces a round for more than one round, the last chunk is
cut, and headers and difficulties follow each other in any order with failures
in between: four scans are two that differ, a failure being the end of the
worker, and their repetition. In `startup` a setting has at most two options,
two files and a default that could win; the texts of each kind are those at
which a check, a cut to an int or a branch of a decoder turns. In
`solo_header` the first block has no transaction but the coinbase and already
refutes the claim; the larger trees show that it is not the only case.

In solo mode `MaxBlocks` bounds the candidates, `MaxTip` the tip up to which
others find blocks (a block of ours may raise it further), `MaxTxs` the
changes of the mempool. A template is only ever compared with the one before
it, and an installation races with one acceptance at a time, since
`output_mutex` orders the acceptances: two templates and one
acceptance make every race, a second candidate and a foreign block make the
acceptance meet a template that is already out of date. Two chunks let a worker
be in mid-partition when the template changes.

**Symmetry.** Workers are permuted in `pool_reconnect` and `pool_locks`: no
definition tells one from another. The temporal properties of these runs say
what a step may do and need no fairness. The runs with liveness properties
have no symmetry.

**Deadlock** is checked in every run. `Stops` names the only places where the
system may stop: it has ended, or it hangs at `JoinHoldsSocket` (see
Observations); in `SoloMiner`, it has ended, or joins a worker that waits for
itself. `Ended` (`LineSocket`, `ScanEngine`) and `Running` (`Startup`) name
where those models end, `BoundReached` where the bounds end `NonceSearch`.

**Fairness.** Each thread is run by the operating system (weak fairness of
`MainStep` and `WorkerStep(w)`), and a thread that keeps trying for a mutex gets
it some time (strong fairness of the steps that take one): `std::mutex`
promises no order, but the holders here give it back and go off to read a
socket or scan a chunk, so nobody is overtaken for ever. The joint action is
taken for each thread because its program counter leaves one place
at a time to go on from. Nothing is assumed of the pool, of the network, or of
connects succeeding other than through `MaxGen`.

`SoloMiner`'s `FairSpec` assumes the same of its threads and of `output_mutex`,
and of the node that it decides on a submitted block (`NodeDecides`), that a
longpoll it could answer again and again is answered some time
(`NodeAnswersLongpoll`), and the same of plain requests. Calls may still fail
any number of times before that. Without this the code promises nothing: its
calls have no time limit (259). Nothing is assumed to happen at the node by
itself: no foreign block, no change of the mempool.

`LineSocket` assumes that the main thread runs and that a `send` returns; weak
fairness is enough for the mutex, since each worker sends a bounded number of
lines and then leaves it alone. `ScanEngine` assumes that the device runs every
thread of a launched kernel and that the worker then goes on; failures may
happen and need not. The other modules state no fairness.

## The proofs

Every theorem is for all values of the constants: any number of workers, jobs,
sessions, shares, lines, pieces, kernel threads, arguments and files. What the
constants are assumed to be is in named assumptions, which TLC evaluates in the
runs:

| Assumption | Says |
|---|---|
| `ProcsAssumption`, `SoloAssumption` | no worker is the main thread or stands for nobody; there are finitely many |
| `ModesAssumption`, `NumbersAssumption` | types of the constants; at least one chunk |
| `LineAssumption` | the same of `LineSocket`; a line has at least one piece |
| `NonceSpaceAssumption` | the nonce space is not empty |
| `TargetAssumption` | a target has at least two words of a base of at least two, and `kDiff1Target`'s one word fits |
| `SearchAssumption` | a device, a chunk; the values of a byte are a power of two; an extranonce2 has 1 to 16 bytes |
| `LaunchAssumption` | devices are numbers; a device has a grid; a warp has a thread |
| `ScanAssumption` | headers are 80 bytes, and two jobs differ before the nonce; digests are words; a difficulty fits a word; chunk bounds are in order |
| `ConfigAssumption`, `StartsAssumption` | what texts spell is of its kind; arguments are texts; JSON values are of their types; a list of devices, and what the driver answers, is no longer than the nonce space |
| `BenchAssumption` | the nonces for each benchmark thread are a number |
| `AddressAssumption` | the index of a character outside the alphabet is no digit; sizes are numbers; an address is digits of base 58 or values of 5 bits, or such characters |

| Theorem | Module | Establishes |
|---|---|---|
| `TypeCorrect` | `PoolMiner_proofs` | `Spec => []TypeOK` |
| `DeadlockFree` | `PoolMiner_proofs` | `Spec => []NoCircularWait` |
| `FloorKept` | `PoolMiner_proofs` | `Spec => []ScansAboveFloor` |
| `SentWhileFresh` | `PoolMiner_proofs` | `Spec => []SendsFoundFresh` |
| `FlagMeansBroken` | `PoolMiner_proofs` | `Spec => []ReconnectOnlyWhenBroken` |
| `SharesFit` | `PoolMiner_proofs` | `Spec => []FreshSharesFit` |
| `AnswerNeverLost` | `PoolMiner_proofs` | `Spec => []ResponseFindsPending` |
| `RejectsFresh` | `PoolMiner_proofs` | `Spec => RejectsAreFresh` |
| `ModeSettled` | `PoolMiner_proofs` | `Spec => []ModeConverges` |
| `RetriesFlip` | `PoolMiner_proofs` | `Spec => []RetriesOnceFlipped` |
| `SharesRefine` | `PoolMiner_proofs` | `Spec => SharesFollowLifecycle` |
| `LineSafety` | `LineSocket_proofs` | `Spec => []LineInv`, the inductive invariant of the connection |
| `LinesDoNotMix` | `LineSocket_proofs` | `Spec => []SharesDoNotMix` |
| `RestIsFirst` | `LineSocket_proofs` | `Spec => []RestComesFirst` |
| `GpuHashesTheHeader` | `ScanEngine_proofs` | for every header and nonce the kernel's hash from midstate and tail is the CPU's of the 80 bytes |
| `ScanSafety`, `ScanTypes` | `ScanEngine_proofs` | `Spec => []IInv`, `Spec => []TypeOK` |
| `CandidatesFound` | `ScanEngine_proofs` | `Spec => []FindsCandidates` |
| `GenuineResult` | `ScanEngine_proofs` | `Spec => []ResultIsGenuine` |
| `AllConfirmed` | `ScanEngine_proofs` | `Spec => []NoFalsePositives` |
| `TargetExact` | `ScanEngine_proofs` | `Spec => []TargetIsExact` |
| `LaunchChecked` | `Startup_proofs` | `Spec => []LaunchIsChecked` |
| `FilesFound` | `Startup_proofs` | `Spec => []FilesAreTheConfigs` |
| `SettingsKeepOrder` | `Startup_proofs` | `Spec => []ArgumentsBeforeFiles` |
| `RangesMeet`, `EveryNonceHasOneWorker` | `NoncePartition_proofs` | the ranges follow each other without gap; each nonce has exactly one worker, for every count and space |
| `WorkIsDistinct` | `NonceSearch_proofs` | `Spec => []HashesAreDistinctWork` |
| `PassesGapless` | `NonceSearch_proofs` | `Spec => []PassesAreGapless` |
| `TotalsHashed` | `Startup_proofs` | `Spec => []TotalsWereHashed` |
| `SuccessComplete` | `Startup_proofs` | `Spec => []SuccessIsComplete` |
| `PayoutIsAsked` | `Startup_proofs` | `Spec => []PaysTheAsked` |
| `StandardLocal` | `Startup_proofs` | `Spec => []StandardIsLocal` |
| `NothingOverflows` | `AddressDecoder_proofs` | no carry is lost in the bytes set aside for a base58 text, of any length |
| `DecodedSpells`, `SpelledIsDecoded` | `AddressDecoder_proofs` | a base58 text is decoded into some bytes exactly when it spells them and their checksum |
| `ConvertBits` | `AddressDecoder_proofs` | values of 5 bits are converted into bytes exactly when they are their bits and at most four zeros |
| `SoloTypeCorrect` | `SoloMiner_proofs` | `Spec => []TypeOK` |
| `GenerationsTell` | `SoloMiner_proofs` | `Spec => []GenerationTells` |
| `SoloSentWhileFresh` | `SoloMiner_proofs` | `Spec => []SubmitsFoundFresh` |
| `HeaderFits` | `SoloMiner_proofs` | `Spec => []BlockFitsHeader` |
| `AcceptsMined` | `SoloMiner_proofs` | `Spec => []AcceptsAreMined` |

How they go. `PoolMiner_proofs` first shows, for each group of actions that
leaves some state alone, one *frame lemma* that says so; the proofs after it
then split `Next` only into the few actions that can disturb what they are
about and cite a frame for the rest. Each safety theorem then has a
strengthening, since none of the properties but the type invariant is inductive
as it stands.

For pool mode:

- **`SocketInv`** for `DeadlockFree`: a worker owns `socket_mutex` exactly while it
  sends, records or reports a failure, and waits for nothing there; the main
  thread owns it where the code nests. With `TypeOK`, by which only the main
  thread ever holds `job_mutex` across a step, nobody who waits for the main
  thread holds what the main thread waits for.
- **`FloorInv`** for `FloorKept`: the shared difficulty is never below the
  floor, from the first assignment on, because set_difficulty clamps.
- **`FoundInv`** for `SentWhileFresh`: a worker past a successful stale check
  has a generation at least that of the finding; generations only grow.
- **`ReconnectInv`** for `FlagMeansBroken`: while a worker is about to raise the
  flag, the connection is gone, or the main thread has just opened the new one
  and stands before the lock at 1078, where (by `SocketInv`) it waits for that
  worker. Without this part, `SendFailed` after `Connect` breaks the property:
  the lock around a mere `cout` is what keeps the new session alive.
- **`AnswersInv`** for `AnswerNeverLost`: every submit whose answer can still
  arrive (in `outq`, in `inq`, or read) is either recorded as pending or is at
  this moment being recorded by the worker that holds `socket_mutex`; each is
  in one of these places only (`OnceInv`), so its record is not erased by the
  answer to another one. `GenerationInv` says that the generation the handler
  has read is still current, for `RejectsFresh`.
- **`ModeInv`** for `ModeSettled`: an accepted answer, in line or at hand, names a
  submit that was on the wire in the pool's encoding (`AcceptInv`; `WireInv` keeps
  ids from being used twice). A worker reads the mode twice, so a record may
  name another encoding than the one on the wire; but a worker that wrote its
  nonce in the pool's encoding did so when the mode was already that encoding,
  and the mode does not leave it (`WorkInv`), so the record of a share the pool can
  accept is right (`RecordInv`), and the mode an acceptance installs is the
  pool's.
- **`JobInv`** for `SharesFit`, where the pool gives each job an id of its own: jobs
  are installed in the order they were announced (`VersionInv`); a session is not
  subscribed to before its extranonce1 is there (`SessionInv`); a worker's header
  is that of the job with its id, and a generation that is still current is that of
  the job it took (`HeaderInv`).
- **`RetryInv`** for `RetriesFlip`: a submit recorded as a first attempt is the only
  one of its share, one recorded as a second is none of its own (`AttemptInv`); as
  long as nothing was accepted, all but the retries are in the configured encoding
  (`FirstModeInv`); and what is in flight was sent on this connection (`FlightInv`),
  so the retry is on it as well.
- **`LifecycleInv`** for `SharesRefine`, the refinement: it joins the invariants above.
  A request that is out belongs to one share and a share has one request out
  (`PendingApart`), so the map from shares that are out to their attempts
  changes by exactly one share, or stays; then each action of `PoolMiner` is one of
  `ShareLifecycle`, or changes nothing of a share.

For the connection:

- **`LineInv`**: a worker keeps the mutex until its line is sent or has failed
  (`LockInv`); so a line without its end is on a connection that is gone, or is
  the line of the thread that holds the mutex (`OpenInv`); the main thread changes the
  connection without the mutex, but takes it for its announcement before it sends, and
  until then the new connection carries the rest of that one line (`CarryInv`).

For the search space of a job:

- **`SearchInv`** for `WorkIsDistinct` and `PassesGapless`: every hash tried is some
  worker's, by its nonce, and of the job the worker is at or an earlier one; those of
  this job are of a pass it has finished, or of its pass and below where it is
  (`TriedInv`). Two workers then never meet because ranges do not (`EveryNonceHasOneWorker`),
  two passes because extranonce2 values of one worker are equal only when their
  counters are equal modulo its width (`PassesApart`), which below `FreshPasses` is
  never: there the "or" with the prefix adds nothing but the prefix (`OrZero`,
  `FreshPassIs`). A repeat is therefore of a later pass; until there is one, or a
  find, the set of hashes grows by just the nonces of the chunk.
- For `PassesGapless` a worker in mid-partition is at the start of a chunk
  (`PlaceInv`), so the nonces of one scan are one chunk of its partition, and a
  find anywhere in it accounts for all that the scan left (`ScanCovers`,
  `CoveredInv`).

For the scan:

- **The hash** (`GpuHashesTheHeader`): both computations are unrolled, word by word of
  each message, to the same three compressions. The compression stays
  uninterpreted; padding, lengths, byte orders and the place of the nonce are what is
  compared.
- **`IInv`**: the engine holds the header and target of its flags (`EngineInv`), and
  the kernel those the worker means (`DeviceInv`); each kernel thread has looked at all
  its nonces up to where it is, or has stopped for a result (`CoverInv`); one thread
  writes the result, of a nonce it found (`WinnerInv`). Arithmetic of strides (the
  lemmas of `NoncePartition_proofs`) makes the threads' nonces those of the chunk.
- **The target** (`TargetExact`): by induction over the words the remainder stays below the
  difficulty, so no word is cut, and the words so far are the quotient of the
  words so far; and comparing words from the top is comparing the integers.

For the start:

- **`LaunchInv`** for `LaunchChecked`: each option and each key writes a shared field in
  all modes' copies, so they agree at every moment, and a check of the
  benchmark's copy is one of all.
- **`FilesInv`** for `FilesFound`: how far the first pass is and what it has
  collected, which files were there, which options were known. Both passes
  walk over the arguments by ones and twos (`IsWalk`), and can part only at a
  `--config` that is the value of another option. Then the next argument is both
  a file that was loaded and an option that was accepted (`PassesAgree`); that is why
  the property asks that no file is named like an option.
- **`SettingsInv`** for `SettingsKeepOrder`: every setting is what the arguments and
  files so far say. A file sets a field by the last key that it has for it
  (`FileSets`), and only the devices have two keys (`KeysApart`).
- **`BenchInv`** for `TotalsHashed` and `SuccessComplete`: the totals and the
  counters that are not merged yet, counted as pairs of thread and nonce
  (`Pending`), are together no more than what was hashed, and just that while
  no failure went unseen (`SumInv`), as a kernel that runs counts each nonce of its
  chunk once (`CountedAll`). A thread that has left its loop has launched, since its
  range is not empty (`RangeNotEmpty`), and has hashed unless it is one of `unseen`.
- **`PayoutInv`** for `PayoutIsAsked` and `StandardLocal`: for each phase of the start,
  which calls were made, that the address is the one asked for, and that the
  script is what it decodes to, or the node's if it does not decode. The rest is
  about the decoder.

For the decoder, of any text:

- **The number** (`BytesSpell`): the round for a digit multiplies the number that the
  bytes stand for by 58 and adds the digit, because the carries are the quotients
  that a multiplication by hand has (`CarriesAre`, `MultipliedValue`), as long as
  nothing is left over at the end. So what is decoded is what the text spells
  (`DecodedSpells`).
- **The room** (`RoomIsEnough`): 58^n is at most 256^(733 n / 1000 + 1). A number of
  digits is cut into stretches of 71, 15, 4 and 1, which take 52, 11, 3 and 1
  bytes (`Stretches`; 71 is four times 15 and then 11, with what is gained at each,
  `ClimbSeventyOne`). A carry that is left over would mean a number of at least
  256^room (`OverflowIsLarge`), and digits stand for less (`DigitsAreBelow`).
- **One reading** (`SameBytes`): bytes with the same leading zeroes and the same number
  are the same. With the two before, a text that spells a payload and its checksum is
  decoded into it (`SpelledIsDecoded`), and a standard address never gets as far as
  the wallet.
- **The bits** (`ConvertBits`): the bytes that are out and the bits that wait stand, at
  any moment, for the number of the values read (`AllIsHeld`); the accumulator is cut to 12 bits,
  but never below the bits that wait (`LowBits`).

For `SoloMiner`:

- **`GenInv`** for `GenerationsTell`: no worker that uses a template has a
  generation above the shared one. Every change of the template or its validity
  raises the generation, so a worker that was level falls behind for good.
- **`FoundInv`** for `SoloSentWhileFresh`: what was current at a finding is not
  later than what is now; the stale check then compares with now.
- **`FitInv`** for `HeaderFits`: a worker's identity is that of the header it
  has in mid-partition, and of the template it uses; `TakeTemplate` keeps the
  header only at that identity.
- **`MinedInv`** for `AcceptsMined`: the set of workers that hold an acceptance they
  have not reported loses exactly one when it is counted. The count is lost only
  when the process is killed in between.

The library states induction with an operator as its parameter, which the
backends do not take; `NoncePartition_proofs` restates it as a fact about sets (a set of
naturals with 0 and with the successor of each of its members has them all),
from the well-foundedness of `<`. The recursive functions of the model are
unrolled by it.

The strengthenings that the runs could evaluate were model-checked on their
instances before they were proved.

Only model-checked:

- the liveness properties (`Recovers`, `StopDrains`, `SharesAreDecided`,
  `LinesAreRead`, `ScansReturn`, `TipFollowed`, `WorkReturns`): with fairness and
  ENABLED they are out of the prover's reach;
- `ReadsAsAChannel`: its mapping cuts the stream into lines by a recursive operator.

Every other property of the passing runs is a theorem.

## Observations

What the model shows the code to do, for whoever maintains it:

1. *A join under the lock* (1028-1035). When the first mining.subscribe cannot
   be sent, the workers are joined inside the block that holds
   `socket_mutex`. A worker that has still to print its device line waits for
   that mutex, and the process hangs. `JoinHoldsSocket` names the state; it is
   excepted from `StopDrains`, `SharesAreDecided` and the deadlock check.
2. *Three sends end the miner* (1158, 1180, 1275). When mining.authorize,
   mining.suggest_difficulty or a retry cannot be sent, the code raises
   `socket_needs_reconnect` and then leaves the loop with `break`, so the flag
   is never looked at. A failing share or a closed socket does reconnect.
3. *SIGPIPE* (193). `send` is called without MSG_NOSIGNAL and the signal keeps
   its default action: on Linux a send on a reset connection may end the
   process (`SigpipeKills`).
4. *Devices that fail late* (1021). `engine_init_errors` is read once, right
   after the threads start; a device that fails after that is not noticed.
5. *Reused job ids* (882-914). A worker in mid-partition tells a new job by its
   id alone. A pool that uses an id again gets shares of the old header as
   current ones; `FreshSharesFit` is stated for pools that do not (`FreshIds`).
6. *The window after the stale check* (981-995) is real: a share of a replaced
   job can go out. `SendsFoundFresh` says how much can: what was current when
   found.
7. *A torn line on the new connection* (195). `send_line` takes `sock_` anew for
   each part it sends. A share begun before a reconnect can leave its rest on
   the new connection. It is the first thing there (`RestComesFirst`) only because
   the main thread takes `socket_mutex` for its message at 1078: the
   subscription after it is sent without the mutex (1089).
8. *The order of digest and target* (401-417, and `src/src/solo_miner.cpp` 541).
   The first byte of the digest counts as the most significant one, on the CPU
   and on the GPU alike; the network reads a digest from its last byte. The
   model takes the code's order, so `FindsCandidates` is about the share as the
   code defines it.
9. *The Merkle root of a pool job* (463-464) is reversed before it enters the
   header. The pool's own order is not in the repository, so no property says
   more about it; `--debug-pool-header` prints the bytes.
10. *The hash count after a find* (951-952). A scan that finds a share leaves nonces
   of its chunk unhashed, and the worker counts and passes over all of them: the
   dashboard's rate counts hashes nobody computed, and other shares of the chunk
   are lost. `HashesAreDistinctWork` says the count is never less than the work,
   and equal to it without finds; `PassesAreGapless` excepts chunks with a find.
11. *Work that comes again* (892-897). After 2^24 passes in one job (2^16 with two
   or three bytes of extranonce2, 256 with one) a worker hashes the same headers again.
   `HashesAreDistinctWork` says not before.

At the start (`src/src/main.cpp` unless named):

1. *The first pass takes anything after `--config`* (371-381), an option too; the
   second skips the same argument, so both agree on the files
   (`FilesAreTheConfigs`), unless a file is named like an option: `--user --config
   --nonce-submit-be` loads a file of that name, takes `--config` for the user, and
   sets the option. A `--help` that is some option's value is help.
2. *Checks that do not look everywhere* (515-590). `--seconds nan` passes, and the
   benchmark then runs one launch per device; `pool_difficulty` from a file may be
   zero or negative, which the option may not.
3. *An exception nobody catches* (`src/src/address_decoder.cpp` 226). A bech32 text that is
   nothing but a good checksum ends the program by an exception
   (`DecodeThrows`).
4. *A longpoll URI without a port* (`src/src/solo_miner.cpp` 646), such as
   `http://node/lp`, is taken as a path on the RPC endpoint, host included.
5. *A benchmark does not see failures* (`src/src/sha256_benchmark.cu` 624-664). A launch or
   a copy that fails is only missing in the totals, and the benchmark ends well, also
   when a device has run nothing: `SuccessIsComplete` asks for the whole count only
   where no failure went unseen. If the copy that clears the counter (631) fails, the
   total starts from what was in the memory: the model takes it to succeed.
   A thread's partition goes by the id of its device and not by its place in the
   list, so two threads of `--device 1,1` scan the same nonces.

In solo mode (`src/src/solo_miner.cpp`), the first three found violated by a run:

1. *A template too new is thrown away* (1534-1540; run `solo_refresh`). A block of ours
   is accepted, and the node answers the pending longpoll with the template of
   the new height before the worker that submitted has taken `template_mutex`. The
   worker then invalidates that template. The updater waits in the next longpoll
   for something newer still, and `refresh_now` is only read when polling:
   every worker stands still until the node's mempool or tip changes. README.md:223
   says longpoll refreshes work immediately. `WorkReturns` holds when polling.
2. *A mutex locked twice* (1515 and 1552; run `solo_rejected`). When submitblock
   answers with a reason, the worker locks the `output_mutex` it holds. That is
   undefined behaviour: the model lets it wait for ever or end the process.
   Waiting, it also stops every thread that has something to print, the
   updater among them. `Impeded` excepts this from the liveness properties.
3. *The header commits to nothing* (576, 1190-1192, 1230; run `solo_header`). The id of the
   coinbase and every digest of the tree are reversed, while the ids from the
   template are turned back into the order of the hash (958-963). The root in
   the header is not that of the block's transactions, from the coinbase alone
   on.
4. *A long coinbase ends the worker* (1108). When height, `coinbaseaux` and extranonce
   make more than 100 bytes, there is no header, and the worker leaves its loop.
5. *No way out of the loop* (1672). Nothing sets `stop_flag` after the start,
   so 1779-1790 are never reached and the program ends by a signal.
6. *Unlocked reads by the updater* (1578, 1652, 1656) are harmless: it is the only
   thread that writes the template, and the others write `valid` and
   `generation` only.
7. *Weak identity without longpollid* (1047). Two templates of the same tip and
   coinbase value with other transactions have one identity. A worker in
   mid-partition would then join its header to transactions it does not commit
   to; `BlockFitsHeader` claims the transactions only with a longpollid.

## Not modelled

- The compression function of SHA-256 and the polynomial of bech32:
  straight-line arithmetic, covered by known-answer tests in `src/tests`. What is
  modelled is what goes in and what is made of what comes out.
- GPU telemetry and the layout of the tables: output.
- Byte-level HTTP, base64 and JSON (`recv_all`, `parse_notify` and their like): a
  message is modelled by what the code reads from it. The JSON library is
  third-party.
- Difficulties above 2^32 (one word of the model), where the long division
  overflows 64 bits.
- Build and run scripts.

## The plan

1. **BlockLifecycle**: what solo mode promises of a block, and `SoloMiner` as a
   refinement of it.
2. **SoloWork inside SoloMiner**: the header as a term in the interleaved model, so that
   `BlockFitsHeader` and the node's judgement are about what is hashed.
3. **The header of a pool job**: coinbase, branch and byte orders as in `SoloWork`.
