# A verification of SLSFS

SLSFS is a file system for serverless functions. This directory has TLA+ models
of its write path, its directories, its proxy, the membership of its proxies and
its block cache, TLC configurations that check them on small instances, and TLAPS
proofs of what matters most for instances of any size. `PROJECT.json` maps every
definition to the lines it models.

## The system

| Part | Code | What it does |
|---|---|---|
| Client library | `proxy/clients/` | Finds the proxy of a directory on the ZooKeeper ring, sends requests, renames across proxies with lock and unlock requests. |
| Proxy | `proxy/launcher.hpp`, `proxy/worker.hpp`, `proxy/server.hpp`, `proxy/policy/` | Turns each request into a job, binds directories to workers, starts workers through OpenWhisk, reschedules the jobs of workers that close, keeps the table of open files and the locks. |
| Datafunction (worker) | `functions/datafunction/` | Runs jobs: a block cache in front of a storage configuration. Coordinates a two-phase commit for each write. |
| SSBD | `ssbd/` | Block servers on leveldb: a block, and a log with a committed and a pending version for each. |
| Socket writer | `socket-writer.hpp` (three copies) | Queues the packets of a connection and writes one at a time. |

A client learns from ZooKeeper which proxies there are (Membership). Its request
goes to the proxy of its directory (`start_trigger_post`, OpenFiles), becomes a
job (`schedule`, JobDispatch), waits for a worker that the launcher may have to
start (WorkerPool), is written to it (SocketWriter) and passes the cache
(BlockCache). A request on a directory is a read, a computation and a write of
all the files it changes (Directories); a write is a two-phase commit between
the worker and the servers of its blocks (TwoPhaseCommit, PrepareCount), each of
which runs handlers on leveldb (SsbdServer, SsbdBlock).

All processes run Boost.Asio with several threads (the worker with up to four,
SSBD and the proxy with one per core). Where the code is safe only if handlers
follow one another, the property says so and the hazard list names the line.

## Modules

| Module | Models | State and steps |
|---|---|---|
| `SsbdBlock` | `persistent-log.hpp`, the prepare and commit handlers of `ssbd/main.cpp` | Operators on one block: its bytes, committed version, pending version and pending data. `AfterPrepare`, `AfterPrepareQuick`, `AfterExecute`, `AfterRollback` are what a handler leaves. |
| `TwoPhaseCommit` | `start_2pc_prepare`, `start_2pc_commit`, `backend-ssbd.hpp`, the server handlers | A file's blocks, a pair of FIFO pipes for each worker and block, and for each request the counters, the flag, the 30 s timer, the answers and the decision. One action per handler; worker crash and server restart. |
| `AtomicFile` | the promise to writers | A write takes effect on all its blocks at once or not at all; a crash can cost each block the last write. |
| `PrepareCount` | the counter in `start_2pc_prepare` | The loop and the response handlers on several threads, each access to the counter a step. |
| `SsbdServer` | the handlers of `ssbd/main.cpp` | Each leveldb `Get` and `Put` a step, on one or more threads, with a crash between any two. |
| `AtomicBlock` | the promise of a server | Each handler takes effect as a whole, by the operators of `SsbdBlock`. |
| `SocketWriter` | `v1::socket_writer` | The queue, `is_writing_`, the writes under way; `Push`, `CheckWriting`, `Raise`, `Pop`, `Lower` are the single accesses. |
| `JobDispatch` | `launcher.hpp`, `worker.hpp` | Posted handlers, bindings, `started_jobs_`, the connection and the writer of each worker. |
| `OpenFiles` | `start_trigger_post` and the answers to open and rename | Extends `JobDispatch` with `opened_files`, `locked_files_for_open` and `locked_directories_for_rename`. |
| `WorkerPool` | `launcher-policy.hpp`, `worker-launch.hpp`, `fix_pool`, `max_queue`, `trigger.hpp` as the pool sees it | Extends `JobDispatch` with the counters of the launch policies, the notes that are posted to them, the triggers on their way, and workers that come from other proxies. |
| `BlockCache` | `caching.hpp`, `start_job` and `start_storage_perform` of `proxy-command.hpp` | The map of cached blocks, the LRU list and its mutex, the accessors that requests hold; a step is a piece between two locks. |
| `Directories` | `start_perform`, `start_perform_metadata` and what they call in `storage-conf-ssbd-backend.hpp`; the requests of `Client::rename_file` | Blocks of cells on the servers, pipes, and for each request its reads, the parts of a rename, the files it writes, its two-phase commit and both kinds of timers. One action per handler. |
| `NameSpace` | the promise to clients | Each request takes effect in one step on directories that are sets of names with sizes. |
| `Membership` | `zookeeper.hpp`, the start and end of `proxy/main.cpp`, `clientlib-zookeeper.hpp`, `reconfigure` of `clientlib.hpp` | The nodes in ZooKeeper, the process on each host, calls of `start_check_alive` step by step, and for each client its watch, cache and connections. |

`MC*.tla` give the instances. Definitions whose name ends in an underscore and a
word (`Agreed_unlessAbort`) are slips: plausible mistakes in the definition that
follows them, kept to show that the properties notice them. No specification
uses them.

### What is abstracted

* Bytes. A block has a few parts, and a part is identified by the request that
  wrote it; in the cache also by its file and position. The merge of new bytes
  into a block, the cut of a range into blocks and the cut of data into cached
  blocks are modelled as they are done.
* Messages are records. The salt of a header, by which a worker finds the
  handler of a response, is the request and its phase.
* A worker has one connection to each server. A block has one server, so the
  connection is one pair of pipes for each worker and block.
* `version()` is a truncated clock: two requests may have the same version, and
  the instance has two that do.
* A server that restarts loses the requests in flight to it; of its responses a
  prefix arrives.
* A cell of a directory is one entry or the header. The sizes of files and of
  reads are in cells, so that a directory or a file may end inside a block.
* ZooKeeper serves the requests of a session one after another. That 20 s have
  passed since a node was written is a step (`Age`), which a proxy that runs
  allows only if it is late.
* A trigger of OpenWhisk has a function connect some time, or is lost.
* A request may be answered twice: its 30 s timer answers with an error
  (`storage-conf-ssbd-backend.hpp:754`) and the servers' answer is passed on when
  it comes (`823`). In the proxy (`AnswerTimeout`) and in the cache (`Answered`)
  the two come in either order; in the cache they are handled one after the
  other.
* What the cache gets of a read that failed or was short is noise
  (`Garbled`), all of it: the copy reads past the end of the answer
  (`caching.hpp:534`). If it crashes the worker instead, the behaviour ends there.
* The integers of `max_queue` keep their widths, as constants: `LongLimit` stands
  for 2^64 in the unsigned division of `queue_size_`, `IntLimit` for 2^31 where
  the quotient is cut to an int (`Cut`).
* The id of a proxy comes from its `--server-id`. One without it has an id from
  its announced address (`proxy/main.cpp:85`), and never keeps it when another
  proxy starts it again, with a `--server-id`.

## Runs

| Run | Question | Instance |
|---|---|---|
| `two_phase_commit` | Do overlapping writes of several workers stay consistent? | Three requests of two workers on two blocks of two parts; one crosses the boundary, two write the same part, two share a version. Two timers may expire, one server may restart. |
| `two_phase_commit_live` | Is every request answered? | Two requests; one worker may crash, one server restart. |
| `two_phase_commit_atomic` | Is the protocol an atomic file when requests do not overlap? | Four requests, the file moving to a second worker when the first crashes. |
| `prepare_count` | What if responses overtake the loop that counts them? | Four blocks, one and three threads. |
| `ssbd_server` | Are the handlers of a server atomic? What do threads and crashes do? | Three requests (one quick) on a block of two parts; one thread without a crash, two threads with one. |
| `socket_writer` | Are packets written once, one at a time, and all of them? | Four packets, a connection that may break, one thread. |
| `worker_pool` | Is a job ever lost? Do the policy's counters mean what they should? Is every job answered though there is no worker at first? | Two jobs of one directory, two workers of which one may crash, also inside an answer, or deregister; `fix_pool` of one and of two, the latter with a lost trigger and a worker of another proxy; `max_queue` with a lost trigger, and with a request that a timer answers first. |
| `open_files` | Do the tables agree with what clients hold and workers do? | Nine mixes of up to four requests on a file: with two workers, one of which may crash, and an open and a deletion also with a timer that answers first; and, with timers and one worker, two opens, a close and a deletion, and a rename and another request. |
| `block_cache` | Is the list right, are reads right, does every request finish? | All loads of three out of eight requests on three files in two directories; room for two blocks; one and two threads. Two loads with a write that does not begin its file, and seven with a read or a write that the storage may fail, or answer twice. |
| `directories` | Do requests that do not overlap see an atomic name space? What do timers and overlap do? | All pairs of eleven changes on two directories, and a listing at any time; the same with a directory that has still to be made, and with other looks; the timers of three changes; three pairs that overlap on two workers. A directory has its header and two entries in its first block, so a third entry needs a second read. |
| `membership` | Does the ring repair itself? Do clients learn of proxies? | Three proxies with two crashes; two with crashes, a late heartbeat and a failed launch; two with a clock that is ahead; one whose place is not in hundredths; three, a client and a shutdown. |
| `directories_rename` | Does a rename leave the other files alone? | A client's rename of one of two files; see Findings. |

What they show:

* **Two-phase commit.** A request is executed only if the server of every block
  agreed (`DecisionFollowsVotes`); a client is told at most one outcome and at
  most one timeout, and the outcome is what the servers are told
  (`AnswersMatchDecision`); a pending log, which turns ordinary prepares away,
  always belongs to a request that has still to be settled (`NoOrphanedLog`);
  blocks show only bytes their server agreed to (`VisibleWasPrepared`); replicas
  are made after the commit of all blocks that still have a connection
  (`ReplicationAfterCommit`). Requests that do not overlap see an atomic file
  (`ImplementsAtomicFile`), although the client hears OK before the commit is
  sent; what an early OK can cost is in `AtomicFile`: a crash may take the last
  write of a block. Overlapping requests do not see an atomic file: a quick
  prepare replaces another request's log.
* **Counting.** On several threads `*outstanding_requests` can reach 0 before
  all blocks are counted. The last decision is still the one all votes call for
  (`LastDecisionRight`), but only one thread gives one decision and one answer
  (`OneDecision`).
* **Server.** On one thread the handlers are the atomic operators that
  `TwoPhaseCommit` uses (`ImplementsAtomicBlock`). On two threads or with a
  crash between two puts, what is left is that a block shows only bytes of
  requests it agreed to (`OnlyAgreedVisible`).
* **Socket writer.** `NeverWedged` and `EachPacketOnce` are proved for any number
  of threads; `OneWriteAtATime` and `EveryPacketHandled` need one, because
  `is_writing_` is tested and set in two steps.
* **Jobs and the pool.** On one io thread no job is forgotten (`NoJobLost`).
  `starting_worker_count_` is what was asked for and has not connected, and stays
  too high for ever by the triggers that were lost (`StartsCounted`); with more
  than one look at the pool and notes on their way a fixed pool is still not
  overshot (`PoolNotOvershot`); `queue_size_` stays within what the unanswered
  requests can come to (`QueueCounted`), but is not exact and may be negative.
  Then the unsigned division makes a negative or a very large number of workers
  of it; no more triggers are sent than may be outstanding all the same
  (`TriggersBounded`).
  Every job is answered (`PoolAnswers`), unless as many triggers are lost as
  may be outstanding, or the job is with a worker whose connection broke inside
  an answer: `start_read_body` never closes that worker.
* **Open files.** What was granted and not closed is never uncounted, whatever
  crashes or is answered twice, and the count is exact until a worker closes
  (`OpensCounted`); no lock outlives its requests (`NoGhostLock`,
  `NoGhostDirectoryLock`); and a file that is being opened is not deleted as long
  as no other open of it has been granted or answered twice
  (`NoDeleteWhileOpening`).
* **Cache.** The list accounts for its bytes on any number of threads
  (`ListAccounted`); cached blocks are in the list on one thread
  (`CachedAreListed`), though a node may have a smaller size than its block;
  reads of whole blocks, in directories with one file, return bytes the file had
  at that place, or what a request for the place that failed has left in the
  cache (`ReadsAreOfTheFile`); on one thread all requests finish
  (`EveryRequestDone`). Each restriction stands for a hazard that is listed.
* **Directories.** Requests on the same files that do not overlap refine
  `NameSpace` (`ImplementsNameSpace`), though a request is answered before its
  commit is carried out, reads a directory twice when it has grown, and a rename
  reads two files side by side. Names are unique (`NamesUnique`) but for a
  rename onto a taken name within a directory. Timers and late answers never
  make a request write twice or succeed twice (`OnceAtMost`), and none is left
  waiting (`NobodyWaits`).
* **Membership.** Two proxies check the same one only if they saw different
  lists (`WatchedByOne`); a client that has handled its events knows every proxy
  (`NoJoinMissed`), but for one that came between its constructor's
  `reconfigure` and its first watch; and while one proxy runs on, all crashed
  ones run again in the end (`RingRepaired`), if their places are in hundredths
  and no clock is ahead.

The restrictions to one thread, to whole blocks and to one file in a directory,
and the exceptions for what was granted, answered twice or failed, are all needed:
without any one of them TLC finds a counterexample to the property that has it.
For `EveryRequestDone` without whole blocks that takes a fourth request: a read of
a whole file, a smaller write to its first block, a small write that fills the
cache, and another read of the first block, which waits for itself.

Deadlock checking is off because each instance has finitely many requests and
faults and stops when they are done; that they are is what the liveness
properties and `NobodyWaits` say.

### Bounds

Two blocks are needed for a request to be half prepared, and two parts for
requests that touch a block without overwriting each other. Three requests let
the third meet what two left behind. Two workers are needed for a
job to move and for a file to change hands. The cache has room for two blocks
and files have two, so a third block evicts. Four packets, and four
blocks in the counter, let a handler overtake another twice. Two directories
are needed for a rename, three requests for two changes and a look between them;
file `b` has two blocks and `a` one. Three proxies are the smallest ring in which
the watcher of a crashed proxy can crash as well; two calls of
`start_check_alive` of a proxy can overlap (`MaxChecks`). Numbers of timers,
crashes and restarts are bounded by the constants that name who may fail
(`Expires`, `MayCrash`, `MayRestart`, `MayLeave`, `MayTruncate`, `MayBreak`) or
by the fields of a scenario (`lose`, `join`, `slow`, `workers`, `fails`, `expires`,
`crash`, `late`, `fail`, `stop`); a job has `MaxTimeouts` answers of timers on
their way at a time, which is one in the instances. A worker fails at most once,
and so does a connection to a server, because nothing reconnects it. `LongLimit`
is 64 and `IntLimit` 8, which let a negative queue become a negative number of
workers with one `max_average_queue_` and a large one with another.

The larger instances have between 124 000 (`worker_pool`) and 569 000
(`open_files`) states. `open_files` has two opens, a close and a deletion with one
worker only, for the number of states; a worker crashes in the mixes of two opens
and a close, and of an open and a deletion.

### Fairness

Weak fairness of handlers whose event has happened: an `io_context` with a
running thread eventually runs them. For the timer, that it expires. For the
worker (`Answer`) and the server handlers, that a live process answers, if only
by its timer. For
a trigger, that a function connects or the trigger is lost; the instance has one
worker that neither crashes nor leaves. The launcher looks at its pool, and a
proxy beats, again and again: both are timers that set themselves again. In
`Membership` also that time goes on for the node of a proxy that is down. None
for failures, and none for clients. `BlockCache` assumes only that some thread
goes on.

## Findings

* `directories_rename`: after a rename the client unlocks the old parent
  (`client.hpp:289`). The unlock request, like the lock request, is built with
  `meta_operation_t::init` (`clientlib-packet-create.hpp:110` and `83`), which a
  worker carries out by writing a directory without entries. The old parent
  loses its other files.

Deviations that a property names as an exception, met while modelling:

* The first open that succeeds erases the lock of all opens of the file that are
  under way (`launcher.hpp:295`); a deletion may then come between.
* An open that was answered and counted is rescheduled by `close()` of its worker
  (`worker.hpp:89`) and counted again; the file stays open.
* An open that its timer answers with an error, and the servers later with
  success, is counted (`launcher.hpp:274`) though its client was told that the
  file was not found; one that fails twice is taken off the lock twice, and a
  deletion may come while another open is under way.
* A negative `queue_size_` is divided as an unsigned number
  (`worker-launch-max-queue.hpp:27`): `ideal_worker_count_` may be negative or
  very large.
* `emplace` does not replace a cached block (`caching.hpp:519`); reads after a
  write get the old bytes. The node gets the size of the last request, so that
  the list may count fewer bytes than the map has.
* Whatever answers a read is cached as its data (`proxy-command.hpp:546`), the
  text of a timeout too, and a write also when it was refused (`530`); later
  reads get that.
* With two io threads a job can be written to a worker whose failed write has
  closed it and not lowered `is_writing_` yet, and is not rescheduled.
* A rename within a directory does not look whether the new name is taken
  (`storage-conf-ssbd-backend.hpp:1575`).
* `get_details` answers 0 for the flag of a proxy that it has in its cache
  (`zookeeper.hpp:342`, `clientlib-zookeeper.hpp:106`), so a client drops a proxy
  that runs at the first event after it was seen.
* `local_zk_diff_` is added where it should be subtracted (`zookeeper.hpp:249`).

## Proofs

| Module | Theorem | For |
|---|---|---|
| `TwoPhaseCommitProofs` | `TypeCorrect`, `VotesDecide`, `LogsAccounted`, `OnlyPreparedVisible`, `OutcomesAnswered`, `ReplicatesCommitted` | `TypeOK`, `DecisionFollowsVotes`, `NoOrphanedLog`, `VisibleWasPrepared`, `AnswersMatchDecision`, `ReplicationAfterCommit` |
| `SsbdServerProofs` | `AgreedBytesOnly`, `HandlersAreAtomic` | `OnlyAgreedVisible`, the refinement `ImplementsAtomicBlock` |
| `SharedStateProofs` | `WriterTypeCorrect`, `WriterNeverWedged`, `WriterEachPacketOnce`, `SingleThreadExclusive` | the types of `SocketWriter`, `NeverWedged`, `EachPacketOnce`, `OneWriteAtATime` |
| | `LastOneDecides`, `DecidedOnce` | `LastDecisionRight` and `OneDecision` of `PrepareCount` |
| | `Typed`, `RelaunchKeepsId`, `Watched`, `NoneMissed` | `TypeOK` of `Membership`, the arithmetic of ids, `WatchedByOne`, `NoJoinMissed` |
| `BlockCacheProofs` | `CacheAccounts`, `CacheListsCached`, `CacheAnswersRight` | `ListAccounted`, `CachedAreListed`, `ReadsAreOfTheFile` |
| `WorkerPoolProofs` | `PoolTypes`, `JobsKept`, `StartsAccounted`, `TriggersAreBounded`, `NeverOvershot`, `QueueAccounted` | the types of `WorkerPool`, `NoJobLost`, `StartsCounted`, `TriggersBounded`, `PoolNotOvershot`, `QueueCounted` |
| `OpenFilesProofs` | `TableTypes`, `LocksReleased`, `DirectoryLocksReleased`, `OpensAreCounted`, `NotDeleted` | `TypeOK`, `NoGhostLock`, `NoGhostDirectoryLock`, `OpensCounted`, `NoDeleteWhileOpening` |

**Two-phase commit.** The theorems assume `ConfigAssumption` and the assumption
of `SsbdBlock`: a finite set of blocks, and constants of their types. They hold
for any number of requests, workers, blocks, crashes, restarts and expired
timers. `DecisionFollowsVotes` is not inductive: a coordinator counts responses,
so a decision follows the votes only if each response is counted once, for the
right block. `IInv` says where the messages of a
request are. Each exchange, a prepare or a decision of a request on a block, has
at most one message in the pipes of its connection (`PipeInv`); a request in
flight has not been carried out (`ReqInv`); a response in flight has not been
counted, and an agreement in flight is the server's vote (`RespInv`); the
counters are the number of blocks not heard from, and `*all_ssbd_agree` speaks
for those heard (`CoordInv`). The coordinator keeps it, from sending the prepares
to counting the responses to the decision; the server handlers give only answers
that keep it; and so do crashes and restarts. The history variables `heard`, `acked`, `vote` and
`done` are what the invariant speaks of. Three invariants on top of it are about
more than the messages:
`LogInv`, that visible and logged bytes are all of requests the server agreed to,
on parts they write (the log has to be included because an execute makes it the
block, whoever wrote it); `AnswerInv`, that the timer is the only one to answer
with a timeout; and `ReplInv`, that a response to a decision, in flight or
counted, comes from a server that carried it out or from a broken connection.

**SSBD server.** For any requests, versions, parts of a block and any number of
threads, with a crash between any two leveldb calls. `ServerInv` says which calls
a handler can have left, and that no copy a handler holds has bytes of a request
that did not agree: `OnlyAgreedVisible` speaks of the block, but a handler writes
back what it read earlier. The refinement is of a server that runs its handlers
one after another and does not crash (`Serial`). `SerialInv` says for every list
of calls left what the handler has made of the block it found, `before`; then the
last call of a handler is the step of `AtomicBlock` (`Finished`), and every other
one a stuttering step. It connects the operators of `SsbdBlock`, which
`TwoPhaseCommit` uses for a handler as a whole, with the calls of the code.

**Socket writer.** For any packets and threads; `SingleThreadExclusive` takes
`Threads = 1` and shows that the writes under way and the thread about to start
one are together at most one.

**The counter of `start_2pc_prepare`.** For any number of blocks and threads
(`CountAssumption`). The counter can reach 0 early, when the responses overtake
the loop, and then a decision is made too soon. `CountInv` says that the counter
is what the loop counted less what the handlers counted down, whatever their order,
so that the one who counts down last, after the loop, finds it at 0; and that
nobody can be missing from `*all_ssbd_agree` by then. On one thread the handlers
come after the loop, one after the other (`OneOK`).

**Jobs.** `JobDispatchProofs` has what the two modules on top of `JobDispatch`
share: types, and `Held`, the invariant behind `NoJobLost`. `NoJobLost` is not
inductive: a job in the hands of `process_job` is safe only if the worker chosen
for it is still one whose end will be noticed when the job is written to it.
`Held` says that it is valid until then, that a valid worker is being read or
stranded, and that an unanswered job in `started_jobs_` is with a valid worker
or has its answer posted. It needs one io thread
(`JobsKept` assumes `Threads = 1`): with two the property does not hold.

**Pool.** For any finite set of workers, any scenario and any limits
(`PoolAssumption`). `PoolInv` adds to the types that no more workers came unasked
than have arrived from other proxies; `StartsCounted` and `PoolNotOvershot` are
inductive on top of it, because they count the posted notes with the counters
they will change. `TriggersBounded` follows from `StartsCounted` and `Outstanding`,
that `starting_worker_count_` and the notes that will raise it stay within the
limit: a look at the pool asks for no more than `can_start`, whatever number of
workers the policy wants, and every other step leaves the sum or lowers it. `QueueAccounted` assumes that there are finitely many requests,
as the sum needs. `NotesOK` says that a request's note is handled at most once and
an answer's not before it is given; then a step adds a size to the queue and to
one request's share, or takes one off both, or spreads the shares. The lemmas on
sums (`TotalGrows`, `TotalKept`, `TotalZero`) need induction over the set of
requests. It is done with a smallest set that refutes the claim, which exists
because strict inclusion of finite sets is well-founded.

**Open files.** For any finite set of requests (`OpenFilesAssumption`) and any
workers. The locks are bounded by the requests under way only if a worker never
has, and never answers, a request that was not sent to it: `Asked`, which is kept
when `close` posts jobs again. `Tallied` says, through crashes, timers and reschedules, that the count of a file
is at least that of the opens granted less those closed, and that until an open of
the file is granted or answered twice (`Settled`) each one with a worker has its
part of the lock, which is why a delete finds it. The count is exact only as long
as no worker closes. `Places` says that until then every job is in one place on
its way to a worker and back (`At`), so that the servers' answer is read once,
though a timer's may have been read before; `Exact`, that the count is right then.

**Membership.** For any hosts, clients and scenarios in which the ids of two
hosts differ, also after a relaunch (`MembershipAssumption`). `Ring` says that a
check is of the node that follows its proxy's in the list it saw; that no two
proxies of a list have the same node after them (`FollowingInjective`) gives
`WatchedByOne`. `Known` says of clients that have not yet begun to watch, too,
what they can have missed.

**Block cache.** For any requests, directories, files, numbers of threads, and
sizes of blocks, files and of the cache (`BlockCacheAssumption`: a block fits into
the cache, requests lie within their files). `BlockCacheInvariant` has three
invariants and shows for every step that it keeps them.

* `CacheInv`, behind `ListAccounted`: where each request is in its loop over the
  blocks (`Going`, `Placed`), and that the holder of `mtx_` is alone and the block
  it sets has no node until it is done (`MutexOK`), because `set` has deleted the
  old one. So `addnode` never makes a second node, and eviction always finds a
  last entry as long as there is no room.
* `OneThread`, behind `CachedAreListed`: a block in `caching_map_` has a node, but
  for the one that is being set. What makes it inductive is the new map of
  `write_to_cache`, whose blocks get their nodes before the map is published: the
  nodes it has set so far are at the head of the list, in order, with the sizes of
  whole blocks (`Heading`), so that as long as the request is not larger than the
  cache none of them is evicted.
* `BytesOK`, behind `ReadsAreOfTheFile`: every byte that the storage has, that a
  cached or a new block has, or that a request has collected or was to write, is of
  the file of its key and of the right position, and was in the storage at some
  time or was left by a failed request for that position (`Right`, `Known`). Only requests for whole blocks give this: the cut of a request
  into blocks then starts where a block does (`WholeIds`, `ChunkFull`).

The lemmas take three facts about sums over the list and about finite sets as
hypotheses (`ListSums`, `EvenSums`, `FiniteSetFacts`); `BlockCacheProofs` proves
them and concludes the theorems without them. They are apart because the theorems
of the library about finite sets slow the prover down in every step of a module
that extends them.

Only model-checked: the liveness properties (`EveryRequestAnswered`,
`EveryPacketHandled`, `PoolAnswers`, `EveryRequestDone`, `RingRepaired`), since
fairness is out of the prover's reach; the refinements `ImplementsAtomicFile` and
`ImplementsNameSpace`, which need an invariant that ties the logs and messages of
every block of a request together; and the invariants of `Directories`, for which no
inductive invariant has been worked out yet.

## Not modelled

| Part | Why |
|---|---|
| `active-load-balance` | Takes a binding back by counts that `execute` clears every second. `JobDispatch` keeps a binding until its worker closes; `lowest_load` and `random_assign` are covered, because it allows any choice of a valid worker. |
| Keepalive policies, the five other launch policies | Floating-point averages of arrival times. They set a timer in the workers, whose end is `worker_dereg` at any time; the deployment scripts start `fix_pool` and `max_queue`. |
| `server.hpp` topics, the direct connection from client to worker | Pass packets on; no state is shared with what is modelled. |
| `launcher.reconfigure` | What it sends to workers is seen by the other proxy as a worker that comes unasked (`WorkerJoins`). |
| `reset()` of `--new-cluster` | Runs before there is a cluster. |
| The blocks in a cache transfer, FIFO eviction | `BlockCache` is the cache of one worker. What the proxy does with the tables of a worker that leaves is in `JobDispatch` (`transfer_requests`). FIFO replaces the LRU list, the default, by a queue. |
| Placement of replicas, the replication request, the older direct writes of SSBD | Best effort: nothing waits for it and no read uses it. When it starts is `ReplicationAfterCommit`. |
| Sending of a client's request | Blocking code of one thread. |
| Serialization | Fixed-layout copies; messages are records. |
| OpenWhisk's HTTP client, Cassandra, Swift | Calls of a library. What a trigger does is in `WorkerPool`. |
| Older SSBD backends, `v2::socket_writer` | Not instantiated. |
| Vendored code (`zookeeper-cpp`, `cppcodec`), `trace-emulator/proxy` (an older copy of the proxy), benchmarks and scripts | Not this system's code, or no part of it when it runs. |

About two thirds of the C++ in the repository is of the last kind or a copy of
the same headers under another directory. A definition is mapped to one copy of
the code it models, the one that is built into the part it belongs to.
