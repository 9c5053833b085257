# Verification of the dynamic graph stores

The repository compares ten storage engines for graphs that change while they are
read. Each engine is a system of its own under `src/sys/`; they share nothing but the
benchmark drivers' shape. This directory holds TLA+ models of the engines' concurrent
cores, the TLC configurations that check them on small instances, and TLAPS proofs of
what matters most for instances of any size.

Three engines are modelled, those in which threads meet on more than a lock. LiveGraph
comes first: it has the richest concurrent core (transactions, group commit, a
multi-version store with garbage collection, its own lock and its own allocator) and is
small enough to model whole. Aspen's versioned graph, Teseo's transactions and the latches of
its storage follow.
Paths below are relative to `src/sys/`.

## 1. Inventory

### LiveGraph (`livegraph/`)

| part | state | operations | who it talks to |
|---|---|---|---|
| commit manager, `include/core/commit_manager.hpp` | two queues with their mutexes and condition variables, sequence numbers, `global_epoch_id`, `writing_epoch_id`, a FIFO of per-epoch counters, the log file | `register_commit`, `finish_commit`, the server thread's loop, the destructor | called by `Transaction::commit`; `global_epoch_id` is read by every begin and by compaction |
| vertex lock, `include/core/futex.hpp` | a word and a count of users per vertex | `lock`, `try_lock_for`, `unlock`, `clear` | the kernel's futex; taken by writing transactions and by compaction, cleared by `new_vertex` |
| block manager, `include/core/block_manager.hpp` | an atomic cursor, the file's size, per-thread and shared free lists | `alloc`, `free` | every version, edge block and label block is a block; transactions, aborts and compaction return blocks |
| transactions, `src/transaction.cpp`, `include/core/transaction.hpp` | per transaction: id, snapshot epoch, caches of pointers, of blocks, of new and recycled ids, locks held; per vertex: the newest version | begin, `get/put/del/new_vertex`, `put/del/get_edge`, `get_edges`, commit, abort | all of the above, and `Graph`'s tables |
| graph, `src/graph.cpp` | id counter, epochs in use by thread, vertices to compact by thread, recycled ids | begins, `compact` | transactions |
| edges: `src/transaction.cpp`, `include/core/edge_iterator.hpp`, `include/core/blocks.hpp`, `include/core/bloom_filter.hpp` | append-only edge blocks, a label block per vertex | as above, plus the iterator | transactions, compaction |

What is hard, and what makes each part correct:

* *Commit manager.* Any number of committers against one server, with a queue that is
  swapped under them; groups are logged, then install their writes in any order; epochs
  must become readable in order and only when complete. A commit must be neither lost,
  nor logged twice, nor acknowledged before it is on disk, and must return.
* *Vertex lock.* The unlock skips the wake-up when its own decrement says nobody is
  left; timeouts and signals race with that decision. Mutual exclusion, an exact count,
  no lost wake-up.
* *Block manager.* Lock-free bumping, an unlocked test of the file's size, growth that
  may fail. No byte has two owners, none is lost, a block handed out lies inside the file.
* *Transactions and compaction.* Readers walk version chains without any lock while
  commits put versions on top, stamp them one at a time, and compaction frees the tails.
  Snapshot reads, first committer wins, reads of one's own commits, no dangling pointers,
  no garbage forgotten. The weak spots are the begin, which loads an epoch before it
  publishes it, and the recycling of ids, which acts outside the transaction.
* *Edges.* The same for appended entries, whose number and length are published with one
  16-byte store, and for whole blocks copied by growth and by compaction.

### Aspen (`aspen/include/graph/versioned_graph.h`, `include/lib_extensions/sequentialHT.h`)

A table of live versions (timestamp, word of timestamp and count, root) and the counter of
timestamps. One writer inserts a version and then publishes it; any number of readers
acquire the latest and release it; whoever drops the last reference to an old version
frees its tree and gives its entry up. The word is changed by compare-and-swap, but the
key beside it and the root are plain. Hard: entries are used again while threads refer to
them, and both "is it the latest" and "is it the last reference" may change between the
look and the act. Correct when what a reader holds is alive, the latest version can always
be acquired, no old version leaks, and acquiring is lock-free as the code says.

### Teseo's transactions (`teseo/src/transaction/`, `src/context/`, parts of `src/memstore/`)

| part | state | operations | who it talks to |
|---|---|---|---|
| transactions, `transaction_impl.cpp` | id, state, undo records, two reference counts | begin, commit, rollback, `can_read`, `can_write` | the global counter, their thread's list, the items they wrote |
| active transactions, `transaction_list.cpp`, `thread_context.cpp`, `global_context.cpp`, `timer_service.cpp` | a list per thread, cached sequences of active ids | insert, remove, snapshot | pruning |
| undo chains, `undo.cpp`, `data_item.hpp` | per item: the value in place, the chain, its length in three bits | push, prune, roll back | writers, readers, the merger and rebalancing |
| updates, `memstore.cpp`, `sparse_file.cpp`, `remove_vertex.cpp` | vertices and edges in both directions | insert and remove, of several items in several critical sections | all of the above |

Hard: visibility is computed from *another* transaction's id and state, which change when
it commits; readers walk chains that writers extend, rollbacks shorten and prunes cut in
the middle; pruning uses a sequence that is out of date; an update of an edge, or the
removal of a vertex, is several critical sections of which a later one may be refused.
Correct when reads follow snapshots, no update is lost, the two directions of an edge
agree, and a transaction's memory lives exactly as long as its records are referred to.

### Teseo's segments and crawlers (`teseo/src/memstore/segment.cpp`, `src/rebalance/crawler.cpp`)

| part | state | operations | who it talks to |
|---|---|---|---|
| segment latch, `segment.cpp`, `segment.hpp`, `wake_list.cpp` | a word (writer, rebalancer, waiters, readers, version, invalid), a queue of sleepers with what they want, the request to rebalance, its crawler | enter and exit for readers, optimistic readers, writers and rebalancers, `prune`, `wake_list_next` | scans, updates, service threads, the merger |
| leaf latch, `leaf.hpp`, `crawler.cpp` | active or not, a queue of crawlers | `leaf_xlock`, `leaf_xunlock` | crawlers |
| crawlers, `crawler.cpp`, `spread_operator.cpp`, `merge_operator.cpp` | a window of segments, promises to wait for, can continue, can be stopped | `make_plan`, `lock2merge`, `acquire_segment`, release | the segments they own and each other |

Hard: a waiter is woken by whoever leaves, and what it wants decides who else may be woken;
optimistic readers wake nobody; a rebalancer marks a segment others are still in and waits for
a promise in that segment's queue; a crawler takes window and promises of another that sleeps.
Correct when whoever changes a segment is alone in it, optimistic readers notice, and nobody is
left asleep.

### The other engines

| engine | what its core does | what is hard |
|---|---|---|
| Teseo's storage otherwise (`teseo/src/memstore/`, `src/gc/`, `include/teseo/util/latch.hpp`) | a fat tree of packed memory arrays under a radix index; optimistic latches; epoch-based reclamation | latches predict the next version; the index is rewritten under readers |
| GraphOne (`graphone/src/sgraph.h`, `cf_info.cpp`) | a circular log of edges, filled by many, archived by one thread into adjacency lists, written to disk by another; snapshots at queued markers | slots are reserved before they are written; two consumers, and producers wait for one of them |
| STINGER (`stinger/src/stinger_core/`) | linked blocks of edges; words with full/empty bits are the locks on slots and on links | insertion decides twice, the second time under the slot's lock; an early return may leave a word empty |
| RisGraph (`risgraph/include/`) | adjacency arrays with hash indices under spin locks; incremental algorithms by compare-and-swap | a growing array appended to without a lock; a reader-writer lock of two words |
| LLAMA (`llama/`) | writable adjacency lists under per-vertex spin locks, checkpoints into read-only levels | lock order when a vertex is deleted; checkpoints run alone |
| Terrace (`terrace/`) | three levels of neighbour storage by degree; batches partitioned by vertex | locks with reasons in the packed memory array |
| PCSR (`pcsr/`) | one packed memory array, sequential | density bounds of the rebalancing |
| Ligra (`ligra/`) | a static CSR | nothing: built once, then read |

`src/lib` is third-party code, `src/exp` scripts and notebooks, `src/log` results: none
of it is modelled. PROJECT.json lists every part with its status, and every hazard at
the line where it bites, those no property covers yet included.

## 2. Plan

An engine's most concurrent part comes first, and an engine with transactions before one
with locks only. What there is, in the order it was written:

1. LiveGraph: `LGCommitManager`, its abstraction `LGEpochs` and its proofs; `LGFutex` and its
   proofs; `LGBlockManager` and its proofs; `LGTransactions` and
   `LGEdges`, composed with `LGEpochs`, and their proofs.
2. Aspen: `AspenVersions` and its proofs.
3. Teseo: `TeseoTransactions`; `TeseoSegments` and its proofs, which show what
   `TeseoTransactions` takes for granted of segments: whoever changes one is alone, and
   optimistic readers start again.

What is left is proofs, in this order:

1. `LGEdges`: `SnapshotEdges`, which needs, beside the invariant for readers (`KeepInv`), a history of
   every entry.
2. `TeseoTransactions`: `NoLostUpdate` from "pending writers own the head of the chains
   they wrote, and ids of owners decrease along a chain"; `OwnersCounted`.

Liveness stays with TLC throughout.

## 3. Modules

### `LGEpochs`: what the commit manager promises
Commits ask; a group of those that asked is granted the next epoch; each finishes by
itself; an epoch becomes visible after those before it and when all its holders are
done. There is no queue, lock or file. It is both the abstract specification that
`LGCommitManager` is shown to implement and the service that `LGTransactions` and `LGEdges`
are built on.

### `LGCommitManager` (with `LGCommitProof`, `MCLGCommit`)
`global_client_mutex`, `queue`, `seq_front`, `seq_rear`, `global_epoch_id`,
`writing_epoch_id`, `unfinished_epoch_id` and `closed` are the fields of the class;
`mutex` and `client_mutex` say who holds the queues' and the sleepers' mutexes; `wal` and
`durable` are the file's contents and the synced part; `failed`, history, the epochs of the groups whose
`write` or `fdatasync` reported an error (at most `MaxErrors`), which the code goes on from. A committer walks the labels of
`pc`: load the side, lock its queue, look at the side again, push, wait on the side's
condition variable, install, `finish_commit`, spin. The server walks those of `spc`:
poll the epochs, wait, claim, toggle the side, seal the group, write, sync, hold its unit
on the epoch's counter, release the group, drop the unit. What runs under a mutex nobody
else can look through is one step. The server's wait has a timeout, so it may always go
on; the model lets it.

### `LGFutex` (with `LGFutexProof`, `MCLGFutex`)
One `__sync` builtin or futex call per step. The kernel is external and does what
futex(2) promises: compare and sleep atomically, wake one sleeper of its choice; a wait
may also end by its timeout (`Expire`) or a signal (`Signal`, where the code throws).

### `LGBlockManager` (with `LGBlockProof`, `MCLGBlocks`)
`used_size` is the cursor, `file_size` the cached size, `disk_size` the file's;
`free_blocks` and `large_free_blocks` the lists. `alloc` is reuse or a bump, the
unlocked test, and, if the file must grow, lock, second look, `ftruncate` (which may fail
and throw), store. `handed` and `lost` are history: what callers hold, and what calls that
threw had already taken from the cursor. Callers may pass blocks to other threads.

### `LGTransactions` (with `LGTransactionsProof`, `MCLGTransactions`), composed with `LGEpochs`
A client is a `Transaction` object with the thread it lives in. A version is its position
in `block`: its vertex, its stamp (`-id` while uncommitted, the epoch afterwards), the
version under it, and whether it is a deletion; its payload is that position. `BeginLoad`
and `BeginPublish` are the two halves of a begin; `GetVertex`, `WalkOn`, `Return` walk a
chain one pointer at a time; `PutVertex`, `DelVertex`, `NewVertex` are the writers, under
`LockVertex` and `Conflict`; `Commit`, `RegisterGroup`, `Install`, `PushRecycled`, `Stamp`,
`Stamped` are `commit`, in which each pointer and each stamp is a step; `Abort`, `Unlock`,
`Leave` end it; `FinishCommit` and `Spin` are `finish_commit`. `Compact` or a begin starts
a compaction: `ScanThread` for each place of the table, then `CompactVertex` or
`CompactSkip` for each vertex. A vertex is compacted in one step: it happens under the
vertex's lock, and others only read the chain meanwhile. A freed block is marked and not
handed out again, so that touching it can be seen; `LGBlockManager` answers for reuse.
`committed` is history: vertex, version, epoch, and the snapshot its writer had.
A batch loader's work is part of the initial state: versions stamped 0.

### `LGEdges` (with `LGEdgesLemmas`, `LGEdgesProof`, `MCLGEdges`), composed with `LGEpochs`
The edges of one vertex. `labels` and `blocks` are all label blocks and edge blocks ever
made, `edge_label_ptr` the vertex's word; an edge block's `num` is its published tail, and
its entries beyond that are those of the transaction that holds the lock. `GetEdges`,
`ReadLabel`, `Walk`, `LoadTail`, `NextEntry`, `Return` are a scan, one shared word at a time,
in both directions (`get_edge` is a scan for one destination). `PutEdge` and `DelEdge` run
under `vertex_futex` (`Conflict` looks at the label's newest block); a block without space
is copied (`Kept`, `Grows`), with all its sizes, the Bloom filter's share included, as the
code computes them. `Commit`, `RegisterGroup`, `InstallTail`, `InstallLabel`, `Stamp`,
`Clean`, `Leave`, `FinishCommit`, `Spin` are `commit` word by word; `Abort` is one step, since
what it stamps was visible to nobody. `Compact`, `ScanTable`, `CompactLabels`,
`CompactLabel` (with `Survivors` and `CopyBlock`), `Compacted` are compaction, a label a
step: it holds the vertex's lock, and looks at no scan. `force_insert` is FALSE, its default and all that
callers in the repository pass; TRUE is for edges known to be new and skips the look for an old one. `committed` and `mine` are history. A begin is one step,
and so is the scan of the table of snapshots: taking them apart is `LGTransactions`' part.

### `AspenVersions` (with `AspenProof`, `MCAspenVersions`)
`table` is `live_versions`, `current_timestamp` the counter; `versions` and `freed` are
history. All timestamps hash to one bucket, so the table is probed as a list. Every load of
a shared word and every builtin is a step: `ReadLatest`, `Find`, `Look`, `Load`, `Acquired`
or `CasFails` are `acquire_version`; `Release`, `CheckStale`, `Reread`, `Unref`, `Free`,
`Clear`, `Bury` are `release_version`; `Insert`, `InsertValue`, `Publish` are what a batch
does around the building of a tree, which is abstracted to the tree's identity
(`nullptr` for an empty one). The test of `root->ref_cnt` before a tree is freed, which
ends the program, is what `HeldAlive` states.

### `TeseoTransactions` (with `MCTeseo`)
`item` holds, for each vertex and each direction of an edge, the value in place, its undo
chain and `m_undo_length`; `id`, `state`, `undo`, `refs` are fields of `TransactionImpl`,
`listed` the transactions in their threads' lists, `cache` the cached sequences of active
ids, `counter` the global counter. `Begin` and `SetTransactionId`, `Commit`, `DrawCommitId`
and `PublishCommit` take begin and commit apart where the code does. `Read`, `Walk` and
`Retry` are an optimistic read: it looks at one owner a step, and starts again when a
critical section changed the segment (`Abort`). `InsertVertex`, `InsertEdge`, `RemoveEdge`
with `UpdateOpposite`, `RemoveVertex` with `UnlockVertex` and `RemoveIncoming` are the
updates, a critical section a step, with `Refused` for their checks; `UndoCall` takes back
a call that failed half way, `Rollback` and `EndRollback` a transaction. `Prune` is
`Undo::prune`, its loop as a recursive function; writers prune full chains (`Put`), the
background threads whole segments (`ReadCounter`, `ReadLists`, `PruneSegment`).

What it simplifies: a vertex and its edges are in one segment, so the entries that stand for a vertex
in the later segments its edges go on in (`m_first = 0`, sparse_file.cpp:879-921), and the second and
later rounds of a removal that reach them, do not occur; checks are those of sparse
files; transactions are used by one thread at a time and handles outlive the run; the
items of a segment are pruned one by one, without the moves of `prune_elements`; a writer
gathers the active transactions in one step, only the background threads in two; ids and
states of a commit are stored in one step (between the two stores a transaction is pending
with its commit id, which is above every snapshot just as its start id was); rollback's
last two steps, state and list, are one; the timer, which may drop a cached sequence at any
moment, appears as the choice between the cached sequence and a fresh one; `Half` stands
for `max >> 1`. Directed graphs, iterators and the counts of vertices and edges are left
out.

### `TeseoSegments` (with `TeseoSegmentsProof`, `MCTeseoSegments`)
One leaf. `latch` and `queue` are `m_latch` and `m_queue` of each segment (`MASK_WAIT` is "the queue
is not empty", `MASK_XLOCK` the atomicity of a step), `requested` the flag, `scheduled` the service
threads' work, `owner` is `m_crawler`, `leaf` the leaf's latch, `crawler` the fields of each
`Crawler`. `ReaderEnter`, `ReaderExit`, `OptimisticEnter`, `Validate`, `WriterEnter`, `WriterExit`,
`Prune`, `AsyncRebalancerEnter`, `AsyncRebalancerExit` are the operations of the same names, with
`WakeListNext` for who is woken and `PassTurn` for a woken thread that does not enter. A service
thread goes `AsyncRebalancerEnter`, `LeafXlock`, `Crawl` (one segment a step: `AcquireSegment`,
`StopCrawler` or `WaitForCrawler`), `Decide`, `Drained`, `AsyncRebalancerExit`; the merger starts
with `Lock2Merge`. How dense a window is, and so whether it grows or is spread, is a choice; so is
whether a segment is dirty.

What it simplifies: whoever finds by the fence keys that it is in the wrong segment leaves again,
which is an enter and an exit; spinning on `MASK_XLOCK` is not a step; the version does not wrap;
the limit of readers, 2047, is not reached; a request whose fence key no longer fits, and one that
comes before `m_time_last_rebal`, are as if it was not needed; the merger takes one leaf, not two.

## 4. Runs

| run | instance | what it shows |
|---|---|---|
| `commit` | 2 threads, 2 commits each, an I/O error of one group (`MaxErrors = 1`); fair | the queue's swap strands, loses or repeats no commit; the log is ordered and synced before a commit is acknowledged, but for the group that met the error; epochs are published complete and in order; no wake-up is lost; every commit and the destructor return; `LGEpochs` is implemented |
| `futex` | 3 threads, 2 calls each; fair | exclusion, exact count, no lost wake-up in every order of wakes, timeouts and signals; every call returns |
| `blocks` | 2 threads, orders 1 and 2 with 2 large, file growing by 5 bytes to 14 | every byte has one owner, inside the file; nothing is leaked |
| `mvcc` | 2 writers, a reader, 1 vertex, one `compact` | snapshot reads; no version freed that a snapshot needs or that is still linked; first committer wins; no garbage forgotten |
| `mvcc_sessions` | 2 clients, one with 2 transactions and 2 operations; deletions recycle, ids are used again; no compaction; fair | reads of one's own writes and commits; chains stay newest first; every call returns |
| `mvcc_begin_race` | as `mvcc`, a begin may straddle a scan | **violation**: compaction frees what the new snapshot needs |
| `edges` | 2 clients of 2 operations a transaction, 2 labels of which one is loaded, one destination written twice by the loader; `get_edge` newest first, `get_edges` in reverse; begins compact; a transaction each, or two transactions of one client and two calls of `compact` by the other | scans give the edges of the snapshot, each once; no freed block is read except by a scan that a copy has overtaken; nothing freed is linked; no update lost; no entry runs into a filter |
| `edges_copy_race` | one client with 2 transactions, the other with 2 `compact`s | **violation**: compaction frees the edge block a scan is in |
| `aspen` | 2 readers for ever, 2 batches, 4 entries; fair | held trees live; the latest version is acquirable; old ones go; acquiring is lock-free |
| `aspen_refill` | 1 reader, 3 batches, 5 entries, refills may overtake a release | **violation**: the release of an old version frees the latest one |
| `teseo` | 2 writers of 1 call, a reader that stays open, 2 vertices and an edge, chains of 2; a background thread | snapshot reads; no update lost; exact reference counts; both directions of an edge agree |
| `teseo_segments` | a reader, a writer, an optimistic reader, 2 service threads and the merger, one call each; 3 segments, both ends full | whoever changes a segment is alone in it; validated optimistic reads; nobody is left asleep |

*Why the bounds are enough.* Two commits per thread make the queue swap sides twice
and a thread meet a group other than its first; two threads already form groups of one and
of two, finish in either order, and leave one epoch waiting for another. For the futex
three threads are the least that can have a holder, a sleeper and one that leaves. In
`blocks`, the file (5) is not a multiple of a block (2 or 4), so blocks end at, before and
across its end, and 14 bytes need two growths. In the `mvcc` runs three versions are the
least with one to free under one to keep under one to read; `COMPACTION_CYCLE = 2` makes
the second transaction compact as it begins. In `edges` an edge of 240 bytes fills the
loaded block of 1024 bytes (with its filter) at three entries, so that the next put copies
it into one of 2048; a new label's block of 512 is full with one edge and grows with the
second; the loaded label block is full with two labels and grows with the third. `Budgets` says how many
transactions each client has and how often `compact` is called: one each, the later one compacting as it
begins, to let writers meet, or two
transactions of one client against two calls by the other, which are the least in which a copy made under a scan
is found again by a compaction that cuts below it. In `aspen`, two
batches make one version old while a reader has it and another while nobody has; an entry
given up is filled again by the second. `aspen_refill` needs three: one to hold, one that
frees, one that refills. In `teseo`, the removal of a vertex and the updates of its edge meet
in both segments from both ends; chains of 2 are pruned by the third record (the code's
maximum is 7, and the only difference is how many commits that takes); the reader stays
open so that there is always an old snapshot to lose. Its end would only add states in which it
is gone. A second sequence for the background thread, or another call, is more than a run of minutes visits. In `teseo_segments` three segments
are the least in which two crawlers start apart and meet, from either side, in a segment that is
neither's, with scans and updates in it, while the merger takes all three: every kind of sleeper
is in one queue with every other. Bounds named Max... stop the actions that
use them up, which is why these runs do not check for deadlock; the runs of the commit
manager and of `aspen` do check, since there somebody can always go on.

*What the passing runs assume*, each with what happens otherwise (section 6):

* no begin is preempted between loading and publishing its epoch while another thread
  scans (`PreemptedBegins = FALSE` in the `mvcc` runs): `mvcc_begin_race`;
* a thread has one transaction at a time (`ThreadOf` injective): the table has one place
  per thread, and the end of one transaction (transaction.hpp:194) hides the other's
  snapshot from compaction;
* recycling and compaction, or recycling and abort, are not mixed (`Recycle = Never`, or
  `MaxCompact = 0` and a long cycle): `new_vertex` on a recycled id resets the vertex at
  once (transaction.cpp:37-38), for every snapshot and with no way back for an abort;
* no entry of Aspen's table is refilled under a thread that still refers to it
  (`RefillsOvertake = FALSE`): `aspen_refill`. With 512 entries, and a reader stopped for a
  few instructions, this is what usually happens;
* no Teseo thread scans inside a scan (`MaxNest = 1` in `teseo_segments`);
* no Teseo transaction is preempted between drawing its id, or its commit id, and storing
  it, while others begin, commit or prune (`PreemptedBegins`, `PreemptedCommits`).

Setting the constants of a configuration the other way reproduces each of them.

*Fairness.* The commit manager's committers and server are strongly fair: they contend for
mutexes, and the standard mutexes in use do not starve a thread for ever in practice; the
server in addition sleeps 100 microseconds without the mutex between attempts. The
futex needs only that a thread that can run does (weak fairness per thread); no timeout or
signal is owed to anybody. `LGTransactions` assumes that a thread inside a call goes on,
that a waiting commit is put in a group, and that complete epochs are published; the last
two are what `commit` shows of the commit manager. In `AspenVersions` a thread inside a call
keeps running (weak fairness per thread); no reader has to call or to give a version back.
`LGEdges`, `LGBlockManager` and `TeseoTransactions` are checked for safety only: their calls wait
for nothing but a lock that is given up without waiting, or for the commit manager.
`TeseoSegments` needs no fairness: calls are bounded, so every behaviour ends if threads run, and
`NobodyForgotten` says that where it ends nobody is inside a call. (It counts on callbacks of scans
to return, and on nobody to call again.)

## 5. Proofs

Each proof module names its inductive invariant and the parts it is made of; a step of the
system is shown to preserve each part, and the theorems about the properties follow. The
parameters are arbitrary: no proof uses a bound on calls, commits or time. What the proofs assume
are the `ASSUME`s of the modules, and the conditions named below.

`LGCommitProof`, for any finite set of threads and any number of commits:

* `Typing`, and `Invariance`: `CommitInv` is inductive. None of the properties is inductive
  alone. That nothing is stranded needs to know who holds which queue mutex (`LockInv`)
  and which side the server is on at each label (`SideInv`). That counters are exact needs
  that a thread waiting without an epoch is in exactly one queue, at the place its sequence
  number says (`QueueInv`, `SeqInv`), so that sealing a group gives an epoch to all its
  members and to nobody else (`EpochInv`). That visible epochs are complete needs exact
  counters and that the FIFO lists the unpublished epochs without gaps (`FifoInv`).
* from it `VisibleComplete`, `Exactness`, `NothingStranded`, `NoLostWakeup` (a sleeper's
  sequence number is below what its side has released only until it is notified) and
  `PublishedInOrder`;
* `Durable` and `LoggedInOrder`, with any number of I/O errors: an error leaves out, or leaves unsynced,
  its own group only, which is all these two except. The group being written is the one whose members
  have the newest epoch (`GroupInv`), a thread that has no epoch yet is not in the file
  (`OnceInv`), and one that has is (`DurableInv`);
* `Implementation`: every step of the commit manager is a step of `LGEpochs` or a stutter,
  the grant of a group being the server's seal.

`LGFutexProof`, for any finite set of threads: the four invariants of the lock are
inductive together (`Invariance`), hence `Typing`, `Exclusion`, `CountExact` and `WakeupsKept`. The
count is compared with the cardinality of the set of threads between the increment and the
decrement; the lost wake-up argument uses it, since an unlock whose decrement gives 0
leaves nobody in that set and so no sleeper.

`LGBlockProof`, for any threads, sizes and a file of any length (powers of two are assumed
positive, which the provers do not know): `Typing`, `Ownership` and `Accounting`. A block is
in a free list of a thread, in a shared one, held, lost or under way in one call
(`ListsApart`, `CallsApart`, `PlacesApart`); blocks do not overlap and lie below the cursor
(`BytesApart`), which is what makes a bump disjoint from all of them. That a usable block is
inside the file does not follow from the unlocked test: it needs that the size a thread
sees is never more than the file's, and what is known of it inside the lock (`FileInv`).

`AspenProof`, for any finite set of readers, any table and any number of versions, if no entry
is refilled under a thread that refers to it (`~ RefillsOvertake`; otherwise `aspen_refill`
violates `Acquirable`'s property): `Typing`, `Alive`, `Acquirable` and `Gone`. The count of an
entry is one more than its holders (`CountInv`), so a step that sees 1 knows that nobody holds it;
a key is in one entry (`KeyInv`); an entry with no holder has somebody whose duty it is to
free it (`DutyInv`), who is alone in it (`DyingInv`) since the compare-and-swap to 0 succeeds once;
what a thread read before and uses now is still so, or the entry is a tombstone (`SeekInv`, `UseInv`).

`LGTransactionsProof`, for any clients, threads and vertices and any number of transactions:
`Typing` and `OwnWrites` hold without a condition. `OwnWrites` needs that a transaction's id is nobody
else's (`ApartInv`), that its versions bear it (`CacheInv`), and where a reader of a vertex it has
written stands (`WalkInv`). `NewestFirst` holds while ids and epochs are below
`ROLLBACK_TOMBSTONE` (`InRange`; it is the largest 64-bit number in the code): a version without an
epoch is some open transaction's (`LooseInv`), so what is under a committed version was
committed, and no later (`OrderInv`). `NoLostUpdate` and `Tracking` also need that no id is used for
a second vertex (`IdsUsedOnce`), because `new_vertex` clears the lock word of a recycled id
(section 6). Then whoever has written a vertex has its lock (`LockInv`), the vertex points to its
newest version but for those of one commit under way (`HeadInv`), the stamps of its versions grow
towards the newest (`StampsInv`), a commit is the last version of its epoch (`CommitInv`) and so
a writer without a conflict has all of the vertex's commits in its snapshot (`WriterInv`). A vertex
with an old version, or with one that is about to be old, is in a table and in every list a
compaction of the thread works on (`TrackInv`). The steps are proved to preserve this
by what they do to the versions of a vertex (`Effects`): six kinds of steps instead of twenty-five.

`SnapshotsSeen` and `VersionsKept` add to these conditions that each client has a thread of its own
and that no compaction scans between a begin's two steps (`OwnThreads`). The code provides neither:
they are the two restrictions of section 4 without which compaction frees what is still needed,
and the run `mvcc` works under the same. The theorems say that nothing else goes wrong, for any
number of clients. The argument is about where compaction cuts. The places of the table show every
snapshot that a scan must respect (`TableInv`), so a compaction's bound is never above a snapshot in use
(`BoundInv`; a begin that compacts starts from a transaction's id, which is not an epoch, and is put
right only when the scan comes to its own place). So a chain is cut only at a version that is in every
snapshot in use and to come (`CutInv`), and whatever was freed is below such a cut (`FreedInv`). A
reader never walks past what it must return (`ReadInv`), since every epoch found on a version is that
of a commit of the vertex, of this version or a newer one (`HistoryInv`), and so is in the snapshot
if the walk stops at it. Hence a reader stops at the newest version of its snapshot, at or above the
first cut.

`LGEdgesProof` (with its lemmas in `LGEdgesLemmas`), for any clients, labels and loaded graph and for any
number of operations, blocks and compactions: `Typing` and
`UpdatesKept`, from one inductive invariant (`Invariance`). That no update is lost
depends on one number, the committed time of a label's newest block, which is all that
`Conflict` looks at. While nobody installs, it is at least the epoch of every commit under the
label (`CommitInv`), and the newest block is in every snapshot that its committed time is in
(`SettledInv`, `Steady`): a block's creation time may only be ahead of its committed time if it is old for
all who run, as the copy that compaction puts on top is. While a commit installs, the newest block is
that of the old state or of the new one, label by label, and the new one's committed time is a word
still to be stamped, a tail still to be installed, or done (`TopOf`, `Timed`, `InstallInv`): every block
written to gets a new committed time because writing to it caches its tail (`PendInv`,
`TailsInv`). So a writer that finds no conflict has all the label's commits in its snapshot
(`PendInv`), and it has the lock from then until its own are installed (`LockInv`). Aborts
must undo nothing that this argument counts: the blocks they free were never reached from the vertex
(`TopsInv`). That a compaction's copy does not hide a commit needs that its bound is a snapshot nobody is
behind (`BoundInv`). `Typing` follows from what every step leaves in the blocks (`StoreInv`): sizes, the
Bloom filter's share included, are computed for one entry more than there are, and so fit
when entries are appended one at a time and when fewer survive.

`BlocksKept` is about blocks given back: no scan is in one, unless a copy has overtaken it (the exception
`edges_copy_race` shows to be needed), no scan is in a label block given back, and none of either kind can be
reached. It has no condition beyond the module's assumptions. Two things free blocks. An
abort frees those of its own transaction. They form the top of a label's chain, above the block the vertex
points to, and only they are linked to that block (`OwnedInv`), so nobody else gets to them; which also
needs that chains never meet and that nothing kept is linked to something freed (`ForestInv`), and that
labels have chains of their own (`HeadsInv`). A compaction frees what is below the newest block older than
its bound. The bound is in every snapshot in use and to come (`BoundInv`), so a scan stops at this block
or above, unless it is below already. That it is not, is the part that had to be found: wherever a scan
is, every block from which its place can be reached, whoever put it there since, has a time at which the
scan does not stop (`Ahead`, `Unpassed` in `ReadInv`). New blocks are put on top with the time of a commit
no scan has in its snapshot yet, which is what the epoch service promises (`GrantInv`), and a compaction's
copy, stamped with the bound, is the one exception: a scan below it is overtaken, and stays so, since newer
blocks on top only add to the chain (`AheadStays`).

`TeseoSegmentsProof`, for any number of segments and of threads of each kind and any depth of
nested scans, a thread having one role (`RolesAssumption`): `Typing` and `Access`. The word of a
segment says who is in it (`WordInv`), and its bit for rebalancers that it is in the window of
exactly one crawler that nobody has stopped, which waits for a promise if somebody is still inside
(`OwnerInv`). A crawler that stops another takes its window and its promises over, and this is why the
windows are in the invariant, and not only the states of crawlers (`CrawlerInv`): when two windows
are joined, no segment lies between them without having been taken. That a leaf is deleted
as a whole (`DeletedInv`) is needed for the enters that find a segment invalid. `OptimistInv` says
that a version only grows and that a segment which changed under an optimistic reader either has a
newer one or is still taken.

`SleepersHaveReason`, `CountersExact`, `CommitInv`, `UsingExact` and the invariants named here are
not among those the runs check: the theorems hold for the runs' instances too.

Only model-checked: `SnapshotEdges` of LiveGraph's edges and Teseo's
transactions, whose proofs are left in the plan; `NobodyForgotten` of `teseo_segments`, which asks whether a step is
`ENABLED`; and all liveness. Temporal proofs under fairness are out of the prover's reach, and so
is what the recursive function in `TeseoTransactions`' `Prune` computes for every input. (Of `LGEdges`' `Chain`
and `Picked` the proofs use what follows from one unfolding and well-founded induction over positions.)

## 6. What the checks found

Each with a run of its own:

* `graph.cpp:24-25`: a begin that straddles a compaction's scan loses versions of its
  snapshot.
* `versioned_graph.h:149-155`: a release that is overtaken by a refill of its entry counts
  down, and frees, the new version; from then on the latest version cannot be acquired.
* `graph.cpp:164` (`edges_copy_race`): a compaction whose bound was taken before a reader began copies
  the block the reader is about to scan, and stamps the copy with that bound; the next
  compaction, whose bound is the reader's own snapshot, finds the copy older than it and
  frees the block behind it, although the reader is there ("Blocks before that are garbage",
  graph.cpp:72-73). Such a scan is `Overtaken`; `KeptUnlessOvertaken` says that no other scan is hit.

In the actions of a passing run, which excuses it by name:

* `commit_manager.hpp:216, 222`: a failed `write` or `fdatasync` builds an exception and
  does not throw it; the group is acknowledged although it is not on disk (`failed`, with which
  `AckedIsDurable` and `LoggedOnceInOrder` except that group, and no other).

Met while modelling, and reproduced by changing a constant:

* LiveGraph, recycling with `abort`: a transaction that deletes with recycling, creates
  and deletes the same id again has it twice in its cache of new vertices, and its
  abort returns it twice (transaction.cpp:589), so that it is new to two transactions.
  `new_vertex` also clears the lock of an id its own transaction deleted (37).
* Teseo, `PreemptedBegins = TRUE`: `SnapshotReads` fails. The id is drawn in the critical
  section of the list, for the reason the comment there gives (transaction_list.cpp:67-70),
  but stored in the transaction only afterwards (thread_context.cpp:166); until then
  `active_transactions` takes the transaction for one without an id and leaves it out,
  and a prune removes records it needs.
* Teseo, `PreemptedCommits = TRUE`: `SnapshotReads` fails. A transaction that begins after
  another drew its commit id and before it stored it (transaction_impl.cpp:180-189) reads the
  old value first and the new one later.
* Teseo, by design of snapshot isolation: one transaction removes a vertex while another,
  from an older snapshot, inserts an edge to it. No item is written by both, both commit,
  and the edge outlives its end ("Remove the given vertex and all its attached edges",
  teseo.hpp:267). `EdgesPaired` speaks of the two directions of an edge only.

* Teseo, `MaxNest = 2` and `MaxCalls <- Twice` in `teseo_segments`: `NobodyForgotten` fails. A thread
  that holds a segment for a scan and enters one again from its callback ignores those who wait,
  since otherwise there is "a potential source of deadlocks in presence of nested iterators"
  (context.cpp:203-206), but not a rebalancer: a crawler that takes the segment over sets
  `MASK_REBALANCER` at once and waits for the thread's first latch, while the thread sleeps for the
  rebalancer to leave. Nested iterators are supported (test_cursor_state.cpp:527).
* Teseo, the merger: `acquire_segment` throws `RebalanceNotNecessary` in a leaf that was deleted
  since the merger looked it up (crawler.cpp:327), where "it can raise an Abort" is expected
  (merge_operator.cpp:90) and only that is caught (120). The model's `terminated` stands for it; one
  leaf and one merger reach it once a split by a service thread has deleted the leaf.
* Teseo, `wake_list_next`: "Wake up all rebalancers at the front of the queue. Though I cannot
  remember anymore the reason for this logic!" (segment.cpp:485). `NobodyForgotten` fails when one
  is woken: the other may be the promise of a crawler, which nobody would keep.

Read off the code, without a property: the block manager's cursor and `vertex_id` are
never compared with the capacity (block_manager.hpp:99, transaction.cpp:35), the models stay
below it; `commit(false)` returns before the commit is visible, by design (683);
`del_edge` in a batch loader keeps the vertex's lock when the label has no block (500).

## 7. What is not modelled

* Recovery: the log is written but no code reads it back, so there is no crash and restart
  to model; `AckedIsDurable` is what a recovery would need.
* In-memory mode (an empty path): then `wal` writes are skipped and nothing else changes.
* Weak memory: steps are sequentially consistent. The code uses the GCC `__sync` builtins
  (full barriers) for locks and acquire/release for what it publishes.
* Timeouts as times: a wait that can time out may do so at any moment. An operation whose
  lock does not come in time throws and changes nothing, which is no step.
* Payloads, log record formats, and the bits of the Bloom filters.
* Batch loaders beside transactions, against which the code has no protection; what a loader
  leaves behind is the initial state.
* Teseo's index, its latches (`latch.hpp`: lock() predicts the version after the present holder's
  unlock), its reclamation, and the moves of a rebalance. The models take from them that a thread
  finds the right leaf, or one that was deleted, which it notices.
* GraphOne: its edge log is shared through plain words that several threads read and write
  without synchronisation, so most of what one would check has no defined outcome; also its
  queue of markers wraps without looking at the consumer's end (sgraph.h:242), and the durable
  writer takes reserved slots for written ones (277).
* STINGER: an edge's blocks are locked word by word and an insertion decides twice; the
  chains together with these words have more interleavings than a run can visit. A
  name that does not fit leaves its slot's word empty for good (stinger_names.c:205).
* RisGraph, LLAMA, Terrace, PCSR, Ligra: locks of a standard form around sequential storage,
  fork and join over disjoint parts, or no concurrency at all. Their risk is in array and tree
  layout, for which tests are the better tool.
* Third-party code, which is most of the repository: of its half million lines, `src/lib`
  and the copies of libraries inside the engines are the largest part, and the engines'
  own lines are mostly layouts, parallel loops and graph algorithms. The modules
  cover the lines in which threads meet in LiveGraph, Aspen and Teseo, a small share of the
  whole.
