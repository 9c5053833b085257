--------------------------- MODULE LGTransactions ---------------------------
(***************************************************************************)
(* LiveGraph's transactions on vertices: snapshots by epoch, version       *)
(* chains, vertex locks, write-write conflicts, commit and abort, vertex   *)
(* id recycling, and the compaction that frees old versions (src/graph.cpp *)
(* and src/transaction.cpp; the edge operations and the batch loader are   *)
(* not in this module).                                                    *)
(*                                                                         *)
(* The commit manager is the epoch service of LGEpochs, which              *)
(* LGCommitManager implements.  A client is a Transaction object together  *)
(* with the thread it lives in; several clients may share a thread.  A     *)
(* version is a block known by its position in block, and its data is that *)
(* position.  A freed block is marked instead of being handed out again,   *)
(* so that any later use of it can be seen.                                *)
(***************************************************************************)
EXTENDS LGEpochs, Integers, Sequences, FiniteSets

CONSTANTS Thread,            \* application threads
          ThreadOf,          \* the thread each client lives in
          ReadOnly,          \* the clients that begin read-only transactions
          Loaded,            \* vertices a batch loader has filled before
          COMPACTION_CYCLE,  \* a transaction with this many before it compacts
          PreemptedBegins,   \* a begin may straddle the scan of a compaction
          Recycle,           \* what clients pass for recycle in del_vertex
          Reuse,             \* what clients pass for use_recycled_vertex in new_vertex
          MaxVertex,         \* bound: vertex ids
          MaxBlock,          \* bound: blocks ever written
          MaxTxn,            \* bound: transactions of each client
          MaxOp,             \* bound: operations of each client, in all its transactions
          MaxCompact         \* bound: calls of Graph::compact

ASSUME ThreadsAssumption ==
  /\ ThreadOf \in [Client -> Thread] /\ ReadOnly \subseteq Client
ASSUME BoundsAssumption ==
  /\ Loaded \in Nat /\ MaxVertex \in Nat /\ Loaded <= MaxVertex
  /\ MaxBlock \in Nat /\ Loaded <= MaxBlock
  /\ MaxOp \in [Client -> Nat] /\ MaxTxn \in [Client -> Nat]
  /\ COMPACTION_CYCLE \in Nat \ {0}
  /\ PreemptedBegins \in BOOLEAN /\ Recycle \subseteq BOOLEAN /\ Reuse \subseteq BOOLEAN

NULLPOINTER        == 0
NO_TRANSACTION     == -1
ROLLBACK_TOMBSTONE == 1000000

VertexId == 0 .. MaxVertex - 1
Pointer  == 0 .. MaxBlock

VARIABLES
  vertex_id, recycled_vertex_ids,            \* ids: the next fresh one, the queue of old ones
  vertex_futexes, vertex_ptrs,               \* each vertex's lock word and newest version
  block, freed,                              \* the versions, and those given back
  transaction_id, read_epoch_table,          \* the id counter, and each thread's snapshot
  compact_table,                             \* each thread's vertices to compact
  pc, local_txn_id, read_epoch_id,           \* each client's transaction ...
  vertex_ptr_cache, block_cache, new_vertex_cache, recycled_vertex_cache, acquired_locks,
  reading,                                   \* ... its get_vertex under way
  compacting,                                \* ... its compaction under way
  txns, ops, compacts,                       \* how much of the bounds is used
  commit_epoch_id,                           \* the epoch a client last waited for
  committed                                  \* history: what was committed

ids      == <<vertex_id, recycled_vertex_ids>>
vertices == <<vertex_futexes, vertex_ptrs>>
blocks   == <<block, freed>>
begins   == <<transaction_id, read_epoch_table>>
caches   == <<vertex_ptr_cache, block_cache, new_vertex_cache, recycled_vertex_cache,
              acquired_locks>>
txn      == <<local_txn_id, read_epoch_id, caches>>
bounds   == <<txns, ops, compacts>>
history  == <<commit_epoch_id, committed>>
vars     == <<epochsVars, ids, vertices, blocks, begins, compact_table, pc, txn, reading,
              compacting, bounds, history>>

epoch_id == visible
Goto(c, place) == pc' = [pc EXCEPT ![c] = place]

\* A thread runs one call at a time, whichever of its clients it is for.
ThreadFree(c) ==
  \A d \in Client \ {c} : ThreadOf[d] = ThreadOf[c] => pc[d] \in {"idle", "open"}

NotReading    == [vid |-> 0, ptr |-> NULLPOINTER]
NotCompacting == [bound |-> 0, threads |-> {}, todo |-> {}, keep |-> {}, resume |-> "idle"]

\* What the batch loader leaves: a version of each vertex, stamped with the epoch 0 it read at.
LoadedVertices == 0 .. Loaded - 1
LoadedBlocks ==
  [p \in 1 .. Loaded |-> [vid |-> p - 1, creation |-> 0, prev |-> NULLPOINTER, dead |-> FALSE]]

Init ==
  /\ EpochsInit
  /\ vertex_id = Loaded /\ recycled_vertex_ids = <<>>
  /\ vertex_futexes = [v \in VertexId |-> 0]
  /\ vertex_ptrs = [v \in VertexId |-> IF v \in LoadedVertices THEN v + 1 ELSE NULLPOINTER]
  /\ block = LoadedBlocks /\ freed = {}
  /\ transaction_id = 0
  /\ read_epoch_table = [t \in Thread |-> NO_TRANSACTION]
  /\ compact_table = [t \in Thread |-> {}]
  /\ pc = [c \in Client |-> "idle"]
  /\ local_txn_id = [c \in Client |-> 0]
  /\ read_epoch_id = [c \in Client |-> 0]
  /\ vertex_ptr_cache = [c \in Client |-> [v \in VertexId |-> NULLPOINTER]]
  /\ block_cache = [c \in Client |-> {}]
  /\ new_vertex_cache = [c \in Client |-> <<>>]
  /\ recycled_vertex_cache = [c \in Client |-> <<>>]
  /\ acquired_locks = [c \in Client |-> {}]
  /\ reading = [c \in Client |-> NotReading]
  /\ compacting = [c \in Client |-> NotCompacting]
  /\ txns = [c \in Client |-> 0] /\ ops = [c \in Client |-> 0] /\ compacts = 0
  /\ commit_epoch_id = [c \in Client |-> 0]
  /\ committed = {[vid |-> v, ptr |-> v + 1, epoch |-> 0, read |-> 0] : v \in LoadedVertices}

-----------------------------------------------------------------------------
(* begin_transaction and begin_read_only_transaction *)

\* A slip: the id is the counter's old value, and ids begin at 0.
BeginLoadPostIncrement(c) ==
  /\ pc[c] = "idle" /\ txns[c] < MaxTxn[c] /\ ThreadFree(c) /\ c \notin ReadOnly
  /\ transaction_id' = transaction_id + 1
  /\ local_txn_id' = [local_txn_id EXCEPT ![c] = transaction_id]
  /\ read_epoch_id' = [read_epoch_id EXCEPT ![c] = epoch_id]
  /\ txns' = [txns EXCEPT ![c] = txns[c] + 1]
  /\ Goto(c, "publish")
  /\ UNCHANGED <<epochsVars, ids, vertices, blocks, read_epoch_table, compact_table, caches,
                 reading, compacting, ops, compacts, history>>

\* The transaction's id and its snapshot, not yet published.
BeginLoad(c) ==
  /\ pc[c] = "idle" /\ txns[c] < MaxTxn[c] /\ ThreadFree(c)
  /\ IF c \in ReadOnly
       THEN UNCHANGED <<transaction_id, local_txn_id>>
       ELSE /\ transaction_id' = transaction_id + 1
            /\ local_txn_id' = [local_txn_id EXCEPT ![c] = transaction_id + 1]
  /\ read_epoch_id' = [read_epoch_id EXCEPT ![c] = epoch_id]
  /\ txns' = [txns EXCEPT ![c] = txns[c] + 1]
  /\ Goto(c, "publish")
  /\ UNCHANGED <<epochsVars, ids, vertices, blocks, read_epoch_table, compact_table, caches,
                 reading, compacting, ops, compacts, history>>

\* Starting compact(bound) from a call that goes on at resume.
StartCompact(c, bound, resume) ==
  /\ compacting' = [compacting EXCEPT ![c] =
       [bound |-> bound, threads |-> Thread, todo |-> {}, keep |-> {}, resume |-> resume]]
  /\ Goto(c, "scan")

\* The snapshot goes to the thread's place in the table; now and then the begin compacts,
\* with the transaction's id as the bound it starts from.
BeginPublish(c) ==
  /\ pc[c] = "publish"
  /\ read_epoch_table' = [read_epoch_table EXCEPT ![ThreadOf[c]] = read_epoch_id[c]]
  /\ IF c \notin ReadOnly /\ local_txn_id[c] % COMPACTION_CYCLE = 0
       THEN StartCompact(c, local_txn_id[c], "open")
       ELSE Goto(c, "open") /\ UNCHANGED compacting
  /\ UNCHANGED <<epochsVars, ids, vertices, blocks, transaction_id, compact_table, txn,
                 reading, bounds, history>>

-----------------------------------------------------------------------------
(* Reading: get_vertex walks the chain without a lock. *)

\* cmp_timestamp, with a transaction id as "not after" and without one as "before".
Visible(stamp, epoch, id) == -stamp = id \/ (0 <= stamp /\ stamp <= epoch)
Before(stamp, epoch)      == 0 <= stamp /\ stamp < epoch

\* A step of a transaction: one operation more.
Operate(c) ==
  /\ pc[c] = "open" /\ ops[c] < MaxOp[c] /\ ThreadFree(c)
  /\ ops' = [ops EXCEPT ![c] = ops[c] + 1]

Id(c) == IF c \in ReadOnly THEN ROLLBACK_TOMBSTONE - 1 ELSE local_txn_id[c]

Newest(c, v) == IF c \notin ReadOnly /\ vertex_ptr_cache[c][v] # NULLPOINTER
                  THEN vertex_ptr_cache[c][v] ELSE vertex_ptrs[v]

GetVertex(c, v) ==
  /\ Operate(c) /\ v < vertex_id
  /\ reading' = [reading EXCEPT ![c] = [vid |-> v, ptr |-> Newest(c, v)]]
  /\ Goto(c, "walk")
  /\ UNCHANGED <<epochsVars, ids, vertices, blocks, begins, compact_table, txn, compacting,
                 txns, compacts, history>>

\* A slip: any committed version will do.
ArrivedAtCommitted(c) ==
  LET ptr == reading[c].ptr
  IN  IF ptr = NULLPOINTER THEN TRUE ELSE block[ptr].creation \in 0 .. sealed

\* Whether the walk of c stops where it is.
Arrived(c) ==
  LET ptr == reading[c].ptr
  IN  IF ptr = NULLPOINTER THEN TRUE ELSE Visible(block[ptr].creation, read_epoch_id[c], Id(c))

WalkOn(c) ==
  /\ pc[c] = "walk" /\ ~Arrived(c)
  /\ reading' = [reading EXCEPT ![c].ptr = block[reading[c].ptr].prev]
  /\ UNCHANGED <<epochsVars, ids, vertices, blocks, begins, compact_table, pc, txn, compacting,
                 bounds, history>>

\* The caller has what reading[c] says.
Return(c) ==
  /\ pc[c] = "walk" /\ Arrived(c)
  /\ reading' = [reading EXCEPT ![c] = NotReading]
  /\ Goto(c, "open")
  /\ UNCHANGED <<epochsVars, ids, vertices, blocks, begins, compact_table, txn, compacting,
                 bounds, history>>

-----------------------------------------------------------------------------
(* Writing: put_vertex, del_vertex and new_vertex. *)

\* ensure_vertex_lock: a word that is in acquired_locks is not touched, also if new_vertex has cleared it since;
\* when the lock does not come within TIMEOUT the operation throws and nothing has changed, which is no step.
LockVertex(c, v) ==
  /\ v \in acquired_locks[c] \/ vertex_futexes[v] = 0
  /\ vertex_futexes' = [vertex_futexes EXCEPT ![v] = IF v \in acquired_locks[c] THEN @ ELSE 1]
  /\ acquired_locks' = [acquired_locks EXCEPT ![c] = acquired_locks[c] \cup {v}]

\* ensure_no_confict: a version newer than the snapshot, and not this transaction's own.
Conflict(c, v) ==
  /\ vertex_ptr_cache[c][v] = NULLPOINTER /\ vertex_ptrs[v] # NULLPOINTER
  /\ ~Visible(block[vertex_ptrs[v]].creation, read_epoch_id[c], local_txn_id[c])

\* A new version of v on top of the one this transaction sees.
AddVersion(c, v, dead) ==
  /\ Len(block) < MaxBlock
  /\ block' = Append(block, [vid |-> v, creation |-> -local_txn_id[c],
                             prev |-> Newest(c, v), dead |-> dead])
  /\ block_cache' = [block_cache EXCEPT ![c] = block_cache[c] \cup {Len(block) + 1}]
  /\ vertex_ptr_cache' = [vertex_ptr_cache EXCEPT ![c][v] = Len(block) + 1]
  /\ compact_table' = [compact_table EXCEPT ![ThreadOf[c]] = compact_table[ThreadOf[c]] \cup {v}]

NoVersion == UNCHANGED <<block, block_cache, vertex_ptr_cache, compact_table>>

\* A slip: put_vertex does not look for a conflict.
PutVertexBlindly(c, v) ==
  /\ Operate(c) /\ c \notin ReadOnly /\ v < vertex_id
  /\ LockVertex(c, v)
  /\ AddVersion(c, v, FALSE)
  /\ UNCHANGED <<epochsVars, ids, vertex_ptrs, freed, begins, pc, local_txn_id, read_epoch_id,
                 new_vertex_cache, recycled_vertex_cache, reading, compacting, txns,
                 compacts, history>>

\* put_vertex; on a conflict it throws and keeps the lock.
PutVertex(c, v) ==
  /\ Operate(c) /\ c \notin ReadOnly /\ v < vertex_id
  /\ LockVertex(c, v)
  /\ IF Conflict(c, v) THEN NoVersion ELSE AddVersion(c, v, FALSE)
  /\ UNCHANGED <<epochsVars, ids, vertex_ptrs, freed, begins, pc, local_txn_id, read_epoch_id,
                 new_vertex_cache, recycled_vertex_cache, reading, compacting, txns,
                 compacts, history>>

\* del_vertex: a dead version if there is a live one; the id is kept for recycling either way.
DelVertex(c, v, recycle) ==
  /\ Operate(c) /\ c \notin ReadOnly /\ v < vertex_id
  /\ LockVertex(c, v)
  /\ LET seen == Newest(c, v)
     IN  IF ~Conflict(c, v) /\ seen # NULLPOINTER /\ ~block[seen].dead
           THEN AddVersion(c, v, TRUE) ELSE NoVersion
  /\ recycled_vertex_cache' =
       IF recycle /\ ~Conflict(c, v)
         THEN [recycled_vertex_cache EXCEPT ![c] = Append(recycled_vertex_cache[c], v)]
         ELSE recycled_vertex_cache
  /\ UNCHANGED <<epochsVars, ids, vertex_ptrs, freed, begins, pc, local_txn_id, read_epoch_id,
                 new_vertex_cache, reading, compacting, txns, compacts, history>>

\* new_vertex: an id this transaction recycles, one from the queue, or a fresh one; the
\* vertex's lock and pointer are reset at once, outside any transaction.
NewVertex(c, use_recycled_vertex) ==
  /\ Operate(c) /\ c \notin ReadOnly
  /\ \E v \in VertexId :
       /\ IF recycled_vertex_cache[c] # <<>>
            THEN /\ v = Head(recycled_vertex_cache[c])
                 /\ recycled_vertex_cache' =
                      [recycled_vertex_cache EXCEPT ![c] = Tail(recycled_vertex_cache[c])]
                 /\ UNCHANGED ids
          ELSE IF use_recycled_vertex /\ recycled_vertex_ids # <<>>
            THEN /\ v = Head(recycled_vertex_ids)
                 /\ recycled_vertex_ids' = Tail(recycled_vertex_ids)
                 /\ UNCHANGED <<vertex_id, recycled_vertex_cache>>
          ELSE   /\ v = vertex_id
                 /\ vertex_id' = vertex_id + 1
                 /\ UNCHANGED <<recycled_vertex_ids, recycled_vertex_cache>>
       /\ vertex_futexes' = [vertex_futexes EXCEPT ![v] = 0]
       /\ vertex_ptrs' = [vertex_ptrs EXCEPT ![v] = NULLPOINTER]
       /\ new_vertex_cache' = [new_vertex_cache EXCEPT ![c] = Append(new_vertex_cache[c], v)]
  /\ UNCHANGED <<epochsVars, blocks, begins, compact_table, pc, local_txn_id, read_epoch_id,
                 vertex_ptr_cache, block_cache, acquired_locks, reading, compacting, txns,
                 compacts, history>>

-----------------------------------------------------------------------------
(* Commit *)

Versions(c) == {v \in VertexId : vertex_ptr_cache[c][v] # NULLPOINTER}

\* register_commit, up to the wait for the group.
Commit(c) ==
  /\ pc[c] = "open" /\ c \notin ReadOnly /\ ThreadFree(c)
  /\ Ask(c) /\ Goto(c, "registered")
  /\ UNCHANGED <<ids, vertices, blocks, begins, compact_table, txn, reading, compacting, bounds,
                 history>>

\* The server's part: a group is given its epoch.
RegisterGroup(G) ==
  /\ Grant(G)
  /\ pc' = [c \in Client |-> IF c \in G THEN "install" ELSE pc[c]]
  /\ committed' = committed \cup
       UNION {{[vid |-> v, ptr |-> vertex_ptr_cache[c][v], epoch |-> sealed + 1,
                read |-> read_epoch_id[c]] : v \in Versions(c)} : c \in G}
  /\ UNCHANGED <<ids, vertices, blocks, begins, compact_table, txn, reading, compacting, bounds,
                 commit_epoch_id>>

\* The loop over vertex_ptr_cache, in no particular order: an entry that is done is dropped.
Install(c, v) ==
  /\ pc[c] = "install" /\ v \in Versions(c)
  /\ vertex_ptrs' = [vertex_ptrs EXCEPT ![v] = vertex_ptr_cache[c][v]]
  /\ vertex_ptr_cache' = [vertex_ptr_cache EXCEPT ![c][v] = NULLPOINTER]
  /\ UNCHANGED <<epochsVars, ids, vertex_futexes, blocks, begins, compact_table, pc,
                 local_txn_id, read_epoch_id, block_cache, new_vertex_cache,
                 recycled_vertex_cache, acquired_locks, reading, compacting, bounds, history>>

\* The loop over recycled_vertex_cache.
PushRecycled(c) ==
  /\ pc[c] = "install" /\ Versions(c) = {} /\ recycled_vertex_cache[c] # <<>>
  /\ recycled_vertex_ids' = Append(recycled_vertex_ids, Head(recycled_vertex_cache[c]))
  /\ recycled_vertex_cache' =
       [recycled_vertex_cache EXCEPT ![c] = Tail(recycled_vertex_cache[c])]
  /\ UNCHANGED <<epochsVars, vertex_id, vertices, blocks, begins, compact_table, pc,
                 local_txn_id, read_epoch_id, vertex_ptr_cache, block_cache, new_vertex_cache,
                 acquired_locks, reading, compacting, bounds, history>>

StampAt(c, p) ==
  /\ pc[c] = "install" /\ Versions(c) = {} /\ recycled_vertex_cache[c] = <<>>
  /\ p \in block_cache[c]
  /\ block' = [block EXCEPT ![p].creation = grant[c]]
  /\ block_cache' = [block_cache EXCEPT ![c] = block_cache[c] \ {p}]
  /\ UNCHANGED <<epochsVars, ids, vertices, freed, begins, compact_table, pc, local_txn_id,
                 read_epoch_id, vertex_ptr_cache, new_vertex_cache, recycled_vertex_cache,
                 acquired_locks, reading, compacting, bounds, history>>

\* A slip: the newest version first.
StampNewestFirst(c) ==
  \E p \in block_cache[c] : StampAt(c, p) /\ \A q \in block_cache[c] : q <= p

\* The loop over timestamps_to_update, in the order of the writes.
Stamp(c) ==
  \E p \in block_cache[c] : StampAt(c, p) /\ \A q \in block_cache[c] : p <= q

\* All is stamped; clean begins.
Stamped(c) ==
  /\ pc[c] = "install" /\ Versions(c) = {} /\ recycled_vertex_cache[c] = <<>>
  /\ block_cache[c] = {}
  /\ Goto(c, "clean")
  /\ UNCHANGED <<epochsVars, ids, vertices, blocks, begins, compact_table, txn, reading,
                 compacting, bounds, history>>

-----------------------------------------------------------------------------
(* Abort, and clean, which ends both *)

\* abort up to clean: nobody else can reach the blocks, only the queue of ids is shared.
Abort(c) ==
  /\ pc[c] = "open" /\ ThreadFree(c)
  /\ block' = [p \in DOMAIN block |->
       IF p \in block_cache[c] THEN [block[p] EXCEPT !.creation = ROLLBACK_TOMBSTONE]
                               ELSE block[p]]
  /\ recycled_vertex_ids' = recycled_vertex_ids \o new_vertex_cache[c]
  /\ freed' = freed \cup block_cache[c]
  /\ Goto(c, "clean")
  /\ UNCHANGED <<epochsVars, vertex_id, vertices, begins, compact_table, txn, reading,
                 compacting, bounds, history>>

\* unlock clears the word, whoever has set it.
Unlock(c, v) ==
  /\ pc[c] = "clean" /\ v \in acquired_locks[c]
  /\ vertex_futexes' = [vertex_futexes EXCEPT ![v] = 0]
  /\ acquired_locks' = [acquired_locks EXCEPT ![c] = acquired_locks[c] \ {v}]
  /\ UNCHANGED <<epochsVars, ids, vertex_ptrs, blocks, begins, compact_table, pc, local_txn_id,
                 read_epoch_id, vertex_ptr_cache, block_cache, new_vertex_cache,
                 recycled_vertex_cache, reading, compacting, bounds, history>>

\* The transaction is no longer valid; its caches die with it.
Leave(c) ==
  /\ pc[c] = "clean" /\ acquired_locks[c] = {}
  /\ read_epoch_table' = [read_epoch_table EXCEPT ![ThreadOf[c]] = NO_TRANSACTION]
  /\ vertex_ptr_cache' = [vertex_ptr_cache EXCEPT ![c] = [v \in VertexId |-> NULLPOINTER]]
  /\ block_cache' = [block_cache EXCEPT ![c] = {}]
  /\ new_vertex_cache' = [new_vertex_cache EXCEPT ![c] = <<>>]
  /\ recycled_vertex_cache' = [recycled_vertex_cache EXCEPT ![c] = <<>>]
  /\ Goto(c, IF stage[c] = "granted" THEN "finish" ELSE "idle")
  /\ UNCHANGED <<epochsVars, ids, vertices, blocks, transaction_id, compact_table, local_txn_id,
                 read_epoch_id, acquired_locks, reading, compacting, bounds, history>>

\* A slip: a commit that does not wait does not say it has finished either.
FinishCommitQuietly(c, wait_visable) ==
  /\ pc[c] = "finish" /\ Goto(c, IF wait_visable THEN "spin" ELSE "idle")
  /\ commit_epoch_id' = [commit_epoch_id EXCEPT ![c] = grant[c]]
  /\ IF wait_visable THEN Finish(c) ELSE UNCHANGED epochsVars
  /\ UNCHANGED <<ids, vertices, blocks, begins, compact_table, txn, reading, compacting, bounds,
                 committed>>

\* finish_commit up to the wait for the epoch.
FinishCommit(c, wait_visable) ==
  /\ pc[c] = "finish" /\ Finish(c)
  /\ IF wait_visable
       THEN Goto(c, "spin") /\ commit_epoch_id' = [commit_epoch_id EXCEPT ![c] = grant[c]]
       ELSE Goto(c, "idle") /\ UNCHANGED commit_epoch_id
  /\ UNCHANGED <<ids, vertices, blocks, begins, compact_table, txn, reading, compacting, bounds,
                 committed>>

\* A slip: the wait is for the epoch before.
SpinOneShort(c) ==
  /\ pc[c] = "spin" /\ epoch_id + 1 >= commit_epoch_id[c]
  /\ Goto(c, "idle")
  /\ UNCHANGED <<epochsVars, ids, vertices, blocks, begins, compact_table, txn, reading,
                 compacting, bounds, history>>

Spin(c) ==
  /\ pc[c] = "spin" /\ epoch_id >= commit_epoch_id[c]
  /\ Goto(c, "idle")
  /\ UNCHANGED <<epochsVars, ids, vertices, blocks, begins, compact_table, txn, reading,
                 compacting, bounds, history>>

\* The server's part: an epoch becomes the one transactions begin at.
Publish ==
  /\ MakeVisible
  /\ UNCHANGED <<ids, vertices, blocks, begins, compact_table, pc, txn, reading, compacting,
                 bounds, history>>

-----------------------------------------------------------------------------
(* Compaction *)

\* The application calls Graph::compact between its transactions.
Compact(c) ==
  /\ pc[c] = "idle" /\ ThreadFree(c) /\ compacts < MaxCompact
  /\ StartCompact(c, epoch_id, "idle")
  /\ compacts' = compacts + 1
  /\ UNCHANGED <<epochsVars, ids, vertices, blocks, begins, compact_table, txn, reading, txns,
                 ops, history>>

ScanWith(c, t, bound) ==
  /\ pc[c] = "scan" /\ t \in compacting[c].threads
  /\ PreemptedBegins \/ \A d \in Client : pc[d] # "publish"
  /\ compacting' = [compacting EXCEPT ![c].threads = compacting[c].threads \ {t},
                                      ![c].bound = bound]
  /\ UNCHANGED <<epochsVars, ids, vertices, blocks, begins, compact_table, pc, txn, reading,
                 bounds, history>>

\* A slip: the newest snapshot in use is taken for the bound.
ScanThreadNewest(c, t) ==
  ScanWith(c, t, IF read_epoch_table[t] > compacting[c].bound
                   THEN read_epoch_table[t] ELSE compacting[c].bound)

ScanThread(c, t) ==
  ScanWith(c, t, IF read_epoch_table[t] # NO_TRANSACTION /\ read_epoch_table[t] < compacting[c].bound
                   THEN read_epoch_table[t] ELSE compacting[c].bound)

Scanned(c) ==
  /\ pc[c] = "scan" /\ compacting[c].threads = {}
  /\ compacting' = [compacting EXCEPT ![c].todo = compact_table[ThreadOf[c]]]
  /\ Goto(c, "compact")
  /\ UNCHANGED <<epochsVars, ids, vertices, blocks, begins, compact_table, txn, reading, bounds,
                 history>>

\* The chain from p on: the fewest versions that are p and whatever is behind one of them.
Reach(p) ==
  {q \in DOMAIN block : \A Behind \in SUBSET DOMAIN block :
     /\ p \in Behind \cup {NULLPOINTER}
     /\ \A r \in Behind : block[r].prev \in Behind \cup {NULLPOINTER}
     => q \in Behind}

\* The version compaction stops at: the first in the chain, which is the newest and so the one
\* in the last block, from before the bound.
Cuts(v, bound) ==
  LET before == {p \in Reach(vertex_ptrs[v]) : Before(block[p].creation, bound)}
  IN  {p \in before : \A q \in before : q <= p}

Garbage(v, bound) == UNION {Reach(block[p].prev) : p \in Cuts(v, bound)}

\* A slip: only a version that was cut under counts.
NeverNeedsFuture(v, bound) == FALSE

\* Versions newer than the bound, and older ones under them.
NeedsFuture(v, bound) ==
  LET head == vertex_ptrs[v]
  IN  /\ head # NULLPOINTER /\ ~Before(block[head].creation, bound)
      /\ block[head].prev # NULLPOINTER

Done(c, v, again) ==
  compacting' = [compacting EXCEPT ![c].todo = compacting[c].todo \ {v},
                                   ![c].keep = compacting[c].keep \cup again]

\* One vertex under its lock.  Others only read the chain meanwhile.
CompactVertex(c, v) ==
  LET bound == compacting[c].bound IN
  /\ pc[c] = "compact" /\ v \in compacting[c].todo /\ vertex_futexes[v] = 0
  /\ block' = [p \in DOMAIN block |->
       IF p \in Cuts(v, bound) THEN [block[p] EXCEPT !.prev = NULLPOINTER] ELSE block[p]]
  /\ freed' = freed \cup Garbage(v, bound)
  /\ Done(c, v, IF NeedsFuture(v, bound) THEN {v} ELSE {})
  /\ UNCHANGED <<epochsVars, ids, vertices, begins, compact_table, pc, txn, reading, bounds,
                 history>>

\* The lock does not come in time: another time.
CompactSkip(c, v) ==
  /\ pc[c] = "compact" /\ v \in compacting[c].todo /\ vertex_futexes[v] = 1
  /\ Done(c, v, {v})
  /\ UNCHANGED <<epochsVars, ids, vertices, blocks, begins, compact_table, pc, txn, reading,
                 bounds, history>>

Compacted(c) ==
  /\ pc[c] = "compact" /\ compacting[c].todo = {}
  /\ compact_table' = [compact_table EXCEPT ![ThreadOf[c]] = compacting[c].keep]
  /\ compacting' = [compacting EXCEPT ![c] = NotCompacting]
  /\ Goto(c, compacting[c].resume)
  /\ UNCHANGED <<epochsVars, ids, vertices, blocks, begins, txn, reading, bounds, history>>

-----------------------------------------------------------------------------
(* The system *)

\* What an application may call next.
Call(c) ==
  \/ BeginLoad(c) \/ Commit(c) \/ Abort(c) \/ Compact(c)
  \/ \E v \in VertexId :
       \/ GetVertex(c, v) \/ PutVertex(c, v)
       \/ \E recycle \in Recycle : DelVertex(c, v, recycle)
  \/ \E use_recycled_vertex \in Reuse : NewVertex(c, use_recycled_vertex)

\* A call going on.
CallStep(c) ==
  \/ BeginPublish(c) \/ WalkOn(c) \/ Return(c)
  \/ PushRecycled(c) \/ Stamp(c) \/ Stamped(c) \/ Leave(c) \/ Spin(c)
  \/ \E wait_visable \in BOOLEAN : FinishCommit(c, wait_visable)
  \/ \E v \in VertexId : Install(c, v) \/ Unlock(c, v) \/ CompactVertex(c, v) \/ CompactSkip(c, v)
  \/ \E t \in Thread : ScanThread(c, t)
  \/ Scanned(c) \/ Compacted(c)

Next ==
  \/ \E c \in Client : Call(c) \/ CallStep(c)
  \/ \E G \in SUBSET Client : RegisterGroup(G)
  \/ Publish

Spec == Init /\ [][Next]_vars

\* A thread inside a call runs; the commit manager forms groups and publishes epochs.
FairSpec ==
  /\ Spec
  /\ \A c \in Client : WF_vars(CallStep(c))
  /\ \A c \in Client : WF_vars(\E G \in SUBSET Client : c \in G /\ RegisterGroup(G))
  /\ WF_vars(Publish)
-----------------------------------------------------------------------------
(* Properties *)

Stamps == (-transaction_id .. sealed) \cup {ROLLBACK_TOMBSTONE}

\* Types.  No transaction's version is ever stamped 0, which every snapshot would see:
\* transaction ids begin at 1, and so do the epochs granted (graph.cpp 23, utils.hpp 53).
TypeOK ==
  /\ vertex_id \in 0 .. MaxVertex /\ recycled_vertex_ids \in Seq(VertexId)
  /\ vertex_futexes \in [VertexId -> {0, 1}] /\ vertex_ptrs \in [VertexId -> 0 .. Len(block)]
  /\ Len(block) <= MaxBlock
  /\ block \in Seq([vid : VertexId, creation : Stamps, prev : Pointer, dead : BOOLEAN])
  /\ \A p \in Loaded + 1 .. Len(block) : block[p].creation # 0
  /\ freed \subseteq 1 .. Len(block)
  /\ transaction_id \in Nat
  /\ read_epoch_table \in [Thread -> {NO_TRANSACTION} \cup 0 .. visible]
  /\ compact_table \in [Thread -> SUBSET VertexId]
  /\ pc \in [Client -> {"idle", "publish", "open", "walk", "registered", "install", "clean",
                        "finish", "spin", "scan", "compact"}]
  /\ local_txn_id \in [Client -> 0 .. transaction_id]
  /\ read_epoch_id \in [Client -> 0 .. visible]
  /\ vertex_ptr_cache \in [Client -> [VertexId -> 0 .. Len(block)]]
  /\ block_cache \in [Client -> SUBSET (1 .. Len(block))]
  /\ new_vertex_cache \in [Client -> Seq(VertexId)]
  /\ recycled_vertex_cache \in [Client -> Seq(VertexId)]
  /\ acquired_locks \in [Client -> SUBSET VertexId]
  /\ reading \in [Client -> [vid : VertexId \cup {0}, ptr : 0 .. Len(block)]]
  /\ compacting \in [Client -> [bound : Nat, threads : SUBSET Thread, todo : SUBSET VertexId,
                                keep : SUBSET VertexId, resume : {"idle", "open"}]]
  /\ txns \in [Client -> Nat] /\ ops \in [Client -> Nat] /\ compacts \in Nat
  /\ commit_epoch_id \in [Client -> 0 .. sealed]
  /\ committed \subseteq [vid : VertexId, ptr : 1 .. Len(block), epoch : 0 .. sealed,
                          read : 0 .. visible]

\* A client that has its snapshot and has not given it up.
Active(c) == pc[c] \in {"publish", "open", "walk"} \/ compacting[c].resume = "open"

\* What c must see of v: its own last write, else the newest version committed in its snapshot.
InSnapshot(c, v) == {x \in committed : x.vid = v /\ x.epoch <= read_epoch_id[c]}
Expected(c, v) ==
  IF c \notin ReadOnly /\ vertex_ptr_cache[c][v] # NULLPOINTER THEN vertex_ptr_cache[c][v]
  ELSE IF InSnapshot(c, v) = {} THEN NULLPOINTER
  ELSE (CHOOSE x \in InSnapshot(c, v) : \A y \in InSnapshot(c, v) : y.epoch <= x.epoch).ptr

\* get_vertex returns the transaction's own last write, else the newest version committed at
\* or before its snapshot, however commits, aborts and compactions go on around the walk
\* (transaction.cpp 171-210).
SnapshotReads ==
  \A c \in Client : pc[c] = "walk" /\ Arrived(c) => reading[c].ptr = Expected(c, reading[c].vid)

\* No version that a transaction with its snapshot may still read is freed, no reader stands on a
\* freed version, and none can be reached from its vertex, whether it was freed by compaction or
\* by abort (graph.cpp 49-96, transaction.cpp 592-595).
ReadersKeepVersions ==
  /\ \A c \in Client : Active(c) =>
       /\ \A v \in VertexId : Expected(c, v) \notin freed
       /\ reading[c].ptr \notin freed
  /\ \A v \in VertexId : Reach(vertex_ptrs[v]) \cap freed = {}

\* Of two transactions that wrote the same vertex and committed, one has the other in its
\* snapshot: no update is lost (ensure_no_confict, transaction.hpp 180-185).
FirstCommitterWins ==
  \A x, y \in committed :
    x.vid = y.vid /\ x # y => x.epoch <= y.read \/ y.epoch <= x.read

\* Once a version is committed so are those under it, none in a later epoch: what the walk
\* and the compaction take for granted (transaction.cpp 193-199, graph.cpp 74).
VersionsNewestFirst ==
  \A v \in VertexId : \A p \in Reach(vertex_ptrs[v]) :
    LET older == block[p].prev
    IN  older # NULLPOINTER /\ block[p].creation >= 0 =>
          0 <= block[older].creation /\ block[older].creation <= block[p].creation

\* A vertex that has old versions is in the compact table of some thread: its garbage will be
\* looked at again (graph.cpp 62, 101-103, 183-189).
GarbageTracked ==
  \A v \in VertexId :
    Cardinality(Reach(vertex_ptrs[v])) > 1 => \E t \in Thread : v \in compact_table[t]

\* A transaction reads its own last write; and a client that waited for its commit sees it in every
\* later transaction of its own (transaction.cpp 180-196, commit_manager.hpp 105-110, graph.cpp 24).
ReadsYourWrites ==
  \A c \in Client :
    /\ Active(c) => read_epoch_id[c] >= commit_epoch_id[c]
    /\ pc[c] = "walk" /\ Arrived(c) /\ c \notin ReadOnly =>
         vertex_ptr_cache[c][reading[c].vid] \in {NULLPOINTER, reading[c].ptr}

\* Every call returns: no thread waits for ever for a group, an epoch or another thread.
CallsReturn == \A c \in Client : pc[c] \notin {"idle", "open"} ~> pc[c] \in {"idle", "open"}
=============================================================================
