------------------------- MODULE LGTransactionsProof -------------------------
(***************************************************************************)
(* The transactions of LGTransactions, for any clients, vertices and       *)
(* numbers of transactions and compactions.  Types and ReadsYourWrites     *)
(* hold without a condition; the order of the versions holds while the     *)
(* counters are in range; that no update is lost and no garbage forgotten  *)
(* also needs ids that are used once; and what the readers see and keep    *)
(* also needs a thread of its own for each client, and begins that no      *)
(* compaction interrupts.                                                  *)
(***************************************************************************)
EXTENDS LGTransactions, FiniteSetTheorems, SequenceTheorems, WellFoundedInduction, TLAPS

\* Ids and epochs are below the end of their range, which marks what an abort leaves.
InRange == transaction_id < ROLLBACK_TOMBSTONE - 1 /\ sealed < ROLLBACK_TOMBSTONE

\* No vertex id is ever used for a second vertex.
IdsUsedOnce == Recycle \subseteq {FALSE} /\ Reuse \subseteq {FALSE}

\* Each client has its thread to itself, and no compaction scans between a begin's two steps.
OwnThreads ==
  /\ \A c, d \in Client : ThreadOf[c] = ThreadOf[d] => c = d
  /\ ~PreemptedBegins

\* The versions of v that no abort has taken back, and those a transaction has not stamped yet.
Live(v)      == {p \in DOMAIN block : block[p].vid = v /\ block[p].creation # ROLLBACK_TOMBSTONE}
Unstamped(c) == IF pc[c] = "clean" THEN {} ELSE block_cache[c]

-----------------------------------------------------------------------------
(* The parts of the inductive invariants: types and places *)

\* An epoch is visible when its commits are done.
EpochInv ==
  /\ sealed \in Nat /\ visible \in 0 .. sealed
  /\ stage \in [Client -> {"idle", "queued", "granted"}] /\ grant \in [Client -> 0 .. sealed]
  /\ \A c \in Client : stage[c] = "granted" => visible < grant[c]

\* A version's predecessor is older.
OlderInv == \A p \in DOMAIN block : block[p].prev < p

\* Where a client is with its commit, its reads and its compaction, and that it has an id.
PlaceOf(c) ==
  /\ stage[c] = "queued" <=> pc[c] = "registered"
  /\ pc[c] \in {"install", "finish"} => stage[c] = "granted"
  /\ stage[c] = "granted" => pc[c] \in {"install", "clean", "finish"}
  /\ pc[c] \notin {"scan", "compact"} => compacting[c] = NotCompacting
  /\ pc[c] # "walk" => reading[c] = NotReading
  /\ c \in ReadOnly => pc[c] \notin {"registered", "install"}
  /\ c \notin ReadOnly /\ (Active(c) \/ pc[c] \in {"registered", "install"}) => local_txn_id[c] > 0

PlaceInv == \A c \in Client : PlaceOf(c)
Types    == TypeOK /\ EpochInv /\ OlderInv /\ PlaceInv

-----------------------------------------------------------------------------
(* A transaction's own versions *)

\* Only a writing transaction has versions and locks.
HoldsOf(c) ==
  c \in ReadOnly \/ pc[c] \notin {"open", "walk", "registered", "install", "clean"} =>
    /\ block_cache[c] = {} /\ acquired_locks[c] = {}
    /\ \A v \in VertexId : vertex_ptr_cache[c][v] = NULLPOINTER

\* A version is stamped with its transaction's id, and the newest of a vertex is in the cache
\* till it is installed.
CacheOf(c) ==
  /\ \A p \in Unstamped(c) :
       /\ block[p].creation = -local_txn_id[c]
       /\ pc[c] # "install" => vertex_ptr_cache[c][block[p].vid] # NULLPOINTER
  /\ \A v \in VertexId : vertex_ptr_cache[c][v] # NULLPOINTER /\ pc[c] # "clean" =>
       /\ vertex_ptr_cache[c][v] \in block_cache[c] /\ block[vertex_ptr_cache[c][v]].vid = v
       /\ \A p \in block_cache[c] : block[p].vid = v => p <= vertex_ptr_cache[c][v]

\* A reader of a vertex it has written stands on its own version.
WalkOf(c) ==
  pc[c] = "walk" =>
    /\ reading[c].vid \in VertexId
    /\ c \notin ReadOnly /\ vertex_ptr_cache[c][reading[c].vid] # NULLPOINTER =>
         reading[c].ptr = vertex_ptr_cache[c][reading[c].vid]

\* A client that has waited for its commit has waited long enough.
WaitOf(c) ==
  /\ Active(c) => commit_epoch_id[c] <= read_epoch_id[c]
  /\ pc[c] # "spin" => commit_epoch_id[c] <= visible

\* No two transactions share an id or a version.
ApartInv ==
  \A c, d \in Client : c # d =>
    /\ local_txn_id[c] # 0 => local_txn_id[c] # local_txn_id[d]
    /\ Unstamped(c) \cap Unstamped(d) = {}

HoldsInv == \A c \in Client : HoldsOf(c)
CacheInv == \A c \in Client : CacheOf(c)
WalkInv  == \A c \in Client : WalkOf(c)
WaitInv  == \A c \in Client : WaitOf(c)

OwnInv == Types /\ HoldsInv /\ CacheInv /\ ApartInv /\ WalkInv /\ WaitInv

-----------------------------------------------------------------------------
(* The order of the versions *)

\* A version without an epoch is some transaction's.
LooseInv ==
  \A p \in DOMAIN block : block[p].creation < 0 => \E c \in Client : p \in Unstamped(c)

\* Behind a version with an epoch is one with an epoch that is not later, and behind one of a
\* transaction is one of the same, or one that was committed before it ends.
Since(c) == IF pc[c] = "install" THEN grant[c] ELSE read_epoch_id[c]
OrderOf(p) ==
  LET older == block[p].prev IN
  older # NULLPOINTER =>
    /\ block[p].creation >= 0 => block[older].creation \in 0 .. block[p].creation
    /\ \A c \in Client : p \in Unstamped(c) =>
         older \in Unstamped(c) \/ block[older].creation \in 0 .. Since(c)

OrderInv == \A p \in DOMAIN block : OrderOf(p)

-----------------------------------------------------------------------------
(* The versions of a vertex, when ids are used once *)

\* Whoever has written a vertex has its lock.
LockOf(c) ==
  /\ recycled_vertex_cache[c] = <<>>
  /\ \A v \in acquired_locks[c] : v < vertex_id /\ vertex_futexes[v] = 1
  /\ \A d \in Client \ {c} : acquired_locks[c] \cap acquired_locks[d] = {}
  /\ \A p \in Unstamped(c) : block[p].vid \in acquired_locks[c]

\* Versions without an epoch are on top, and the epochs below only grow.
StampsOf(v, p) ==
  \A q \in Live(v) : p < q =>
    /\ \A c \in Client : p \in Unstamped(c) => q \in Unstamped(c)
    /\ block[p].creation >= 0 /\ block[q].creation >= 0 => block[p].creation <= block[q].creation
    /\ \A c \in Client : block[p].creation >= 0 /\ pc[c] = "install" /\ q \in Unstamped(c) =>
         block[p].creation <= grant[c]

\* The vertex points to the newest version that is not just waiting for its commit, and only a
\* fresh id has no version.
HeadOf(v) ==
  /\ vertex_ptrs[v] \in Live(v) \cup {NULLPOINTER}
  /\ \A p \in Live(v) :
       /\ p > vertex_ptrs[v] => \E c \in Client :
            p \in Unstamped(c) /\ (pc[c] = "install" => vertex_ptr_cache[c][v] # NULLPOINTER)
       /\ p <= vertex_ptrs[v] => \A c \in Client :
            p \in Unstamped(c) => pc[c] = "install" /\ vertex_ptr_cache[c][v] = NULLPOINTER
  /\ v >= vertex_id => /\ vertex_ptrs[v] = NULLPOINTER
                       /\ \A p \in DOMAIN block : block[p].vid # v

\* A live version is behind the next one, unless it was cut off.
LinkOf(v, p) ==
  block[p].prev # NULLPOINTER =>
    /\ block[p].prev \in Live(v)
    /\ \A q \in Live(v) : q < p => q <= block[p].prev

\* A commit is the last version of its epoch.
CommitOf(x) ==
  /\ x.ptr \in Live(x.vid)
  /\ \/ block[x.ptr].creation = x.epoch
     \/ \E c \in Client : pc[c] = "install" /\ x.ptr \in Unstamped(c) /\ grant[c] = x.epoch
  /\ \A q \in Live(x.vid) : q > x.ptr =>
       \/ block[q].creation > x.epoch
       \/ \E c \in Client : q \in Unstamped(c) /\ (pc[c] = "install" => grant[c] > x.epoch)

\* Who writes a vertex has all its commits in the snapshot.
WriterOf(c) ==
  pc[c] # "install" =>
    \A p \in Unstamped(c), x \in committed : x.vid = block[p].vid => x.epoch <= read_epoch_id[c]

\* A vertex with an old version, or which may have one once a commit is done, is in a table.
Tracks(t, v) ==
  /\ v \in compact_table[t]
  /\ \A c \in Client : ThreadOf[c] = t /\ pc[c] = "compact" =>
       v \in compacting[c].todo \cup compacting[c].keep

TrackInv ==
  /\ \A c \in Client : \A p \in Unstamped(c) : Tracks(ThreadOf[c], block[p].vid)
  /\ \A v \in VertexId : vertex_ptrs[v] # NULLPOINTER /\ block[vertex_ptrs[v]].prev # NULLPOINTER =>
       \E t \in Thread : Tracks(t, v)

LockInv   == \A c \in Client : LockOf(c)
StampsInv == \A v \in VertexId : \A p \in Live(v) : StampsOf(v, p)
HeadInv   == \A v \in VertexId : HeadOf(v)
LinkInv   == \A v \in VertexId : \A p \in Live(v) : LinkOf(v, p)
CommitInv == \A x \in committed : CommitOf(x)
WriterInv == \A c \in Client : WriterOf(c)

-----------------------------------------------------------------------------
(* Snapshots, when also threads are not shared and begins not preempted *)

\* Every epoch on a version is a commit's.
Recorded(v, p, e) == \E x \in committed : x.vid = v /\ x.epoch = e /\ p <= x.ptr

HistoryInv ==
  \A v \in VertexId : \A p \in Live(v) :
    /\ block[p].creation >= 0 => Recorded(v, p, block[p].creation)
    /\ \A c \in Client : pc[c] = "install" /\ p \in Unstamped(c) => Recorded(v, p, grant[c])

\* Compaction cuts only where every snapshot in use and to come stops.
CutOf(v, p) ==
  block[p].prev = NULLPOINTER =>
    \/ \A q \in Live(v) : p <= q
    \/ /\ block[p].creation \in 0 .. visible
       /\ \A c \in Client : Active(c) => block[p].creation <= read_epoch_id[c]

\* A reader is below the head and has not gone past what it must return.
ReadOf(c) ==
  LET v == reading[c].vid  p == reading[c].ptr IN
  pc[c] = "walk" /\ (c \in ReadOnly \/ vertex_ptr_cache[c][v] = NULLPOINTER) =>
    /\ p # NULLPOINTER => p \in Live(v) /\ p <= vertex_ptrs[v]
    /\ \A x \in InSnapshot(c, v) : x.ptr <= p

TableOf(c) == Active(c) /\ pc[c] # "publish" => read_epoch_table[ThreadOf[c]] = read_epoch_id[c]

\* A compaction's bound is not above the snapshots of the places it has scanned, except that one
\* from a begin, whose bound is an id at first, may have its own place still to scan.
Bounded(c, e) ==
  \/ compacting[c].bound <= e
  \/ /\ compacting[c].resume = "open" /\ ThreadOf[c] \in compacting[c].threads
     /\ read_epoch_id[c] <= e

BoundOf(c) ==
  pc[c] \in {"scan", "compact"} =>
    /\ Bounded(c, visible)
    /\ pc[c] = "compact" => compacting[c].threads = {}
    /\ \A d \in Client : Active(d) /\ ThreadOf[d] \notin compacting[c].threads =>
         Bounded(c, read_epoch_id[d])

\* A live version that was freed is below one that was cut off.
FreedOf(v) ==
  \A q \in freed \cap Live(v) :
    /\ block[q].creation >= 0
    /\ \E p \in Live(v) : q < p /\ p <= vertex_ptrs[v] /\ block[p].prev = NULLPOINTER

CutInv   == \A v \in VertexId : \A p \in Live(v) : CutOf(v, p)
ReadInv  == \A c \in Client : ReadOf(c)
TableInv == \A c \in Client : TableOf(c)
BoundInv == \A c \in Client : BoundOf(c)
FreedInv == \A v \in VertexId : FreedOf(v)

-----------------------------------------------------------------------------
(* The inductive invariants of the theorems after Typing *)

RangeInv == OwnInv /\ LooseInv /\ OrderInv
OnceInv  == /\ RangeInv /\ LockInv /\ StampsInv /\ HeadInv /\ LinkInv /\ CommitInv /\ WriterInv
            /\ FirstCommitterWins /\ TrackInv
SnapInv  == OnceInv /\ HistoryInv /\ CutInv /\ ReadInv /\ TableInv /\ BoundInv /\ FreedInv
-----------------------------------------------------------------------------
(* Types. *)

USE DEF NULLPOINTER

\* A function on 1 .. n is a sequence of length n.
LEMMA FunctionIsSeq ==
  ASSUME NEW S, NEW n \in Nat, NEW f \in [1 .. n -> S]
  PROVE  f \in Seq(S) /\ Len(f) = n
<1>1. f \in Seq(S)
  OBVIOUS
<1>2. DOMAIN f = 1 .. n /\ DOMAIN f = 1 .. Len(f) /\ Len(f) \in Nat
  BY <1>1, LenProperties
<1>3. Len(f) = n
  BY <1>2
<1> QED BY <1>1, <1>3

\* What the types say of versions and of what points to them.
LEMMA Facts ==
  ASSUME TypeOK, EpochInv
  PROVE  /\ Len(block) \in Nat /\ DOMAIN block = 1 .. Len(block) /\ Len(block) <= MaxBlock
         /\ transaction_id \in Nat /\ sealed \in Nat /\ visible \in Nat /\ visible <= sealed
         /\ \A p \in DOMAIN block :
              /\ p \in Nat /\ p > 0
              /\ block[p] \in [vid : VertexId, creation : Stamps, prev : Pointer, dead : BOOLEAN]
              /\ block[p].vid \in VertexId /\ block[p].creation \in Int /\ block[p].prev \in Nat
         /\ \A v \in VertexId : v \in Nat /\ vertex_ptrs[v] \in 0 .. Len(block)
         /\ \A c \in Client :
              /\ ThreadOf[c] \in Thread
              /\ local_txn_id[c] \in Nat /\ local_txn_id[c] <= transaction_id
              /\ read_epoch_id[c] \in Nat /\ read_epoch_id[c] <= visible
              /\ grant[c] \in Nat /\ grant[c] <= sealed
              /\ block_cache[c] \subseteq DOMAIN block
              /\ reading[c].ptr \in 0 .. Len(block)
              /\ \A v \in VertexId : vertex_ptr_cache[c][v] \in 0 .. Len(block)
<1>1. transaction_id \in Nat /\ sealed \in Nat /\ visible \in Nat /\ visible <= sealed
  BY DEF TypeOK, EpochInv
<1>2. /\ Len(block) \in Nat /\ DOMAIN block = 1 .. Len(block) /\ Len(block) <= MaxBlock
      /\ \A p \in DOMAIN block :
           block[p] \in [vid : VertexId, creation : Stamps, prev : Pointer, dead : BOOLEAN]
  <2>1. /\ block \in Seq([vid : VertexId, creation : Stamps, prev : Pointer, dead : BOOLEAN])
        /\ Len(block) <= MaxBlock
    BY DEF TypeOK
  <2> QED BY <2>1, LenProperties
<1>3. ASSUME NEW p \in DOMAIN block
      PROVE  /\ p \in Nat /\ p > 0
             /\ block[p].vid \in VertexId /\ block[p].creation \in Int /\ block[p].prev \in Nat
  BY <1>1, <1>2, BoundsAssumption DEF Stamps, Pointer, ROLLBACK_TOMBSTONE
<1>4. \A v \in VertexId : v \in Nat /\ vertex_ptrs[v] \in 0 .. Len(block)
  BY BoundsAssumption DEF TypeOK, VertexId
<1>5. ASSUME NEW c \in Client
      PROVE  /\ ThreadOf[c] \in Thread
             /\ local_txn_id[c] \in Nat /\ local_txn_id[c] <= transaction_id
             /\ read_epoch_id[c] \in Nat /\ read_epoch_id[c] <= visible
             /\ grant[c] \in Nat /\ grant[c] <= sealed
             /\ block_cache[c] \subseteq DOMAIN block
             /\ reading[c].ptr \in 0 .. Len(block)
             /\ \A v \in VertexId : vertex_ptr_cache[c][v] \in 0 .. Len(block)
  BY <1>1, <1>2, ThreadsAssumption DEF TypeOK, EpochInv
<1> QED BY <1>1, <1>2, <1>3, <1>4, <1>5

\* Versions keep their type when the stamps in use grow.
LEMMA BlockType ==
  ASSUME TypeOK, EpochInv, transaction_id' \in Nat, sealed' \in Nat,
         transaction_id' >= transaction_id, sealed' >= sealed
  PROVE  /\ Stamps \subseteq Stamps'
         /\ block \in Seq([vid : VertexId, creation : Stamps', prev : Pointer, dead : BOOLEAN])
<1>1. Stamps \subseteq Stamps'
  BY Facts DEF Stamps
<1>2. [vid : VertexId, creation : Stamps, prev : Pointer, dead : BOOLEAN] \subseteq
      [vid : VertexId, creation : Stamps', prev : Pointer, dead : BOOLEAN]
  BY <1>1
<1> QED BY <1>1, <1>2, SeqMonotonic DEF TypeOK

\* What a step of the epochs does to their invariant.
LEMMA EpochStep ==
  ASSUME EpochInv,
         \/ UNCHANGED epochsVars
         \/ \E c \in Client : Ask(c) \/ Finish(c)
         \/ \E G \in SUBSET Client : Grant(G)
         \/ MakeVisible
  PROVE  /\ EpochInv' /\ sealed' >= sealed /\ visible' >= visible /\ sealed' \in Nat /\ visible' \in Nat
<1>1. CASE UNCHANGED epochsVars
  BY <1>1 DEF EpochInv, epochsVars
<1>2. ASSUME NEW c \in Client, Ask(c) \/ Finish(c)
      PROVE  EpochInv' /\ sealed' >= sealed /\ visible' >= visible
  <2>1. CASE Ask(c)
    BY <2>1 DEF EpochInv, Ask
  <2>2. CASE Finish(c)
    BY <2>2 DEF EpochInv, Finish
  <2> QED BY <1>2, <2>1, <2>2
<1>3. ASSUME NEW G \in SUBSET Client, Grant(G)
      PROVE  EpochInv' /\ sealed' >= sealed /\ visible' >= visible
  <2>1. sealed' = sealed + 1 /\ visible' = visible /\ sealed \in Nat /\ visible \in 0 .. sealed
    BY <1>3 DEF EpochInv, Grant
  <2>2. /\ stage' \in [Client -> {"idle", "queued", "granted"}]
        /\ grant' \in [Client -> 0 .. sealed']
    BY <1>3, <2>1 DEF EpochInv, Grant
  <2>3. \A c \in Client : stage'[c] = "granted" => visible' < grant'[c]
    BY <1>3, <2>1 DEF EpochInv, Grant
  <2> QED BY <2>1, <2>2, <2>3 DEF EpochInv
<1>4. CASE MakeVisible
  <2>1. \A c \in Client : stage[c] = "granted" => grant[c] # visible + 1
    BY <1>4 DEF MakeVisible, Holders
  <2> QED BY <1>4, <2>1 DEF EpochInv, MakeVisible
<1>5. EpochInv' => sealed' \in Nat /\ visible' \in Nat
  BY DEF EpochInv
<1> QED BY <1>1, <1>2, <1>3, <1>4, <1>5

\* The versions of Types only grow in number, and never point up.
LEMMA AddVersionType ==
  ASSUME TypeOK, EpochInv, OlderInv, NEW c \in Client, NEW v \in VertexId, NEW dead \in BOOLEAN,
         local_txn_id[c] > 0, AddVersion(c, v, dead), UNCHANGED <<transaction_id, epochsVars>>
  PROVE  /\ block' \in Seq([vid : VertexId, creation : Stamps', prev : Pointer, dead : BOOLEAN])
         /\ Len(block') = Len(block) + 1 /\ Len(block') <= MaxBlock
         /\ \A p \in DOMAIN block : block'[p] = block[p]
         /\ block'[Len(block')] = [vid |-> v, creation |-> -local_txn_id[c],
                                   prev |-> Newest(c, v), dead |-> dead]
         /\ Newest(c, v) \in 0 .. Len(block)
         /\ OlderInv'
<1> DEFINE new == [vid |-> v, creation |-> -local_txn_id[c], prev |-> Newest(c, v), dead |-> dead]
           V == [vid : VertexId, creation : Stamps, prev : Pointer, dead : BOOLEAN]
<1>1. Newest(c, v) \in 0 .. Len(block) /\ Len(block) < MaxBlock /\ Len(block) \in Nat
  BY Facts DEF Newest, AddVersion
<1>2. new \in V
  BY <1>1, Facts, BoundsAssumption DEF Stamps, Pointer
<1>3. block \in Seq(V) /\ Stamps' = Stamps /\ block' = Append(block, new)
  BY DEF TypeOK, AddVersion, Stamps, epochsVars
<1> HIDE DEF new, V
<1>4. /\ block' \in Seq(V) /\ Len(block') = Len(block) + 1
      /\ \A i \in 1 .. Len(block) : block'[i] = block[i]
      /\ block'[Len(block) + 1] = new
  BY <1>2, <1>3, AppendProperties
<1>5. OlderInv'
  <2>1. ASSUME NEW p \in DOMAIN block' PROVE block'[p].prev < p
    <3>1. p \in 1 .. Len(block) \/ p = Len(block) + 1
      BY <1>1, <1>4, LenProperties
    <3>2. CASE p \in 1 .. Len(block)
      BY <1>4, <3>2, Facts DEF OlderInv
    <3>3. CASE p = Len(block) + 1
      BY <1>1, <1>4, <3>3 DEF new
    <3> QED BY <3>1, <3>2, <3>3
  <2> QED BY <2>1 DEF OlderInv
<1>6. \A p \in DOMAIN block : block'[p] = block[p]
  BY <1>4, Facts
<1>7. block' \in Seq([vid : VertexId, creation : Stamps', prev : Pointer, dead : BOOLEAN])
  <2>1. [vid : VertexId, creation : Stamps', prev : Pointer, dead : BOOLEAN] = V
    BY <1>3 DEF V
  <2> QED BY <1>4, <2>1
<1>8. block'[Len(block')] = [vid |-> v, creation |-> -local_txn_id[c], prev |-> Newest(c, v), dead |-> dead]
  BY <1>4 DEF new
<1>9. Len(block') <= MaxBlock
  BY <1>1, <1>4, BoundsAssumption
<1> HIDE DEF new
<1> QED BY <1>1, <1>4, <1>5, <1>6, <1>7, <1>8, <1>9

\* The types that depend on counters only get wider.
LEMMA Wider ==
  ASSUME TypeOK, EpochInv, sealed' \in Nat, visible' \in Nat, sealed' >= sealed, visible' >= visible,
         transaction_id' \in Nat, transaction_id' >= transaction_id
  PROVE  /\ block \in Seq([vid : VertexId, creation : Stamps', prev : Pointer, dead : BOOLEAN])
         /\ read_epoch_table \in [Thread -> {NO_TRANSACTION} \cup 0 .. visible']
         /\ local_txn_id \in [Client -> 0 .. transaction_id']
         /\ read_epoch_id \in [Client -> 0 .. visible']
         /\ commit_epoch_id \in [Client -> 0 .. sealed']
         /\ committed \subseteq [vid : VertexId, ptr : 1 .. Len(block), epoch : 0 .. sealed',
                                 read : 0 .. visible']
<1>1. sealed \in Nat /\ visible \in Nat /\ transaction_id \in Nat
  BY Facts
<1>2. 0 .. sealed \subseteq 0 .. sealed' /\ 0 .. visible \subseteq 0 .. visible'
  BY <1>1
<1>3. 0 .. transaction_id \subseteq 0 .. transaction_id'
  BY <1>1
<1>4. \A x \in committed : x \in [vid : VertexId, ptr : 1 .. Len(block), epoch : 0 .. sealed',
                                  read : 0 .. visible']
  <2>1. \A x \in committed : x \in [vid : VertexId, ptr : 1 .. Len(block), epoch : 0 .. sealed,
                                    read : 0 .. visible]
    BY DEF TypeOK
  <2> QED BY <1>2, <2>1
<1>5. block \in Seq([vid : VertexId, creation : Stamps', prev : Pointer, dead : BOOLEAN])
  BY BlockType
<1>6. /\ read_epoch_table \in [Thread -> {NO_TRANSACTION} \cup 0 .. visible]
      /\ local_txn_id \in [Client -> 0 .. transaction_id]
      /\ read_epoch_id \in [Client -> 0 .. visible]
      /\ commit_epoch_id \in [Client -> 0 .. sealed]
  BY DEF TypeOK
<1>7. /\ read_epoch_table \in [Thread -> {NO_TRANSACTION} \cup 0 .. visible']
      /\ read_epoch_id \in [Client -> 0 .. visible']
  BY <1>2, <1>6
<1>8. /\ local_txn_id \in [Client -> 0 .. transaction_id']
      /\ commit_epoch_id \in [Client -> 0 .. sealed']
  BY <1>2, <1>3, <1>6
<1> QED BY <1>4, <1>5, <1>7, <1>8

\* The record of a compaction, field by field.
Compaction == [bound : Nat, threads : SUBSET Thread, todo : SUBSET VertexId,
               keep : SUBSET VertexId, resume : {"idle", "open"}]

LEMMA DoneStep ==
  ASSUME NEW c \in Client, NEW v, NEW again \in SUBSET VertexId,
         compacting \in [Client -> Compaction], Done(c, v, again)
  PROVE  /\ compacting' \in [Client -> Compaction]
         /\ \A d \in Client \ {c} : compacting'[d] = compacting[d]
         /\ compacting'[c].bound = compacting[c].bound
         /\ compacting'[c].threads = compacting[c].threads
         /\ compacting'[c].todo = compacting[c].todo \ {v}
         /\ compacting'[c].keep = compacting[c].keep \cup again
         /\ compacting'[c].resume = compacting[c].resume
<1>1. compacting' = [compacting EXCEPT ![c].todo = compacting[c].todo \ {v},
                                       ![c].keep = compacting[c].keep \cup again]
  BY DEF Done
<1>2. /\ compacting' \in [Client -> Compaction]
      /\ \A d \in Client \ {c} : compacting'[d] = compacting[d]
  BY <1>1 DEF Compaction
<1>3. /\ compacting'[c].bound = compacting[c].bound
      /\ compacting'[c].threads = compacting[c].threads
      /\ compacting'[c].todo = compacting[c].todo \ {v}
      /\ compacting'[c].keep = compacting[c].keep \cup again
      /\ compacting'[c].resume = compacting[c].resume
  BY <1>1 DEF Compaction
<1> QED BY <1>2, <1>3

LEMMA ScanStep ==
  ASSUME NEW c \in Client, NEW t \in Thread, NEW bound \in Nat,
         compacting \in [Client -> Compaction], ScanWith(c, t, bound)
  PROVE  /\ compacting' \in [Client -> Compaction]
         /\ \A d \in Client \ {c} : compacting'[d] = compacting[d]
         /\ compacting'[c].bound = bound
         /\ compacting'[c].threads = compacting[c].threads \ {t}
         /\ compacting'[c].todo = compacting[c].todo
         /\ compacting'[c].keep = compacting[c].keep
         /\ compacting'[c].resume = compacting[c].resume
<1>0. PICK rest \in SUBSET Thread : rest = compacting[c].threads \ {t}
  BY DEF Compaction
<1>1. compacting' = [compacting EXCEPT ![c].threads = rest, ![c].bound = bound]
  BY <1>0 DEF ScanWith
<1>2. /\ compacting' \in [Client -> Compaction]
      /\ \A d \in Client \ {c} : compacting'[d] = compacting[d]
  BY <1>1 DEF Compaction
<1>3. /\ compacting'[c].bound = bound
      /\ compacting'[c].threads = rest
      /\ compacting'[c].todo = compacting[c].todo
      /\ compacting'[c].keep = compacting[c].keep
      /\ compacting'[c].resume = compacting[c].resume
  BY <1>1 DEF Compaction
<1> QED BY <1>0, <1>2, <1>3

LEMMA ScannedStep ==
  ASSUME NEW c \in Client, TypeOK, Scanned(c)
  PROVE  /\ compacting' \in [Client -> Compaction]
         /\ \A d \in Client \ {c} : compacting'[d] = compacting[d]
         /\ compacting'[c].bound = compacting[c].bound
         /\ compacting'[c].threads = compacting[c].threads
         /\ compacting'[c].todo = compact_table[ThreadOf[c]]
         /\ compacting'[c].keep = compacting[c].keep
         /\ compacting'[c].resume = compacting[c].resume
<1>1. compacting \in [Client -> Compaction] /\ compact_table[ThreadOf[c]] \in SUBSET VertexId
  BY ThreadsAssumption DEF TypeOK, Compaction
<1>2. compacting' = [compacting EXCEPT ![c].todo = compact_table[ThreadOf[c]]]
  BY DEF Scanned
<1> QED BY <1>1, <1>2 DEF Compaction

\* Types: the steps of one client that change no version.
LEMMA QuietTypes ==
  ASSUME TypeOK, EpochInv, PlaceInv, EpochInv', sealed' >= sealed, visible' >= visible,
         sealed' \in Nat, visible' \in Nat,
         NEW c \in Client, NEW v, NEW t, NEW b,
         \/ BeginLoad(c) \/ BeginPublish(c) \/ WalkOn(c) \/ Return(c) \/ Commit(c)
         \/ PushRecycled(c) \/ Stamped(c) \/ Leave(c) \/ Spin(c) \/ Compact(c)
         \/ Scanned(c) \/ Compacted(c)
         \/ (v \in VertexId /\ (GetVertex(c, v) \/ Install(c, v) \/ Unlock(c, v) \/ CompactSkip(c, v)))
         \/ (t \in Thread /\ ScanThread(c, t))
         \/ (b \in BOOLEAN /\ FinishCommit(c, b)),
         OlderInv
  PROVE  TypeOK'
<1> DEFINE Place == {"idle", "publish", "open", "walk", "registered", "install", "clean", "finish",
                     "spin", "scan", "compact"}
<1>0. /\ Len(block) \in Nat /\ DOMAIN block = 1 .. Len(block)
      /\ transaction_id \in Nat /\ visible \in Nat /\ sealed \in Nat
      /\ ThreadOf[c] \in Thread /\ local_txn_id[c] \in Nat /\ read_epoch_id[c] \in 0 .. visible
      /\ vertex_ptr_cache[c] \in [VertexId -> 0 .. Len(block)]
      /\ vertex_ptrs \in [VertexId -> 0 .. Len(block)]
      /\ \A p \in DOMAIN block : block[p].prev \in Nat /\ block[p].prev < p
      /\ pc \in [Client -> Place] /\ compacting \in [Client -> Compaction]
      /\ compact_table \in [Thread -> SUBSET VertexId] /\ grant[c] \in 0 .. sealed
  <2>1. /\ vertex_ptr_cache[c] \in [VertexId -> 0 .. Len(block)] /\ read_epoch_id[c] \in 0 .. visible
        /\ vertex_ptrs \in [VertexId -> 0 .. Len(block)]
        /\ pc \in [Client -> Place] /\ compacting \in [Client -> Compaction]
        /\ compact_table \in [Thread -> SUBSET VertexId]
    BY DEF TypeOK, Compaction
  <2>2. /\ Len(block) \in Nat /\ DOMAIN block = 1 .. Len(block)
        /\ transaction_id \in Nat /\ visible \in Nat /\ sealed \in Nat
        /\ ThreadOf[c] \in Thread /\ local_txn_id[c] \in Nat
        /\ \A p \in DOMAIN block : block[p].prev \in Nat
    BY Facts
  <2>3. grant[c] \in 0 .. sealed
    BY DEF EpochInv
  <2> QED BY <2>1, <2>2, <2>3 DEF OlderInv
<1>w. ASSUME transaction_id' \in Nat, transaction_id' >= transaction_id
      PROVE  /\ block \in Seq([vid : VertexId, creation : Stamps', prev : Pointer, dead : BOOLEAN])
             /\ read_epoch_table \in [Thread -> {NO_TRANSACTION} \cup 0 .. visible']
             /\ local_txn_id \in [Client -> 0 .. transaction_id']
             /\ read_epoch_id \in [Client -> 0 .. visible']
             /\ commit_epoch_id \in [Client -> 0 .. sealed']
             /\ committed \subseteq [vid : VertexId, ptr : 1 .. Len(block), epoch : 0 .. sealed',
                                     read : 0 .. visible']
  BY <1>w, Wider
<1>p. /\ {"idle", "publish", "open", "walk", "registered", "install", "clean"} \subseteq Place
      /\ {"finish", "spin", "scan", "compact"} \subseteq Place
  OBVIOUS
<1>q. /\ NotCompacting \in Compaction
      /\ \A k \in Compaction :
           /\ k.bound \in Nat /\ k.threads \subseteq Thread /\ k.todo \subseteq VertexId
           /\ k.keep \subseteq VertexId /\ k.resume \in {"idle", "open"}
      /\ \A n \in Nat, place \in {"idle", "open"} :
           [bound |-> n, threads |-> Thread, todo |-> {}, keep |-> {}, resume |-> place] \in Compaction
  BY DEF NotCompacting, Compaction
<1> HIDE DEF Place
<1>t. TypeOK => pc \in [Client -> Place] /\ compacting \in [Client -> Compaction]
  BY DEF TypeOK, Place, Compaction
<1>r. \A k \in [vid : VertexId \cup {0}, ptr : 0 .. Len(block)], p \in 0 .. Len(block) :
        [k EXCEPT !.ptr = p] \in [vid : VertexId \cup {0}, ptr : 0 .. Len(block)]
  OBVIOUS
<1> USE DEF epochsVars, ids, vertices, blocks, begins, caches, txn, bounds, history, Goto
<1>1. ASSUME BeginLoad(c) PROVE TypeOK'
  <2>1. transaction_id' \in Nat /\ transaction_id' >= transaction_id
    BY <1>1, <1>0 DEF BeginLoad
  <2>2. local_txn_id' \in [Client -> 0 .. transaction_id']
    <3>1. local_txn_id \in [Client -> 0 .. transaction_id']
      BY <1>w, <2>1
    <3> QED BY <1>1, <1>0, <2>1, <3>1 DEF BeginLoad
  <2>3. read_epoch_id' \in [Client -> 0 .. visible'] /\ pc' \in [Client -> Place]
    <3>1. read_epoch_id \in [Client -> 0 .. visible']
      BY <1>w, <2>1
    <3> QED BY <1>1, <1>0, <1>p, <2>1, <3>1 DEF BeginLoad, epoch_id
  <2>4. txns' \in [Client -> Nat]
    BY <1>1 DEF BeginLoad, TypeOK
  <2>5. UNCHANGED <<epochsVars, ids, vertices, blocks, read_epoch_table, compact_table, caches,
                    reading, compacting, ops, compacts, history>>
    BY <1>1 DEF BeginLoad
  <2>6. /\ block \in Seq([vid : VertexId, creation : Stamps', prev : Pointer, dead : BOOLEAN])
        /\ read_epoch_table \in [Thread -> {NO_TRANSACTION} \cup 0 .. visible']
        /\ commit_epoch_id \in [Client -> 0 .. sealed']
        /\ committed \subseteq [vid : VertexId, ptr : 1 .. Len(block), epoch : 0 .. sealed',
                                read : 0 .. visible']
    BY <1>w, <2>1
  <2> QED BY <2>1, <2>2, <2>3, <2>4, <2>5, <2>6 DEF TypeOK, Place
<1>2. ASSUME BeginPublish(c) PROVE TypeOK'
  <2>1. read_epoch_table' \in [Thread -> {NO_TRANSACTION} \cup 0 .. visible']
    BY <1>2, <1>0 DEF BeginPublish, TypeOK
  <2>2. compacting' \in [Client -> Compaction] /\ pc' \in [Client -> Place]
    <3>1. CASE c \notin ReadOnly /\ local_txn_id[c] % COMPACTION_CYCLE = 0
      BY <1>2, <1>0, <1>p, <1>q, <3>1 DEF BeginPublish, StartCompact
    <3>2. CASE ~(c \notin ReadOnly /\ local_txn_id[c] % COMPACTION_CYCLE = 0)
      BY <1>2, <1>0, <1>p, <1>q, <3>2 DEF BeginPublish
    <3> QED BY <3>1, <3>2
  <2>3. UNCHANGED Stamps
    BY <1>2 DEF BeginPublish, Stamps
  <2> QED BY <1>2, <2>1, <2>2, <2>3 DEF TypeOK, BeginPublish, Place, Compaction
<1>3. ASSUME v \in VertexId, GetVertex(c, v) PROVE TypeOK'
  <2>1. reading' \in [Client -> [vid : VertexId \cup {0}, ptr : 0 .. Len(block)]]
    BY <1>3, <1>0 DEF TypeOK, GetVertex, Newest
  <2>2. ops' \in [Client -> Nat]
    BY <1>3 DEF TypeOK, GetVertex, Operate
  <2> QED BY <1>3, <2>1, <2>2 DEF TypeOK, GetVertex, Stamps
<1>4. ASSUME WalkOn(c) PROVE TypeOK'
  <2>1. reading' \in [Client -> [vid : VertexId \cup {0}, ptr : 0 .. Len(block)]]
    <3>1. reading[c].ptr \in 1 .. Len(block)
      BY <1>4, <1>0 DEF TypeOK, WalkOn, Arrived
    <3>2. block[reading[c].ptr].prev \in 0 .. Len(block)
      <4> PICK p \in 1 .. Len(block) : p = reading[c].ptr
        BY <3>1
      <4>1. block[p].prev \in Nat /\ block[p].prev < p
        BY <1>0
      <4> QED BY <1>0, <4>1
    <3>3. reading \in [Client -> [vid : VertexId \cup {0}, ptr : 0 .. Len(block)]]
      BY DEF TypeOK
    <3>4. reading' = [reading EXCEPT ![c] = [reading[c] EXCEPT !.ptr = block[reading[c].ptr].prev]]
      BY <1>4 DEF WalkOn
    <3> QED BY <1>r, <3>2, <3>3, <3>4
  <2> QED BY <1>4, <2>1 DEF TypeOK, WalkOn, Stamps
<1>5. ASSUME Return(c) PROVE TypeOK'
  <2>1. reading' \in [Client -> [vid : VertexId \cup {0}, ptr : 0 .. Len(block)]] /\ pc' \in [Client -> Place]
    BY <1>5, <1>0, <1>p DEF TypeOK, Return, NotReading
  <2> QED BY <1>5, <2>1 DEF TypeOK, Return, Stamps, Place
<1>6. ASSUME Commit(c) PROVE TypeOK'
  BY <1>6 DEF TypeOK, Commit, Ask, Stamps
<1>7. ASSUME v \in VertexId, Install(c, v) PROVE TypeOK'
  <2>1. /\ vertex_ptrs' \in [VertexId -> 0 .. Len(block)]
        /\ vertex_ptr_cache' \in [Client -> [VertexId -> 0 .. Len(block)]]
    BY <1>7, <1>0 DEF TypeOK, Install
  <2> QED BY <1>7, <2>1 DEF TypeOK, Install, Stamps
<1>8. ASSUME PushRecycled(c) PROVE TypeOK'
  <2>1. recycled_vertex_cache[c] \in Seq(VertexId) /\ recycled_vertex_cache[c] # <<>>
    BY <1>8 DEF TypeOK, PushRecycled
  <2>2. Head(recycled_vertex_cache[c]) \in VertexId /\ Tail(recycled_vertex_cache[c]) \in Seq(VertexId)
    BY <2>1, HeadTailProperties
  <2>3. recycled_vertex_ids' \in Seq(VertexId) /\ recycled_vertex_cache' \in [Client -> Seq(VertexId)]
    BY <1>8, <2>2 DEF TypeOK, PushRecycled
  <2> QED BY <1>8, <2>3 DEF TypeOK, PushRecycled, Stamps
<1>9. ASSUME Stamped(c) PROVE TypeOK'
  BY <1>9, <1>0 DEF TypeOK, Stamped, Stamps
<1>10. ASSUME v \in VertexId, Unlock(c, v) PROVE TypeOK'
  BY <1>10, <1>0 DEF TypeOK, Unlock, Stamps
<1>11. ASSUME Leave(c) PROVE TypeOK'
  <2>0. [u \in VertexId |-> NULLPOINTER] \in [VertexId -> 0 .. Len(block)] /\ {} \in SUBSET (1 .. Len(block))
    BY <1>0
  <2>1. /\ vertex_ptr_cache' \in [Client -> [VertexId -> 0 .. Len(block)]]
        /\ block_cache' \in [Client -> SUBSET (1 .. Len(block))]
    BY <1>11, <2>0 DEF TypeOK, Leave
  <2>2. /\ new_vertex_cache' \in [Client -> Seq(VertexId)]
        /\ recycled_vertex_cache' \in [Client -> Seq(VertexId)]
    <3>1. /\ new_vertex_cache \in [Client -> Seq(VertexId)] /\ <<>> \in Seq(VertexId)
          /\ recycled_vertex_cache \in [Client -> Seq(VertexId)]
      BY EmptySeq DEF TypeOK
    <3>2. /\ new_vertex_cache' = [new_vertex_cache EXCEPT ![c] = <<>>]
          /\ recycled_vertex_cache' = [recycled_vertex_cache EXCEPT ![c] = <<>>]
      BY <1>11 DEF Leave
    <3> QED BY <3>1, <3>2
  <2>3. read_epoch_table' \in [Thread -> {NO_TRANSACTION} \cup 0 .. visible'] /\ pc' \in [Client -> Place]
    BY <1>11, <1>0, <1>p DEF TypeOK, Leave
  <2> QED BY <1>11, <2>1, <2>2, <2>3 DEF TypeOK, Leave, Stamps, Place
<1>12. ASSUME b \in BOOLEAN, FinishCommit(c, b) PROVE TypeOK'
  <2>1. commit_epoch_id' \in [Client -> 0 .. sealed']
    BY <1>12, <1>0 DEF TypeOK, FinishCommit, Finish
  <2>2. pc' \in [Client -> Place]
    <3>1. CASE b
      BY <1>12, <1>0, <1>p, <3>1 DEF FinishCommit
    <3>2. CASE ~b
      BY <1>12, <1>0, <1>p, <3>2 DEF FinishCommit
    <3> QED BY <3>1, <3>2
  <2>3. UNCHANGED <<sealed, visible>>
    BY <1>12 DEF FinishCommit, Finish
  <2> QED BY <1>12, <2>1, <2>2, <2>3 DEF TypeOK, FinishCommit, Stamps, Place
<1>13. ASSUME Spin(c) PROVE TypeOK'
  BY <1>13, <1>0 DEF TypeOK, Spin, Stamps
<1>14. ASSUME Compact(c) PROVE TypeOK'
  <2>1. compacting' \in [Client -> Compaction] /\ pc' \in [Client -> Place]
    BY <1>14, <1>0, <1>p, <1>q DEF Compact, StartCompact, epoch_id
  <2>2. compacts' \in Nat
    BY <1>14 DEF TypeOK, Compact
  <2> QED BY <1>14, <2>1, <2>2 DEF TypeOK, Compact, Stamps, Place, Compaction
<1>15. ASSUME t \in Thread, ScanThread(c, t) PROVE TypeOK'
  <2>1. compacting' \in [Client -> Compaction]
    <3>1. read_epoch_table[t] \in {NO_TRANSACTION} \cup 0 .. visible
      BY <1>15 DEF TypeOK
    <3>2. PICK bound \in Nat : ScanWith(c, t, bound)
      <4>1. compacting[c].bound \in Nat
        BY <1>0, <1>q
      <4>2. CASE read_epoch_table[t] # NO_TRANSACTION /\ read_epoch_table[t] < compacting[c].bound
        BY <1>15, <1>0, <3>1, <4>2 DEF ScanThread
      <4>3. CASE ~(read_epoch_table[t] # NO_TRANSACTION /\ read_epoch_table[t] < compacting[c].bound)
        BY <1>15, <4>1, <4>3 DEF ScanThread
      <4> QED BY <4>2, <4>3
    <3> QED BY <1>0, <1>15, <3>2, ScanStep
  <2> QED BY <1>15, <2>1 DEF TypeOK, ScanThread, ScanWith, Stamps, Compaction
<1>16. ASSUME Scanned(c) PROVE TypeOK'
  <2>1. compacting' \in [Client -> Compaction] /\ pc' \in [Client -> Place]
    <3>1. compacting' \in [Client -> Compaction]
      BY <1>16, ScannedStep
    <3> QED BY <1>16, <1>0, <1>p, <3>1 DEF Scanned
  <2> QED BY <1>16, <2>1 DEF TypeOK, Scanned, Stamps, Place, Compaction
<1>17. ASSUME v \in VertexId, CompactSkip(c, v) PROVE TypeOK'
  <2>1. compacting' \in [Client -> Compaction]
    <3>1. {v} \in SUBSET VertexId /\ Done(c, v, {v})
      BY <1>17 DEF CompactSkip
    <3> QED BY <1>0, <3>1, DoneStep
  <2> QED BY <1>17, <2>1 DEF TypeOK, CompactSkip, Stamps, Compaction
<1>18. ASSUME Compacted(c) PROVE TypeOK'
  <2>1. /\ compacting' \in [Client -> Compaction] /\ pc' \in [Client -> Place]
        /\ compact_table' \in [Thread -> SUBSET VertexId]
    <3>1. compacting[c].resume \in Place /\ compacting[c].keep \subseteq VertexId
      BY <1>0, <1>p, <1>q
    <3> QED BY <1>18, <1>0, <1>q, <3>1 DEF Compacted
  <2> QED BY <1>18, <2>1 DEF TypeOK, Compacted, Stamps, Place, Compaction
<1> QED BY <1>1, <1>2, <1>3, <1>4, <1>5, <1>6, <1>7, <1>8, <1>9, <1>10, <1>11, <1>12, <1>13, <1>14,
          <1>15, <1>16, <1>17, <1>18

\* Types: an epoch becomes visible.
LEMMA PublishTypes ==
  ASSUME TypeOK, EpochInv, EpochInv', sealed' >= sealed, visible' >= visible, sealed' \in Nat,
         visible' \in Nat, Publish
  PROVE  TypeOK'
<1>1. UNCHANGED transaction_id /\ UNCHANGED <<ids, vertices, blocks, begins, compact_table, pc, txn,
                                              reading, compacting, bounds, history>>
  BY DEF Publish, begins
<1>2. transaction_id' \in Nat /\ transaction_id' >= transaction_id
  BY <1>1, Facts
<1>3. /\ block \in Seq([vid : VertexId, creation : Stamps', prev : Pointer, dead : BOOLEAN])
      /\ read_epoch_table \in [Thread -> {NO_TRANSACTION} \cup 0 .. visible']
      /\ local_txn_id \in [Client -> 0 .. transaction_id']
      /\ read_epoch_id \in [Client -> 0 .. visible']
      /\ commit_epoch_id \in [Client -> 0 .. sealed']
      /\ committed \subseteq [vid : VertexId, ptr : 1 .. Len(block), epoch : 0 .. sealed',
                              read : 0 .. visible']
  BY <1>2, Wider
<1> QED BY <1>1, <1>3 DEF TypeOK, ids, vertices, blocks, begins, caches, txn, bounds, history

\* Types: the steps that write versions, or record them as committed.
LEMMA WriteTypes ==
  ASSUME TypeOK, EpochInv, PlaceInv, OlderInv, EpochInv', sealed' >= sealed, visible' >= visible,
         sealed' \in Nat, visible' \in Nat,
         NEW c \in Client, NEW v, NEW b, NEW G,
         \/ (v \in VertexId /\ (PutVertex(c, v) \/ DelVertex(c, v, b) \/ CompactVertex(c, v)))
         \/ NewVertex(c, b) \/ Stamp(c) \/ Abort(c)
         \/ (G \in SUBSET Client /\ RegisterGroup(G))
  PROVE  TypeOK' /\ OlderInv'
<1> DEFINE V == [vid : VertexId, creation : Stamps, prev : Pointer, dead : BOOLEAN]
           n == Len(block)
<1>0. /\ n \in Nat /\ DOMAIN block = 1 .. n
      /\ transaction_id \in Nat /\ visible \in Nat /\ sealed \in Nat
      /\ ThreadOf[c] \in Thread /\ grant[c] \in 0 .. sealed
  BY Facts DEF EpochInv
<1> HIDE DEF n, V
<1>1. ASSUME NEW dead \in BOOLEAN, v \in VertexId, AddVersion(c, v, dead), UNCHANGED <<transaction_id, epochsVars>>,
             pc[c] = "open", c \notin ReadOnly
      PROVE  /\ block' \in Seq([vid : VertexId, creation : Stamps', prev : Pointer, dead : BOOLEAN])
             /\ Len(block') = n + 1 /\ Len(block') <= MaxBlock
             /\ OlderInv'
             /\ \A p \in Loaded + 1 .. Len(block') : block'[p].creation # 0
             /\ block_cache' \in [Client -> SUBSET (1 .. Len(block'))]
             /\ vertex_ptr_cache' \in [Client -> [VertexId -> 0 .. Len(block')]]
             /\ compact_table' \in [Thread -> SUBSET VertexId]
  <2>1. local_txn_id[c] > 0 /\ local_txn_id[c] \in Nat
    BY <1>1, Facts DEF PlaceInv, PlaceOf, Active
  <2>2. /\ block' \in Seq([vid : VertexId, creation : Stamps', prev : Pointer, dead : BOOLEAN])
        /\ Len(block') = n + 1 /\ Len(block') <= MaxBlock
        /\ \A p \in DOMAIN block : block'[p] = block[p]
        /\ block'[Len(block')] = [vid |-> v, creation |-> -local_txn_id[c],
                                  prev |-> Newest(c, v), dead |-> dead]
        /\ OlderInv'
    BY <1>1, <2>1, AddVersionType DEF n
  <2>3. ASSUME NEW p \in Loaded + 1 .. Len(block') PROVE block'[p].creation # 0
    <3>1. p \in Loaded + 1 .. n \/ p = n + 1
      BY <1>0, <2>2, BoundsAssumption
    <3>2. CASE p \in Loaded + 1 .. n
      <4>1. block[p].creation # 0
        BY <3>2 DEF TypeOK, n
      <4>2. p \in DOMAIN block
        BY <1>0, <3>2, BoundsAssumption
      <4> QED BY <2>2, <4>1, <4>2
    <3>3. CASE p = n + 1
      BY <2>1, <2>2, <3>3
    <3> QED BY <3>1, <3>2, <3>3
  <2>4. block_cache \in [Client -> SUBSET (1 .. n)] /\ vertex_ptr_cache \in [Client -> [VertexId -> 0 .. n]]
    BY DEF TypeOK, n
  <2>5. 1 .. n \subseteq 1 .. Len(block') /\ 0 .. n \subseteq 0 .. Len(block')
        /\ n + 1 \in 1 .. Len(block') /\ n + 1 \in 0 .. Len(block')
    BY <1>0, <2>2
  <2>6. block_cache' \in [Client -> SUBSET (1 .. Len(block'))]
    <3>1. block_cache' = [block_cache EXCEPT ![c] = block_cache[c] \cup {n + 1}]
      BY <1>1 DEF AddVersion, n
    <3> QED BY <2>4, <2>5, <3>1
  <2>7. vertex_ptr_cache' \in [Client -> [VertexId -> 0 .. Len(block')]]
    <3>1. vertex_ptr_cache' = [vertex_ptr_cache EXCEPT ![c] = [vertex_ptr_cache[c] EXCEPT ![v] = n + 1]]
      BY <1>1 DEF AddVersion, n
    <3>2. vertex_ptr_cache \in [Client -> [VertexId -> 0 .. Len(block')]]
      BY <2>4, <2>5
    <3>3. [vertex_ptr_cache[c] EXCEPT ![v] = n + 1] \in [VertexId -> 0 .. Len(block')]
      BY <2>5, <3>2
    <3> QED BY <3>1, <3>2, <3>3
  <2>8. compact_table' \in [Thread -> SUBSET VertexId]
    BY <1>1, <1>0 DEF AddVersion, TypeOK
  <2> QED BY <2>2, <2>3, <2>6, <2>7, <2>8
<1>2. ASSUME NoVersion, UNCHANGED <<transaction_id, epochsVars>>
      PROVE  /\ block' \in Seq([vid : VertexId, creation : Stamps', prev : Pointer, dead : BOOLEAN])
             /\ Len(block') = n /\ Len(block') <= MaxBlock
             /\ OlderInv'
             /\ \A p \in Loaded + 1 .. Len(block') : block'[p].creation # 0
             /\ block_cache' \in [Client -> SUBSET (1 .. Len(block'))]
             /\ vertex_ptr_cache' \in [Client -> [VertexId -> 0 .. Len(block')]]
             /\ compact_table' \in [Thread -> SUBSET VertexId]
  BY <1>2 DEF NoVersion, TypeOK, Stamps, OlderInv, epochsVars, n
<1>3. ASSUME NEW m \in Nat, m = n \/ m = n + 1, Len(block') = m, freed' = freed,
             vertex_ptrs' = vertex_ptrs, reading' = reading, committed' = committed,
             sealed' = sealed, visible' = visible
      PROVE  /\ vertex_ptrs' \in [VertexId -> 0 .. Len(block')] /\ freed' \subseteq 1 .. Len(block')
             /\ reading' \in [Client -> [vid : VertexId \cup {0}, ptr : 0 .. Len(block')]]
             /\ committed' \subseteq [vid : VertexId, ptr : 1 .. Len(block'), epoch : 0 .. sealed',
                                      read : 0 .. visible']
  <2>1. /\ vertex_ptrs \in [VertexId -> 0 .. n] /\ freed \subseteq 1 .. n
        /\ reading \in [Client -> [vid : VertexId \cup {0}, ptr : 0 .. n]]
        /\ \A x \in committed : x \in [vid : VertexId, ptr : 1 .. n, epoch : 0 .. sealed,
                                       read : 0 .. visible]
    BY DEF TypeOK, n
  <2>2. 0 .. n \subseteq 0 .. m /\ 1 .. n \subseteq 1 .. m
    BY <1>0, <1>3
  <2>3. reading \in [Client -> [vid : VertexId \cup {0}, ptr : 0 .. m]]
    BY <2>1, <2>2
  <2>4. \A x \in committed : x \in [vid : VertexId, ptr : 1 .. m, epoch : 0 .. sealed,
                                    read : 0 .. visible]
    BY <2>1, <2>2
  <2> QED BY <1>3, <2>1, <2>2, <2>3, <2>4
<1>4. ASSUME v \in VertexId, v \in acquired_locks[c] \/ vertex_futexes[v] = 0, LockVertex(c, v)
      PROVE  /\ vertex_futexes' \in [VertexId -> {0, 1}]
             /\ acquired_locks' \in [Client -> SUBSET VertexId]
  BY <1>4 DEF TypeOK, LockVertex
<1> USE DEF epochsVars, ids, vertices, blocks, begins, caches, txn, bounds, history, Goto
<1>5. ASSUME v \in VertexId, PutVertex(c, v) PROVE TypeOK' /\ OlderInv'
  <2>1. /\ block' \in Seq([vid : VertexId, creation : Stamps', prev : Pointer, dead : BOOLEAN])
        /\ (Len(block') = n \/ Len(block') = n + 1) /\ Len(block') <= MaxBlock /\ Len(block') \in Nat
        /\ OlderInv'
        /\ \A p \in Loaded + 1 .. Len(block') : block'[p].creation # 0
        /\ block_cache' \in [Client -> SUBSET (1 .. Len(block'))]
        /\ vertex_ptr_cache' \in [Client -> [VertexId -> 0 .. Len(block')]]
        /\ compact_table' \in [Thread -> SUBSET VertexId]
    <3>1. CASE Conflict(c, v)
      <4>1. NoVersion /\ UNCHANGED <<transaction_id, epochsVars>>
        BY <1>5, <3>1 DEF PutVertex
      <4> QED BY <1>0, <1>2, <4>1
    <3>2. CASE ~Conflict(c, v)
      <4>1. AddVersion(c, v, FALSE) /\ UNCHANGED <<transaction_id, epochsVars>> /\ pc[c] = "open"
            /\ c \notin ReadOnly
        BY <1>5, <3>2 DEF PutVertex, Operate
      <4>2. /\ block' \in Seq([vid : VertexId, creation : Stamps', prev : Pointer, dead : BOOLEAN])
            /\ Len(block') = n + 1 /\ Len(block') <= MaxBlock
            /\ OlderInv'
            /\ \A p \in Loaded + 1 .. Len(block') : block'[p].creation # 0
            /\ block_cache' \in [Client -> SUBSET (1 .. Len(block'))]
            /\ vertex_ptr_cache' \in [Client -> [VertexId -> 0 .. Len(block')]]
            /\ compact_table' \in [Thread -> SUBSET VertexId]
        BY <1>1, <1>5, <4>1, Zenon
      <4>3. (Len(block') = n \/ Len(block') = n + 1) /\ Len(block') \in Nat
        <5>1. Len(block') = n + 1
          BY <4>2, Zenon
        <5> QED BY <1>0, <5>1
      <4> QED BY <4>2, <4>3, Zenon
    <3> QED BY <3>1, <3>2
  <2>2. /\ vertex_ptrs' \in [VertexId -> 0 .. Len(block')] /\ freed' \subseteq 1 .. Len(block')
        /\ reading' \in [Client -> [vid : VertexId \cup {0}, ptr : 0 .. Len(block')]]
        /\ committed' \subseteq [vid : VertexId, ptr : 1 .. Len(block'), epoch : 0 .. sealed',
                                 read : 0 .. visible']
    <3>1. UNCHANGED <<freed, vertex_ptrs, reading, committed, sealed, visible>>
      BY <1>5 DEF PutVertex
    <3> QED BY <1>3, <2>1, <3>1
  <2>3. /\ vertex_futexes' \in [VertexId -> {0, 1}] /\ acquired_locks' \in [Client -> SUBSET VertexId]
    BY <1>4, <1>5 DEF PutVertex, LockVertex
  <2>4. ops' \in [Client -> Nat]
    BY <1>5 DEF PutVertex, Operate, TypeOK
  <2>5. UNCHANGED <<epochsVars, ids, begins, pc, local_txn_id, read_epoch_id, new_vertex_cache,
                    recycled_vertex_cache, compacting, txns, compacts, commit_epoch_id>>
    BY <1>5 DEF PutVertex
  <2> QED BY <2>1, <2>2, <2>3, <2>4, <2>5 DEF TypeOK
<1>6. ASSUME v \in VertexId, DelVertex(c, v, b) PROVE TypeOK' /\ OlderInv'
  <2>1. /\ block' \in Seq([vid : VertexId, creation : Stamps', prev : Pointer, dead : BOOLEAN])
        /\ (Len(block') = n \/ Len(block') = n + 1) /\ Len(block') <= MaxBlock /\ Len(block') \in Nat
        /\ OlderInv'
        /\ \A p \in Loaded + 1 .. Len(block') : block'[p].creation # 0
        /\ block_cache' \in [Client -> SUBSET (1 .. Len(block'))]
        /\ vertex_ptr_cache' \in [Client -> [VertexId -> 0 .. Len(block')]]
        /\ compact_table' \in [Thread -> SUBSET VertexId]
    <3>0. /\ (NoVersion \/ AddVersion(c, v, TRUE)) /\ UNCHANGED <<transaction_id, epochsVars>>
          /\ pc[c] = "open" /\ c \notin ReadOnly
      BY <1>6 DEF DelVertex, Operate
    <3>1. CASE NoVersion
      BY <1>0, <1>2, <3>0, <3>1
    <3>2. CASE AddVersion(c, v, TRUE)
      <4>2. /\ block' \in Seq([vid : VertexId, creation : Stamps', prev : Pointer, dead : BOOLEAN])
            /\ Len(block') = n + 1 /\ Len(block') <= MaxBlock
            /\ OlderInv'
            /\ \A p \in Loaded + 1 .. Len(block') : block'[p].creation # 0
            /\ block_cache' \in [Client -> SUBSET (1 .. Len(block'))]
            /\ vertex_ptr_cache' \in [Client -> [VertexId -> 0 .. Len(block')]]
            /\ compact_table' \in [Thread -> SUBSET VertexId]
        BY <1>1, <1>6, <3>0, <3>2, Zenon
      <4>3. (Len(block') = n \/ Len(block') = n + 1) /\ Len(block') \in Nat
        <5>1. Len(block') = n + 1
          BY <4>2, Zenon
        <5> QED BY <1>0, <5>1
      <4> QED BY <4>2, <4>3, Zenon
    <3> QED BY <3>0, <3>1, <3>2
  <2>2. /\ vertex_ptrs' \in [VertexId -> 0 .. Len(block')] /\ freed' \subseteq 1 .. Len(block')
        /\ reading' \in [Client -> [vid : VertexId \cup {0}, ptr : 0 .. Len(block')]]
        /\ committed' \subseteq [vid : VertexId, ptr : 1 .. Len(block'), epoch : 0 .. sealed',
                                 read : 0 .. visible']
    <3>1. UNCHANGED <<freed, vertex_ptrs, reading, committed, sealed, visible>>
      BY <1>6 DEF DelVertex
    <3> QED BY <1>3, <2>1, <3>1
  <2>3. /\ vertex_futexes' \in [VertexId -> {0, 1}] /\ acquired_locks' \in [Client -> SUBSET VertexId]
    BY <1>4, <1>6 DEF DelVertex, LockVertex
  <2>4. ops' \in [Client -> Nat]
    <3>1. ops \in [Client -> Nat]
      BY DEF TypeOK
    <3>2. ops' = [ops EXCEPT ![c] = ops[c] + 1]
      BY <1>6 DEF DelVertex, Operate
    <3> QED BY <3>1, <3>2
  <2>5. UNCHANGED <<epochsVars, ids, begins, pc, local_txn_id, read_epoch_id, new_vertex_cache,
                    compacting, txns, compacts, commit_epoch_id>>
    BY <1>6 DEF DelVertex
  <2>6. recycled_vertex_cache' \in [Client -> Seq(VertexId)]
    <3>1. recycled_vertex_cache \in [Client -> Seq(VertexId)]
      BY DEF TypeOK
    <3>2. Append(recycled_vertex_cache[c], v) \in Seq(VertexId)
      BY <1>6, <3>1, AppendProperties
    <3>3. \/ recycled_vertex_cache' = recycled_vertex_cache
          \/ recycled_vertex_cache' =
               [recycled_vertex_cache EXCEPT ![c] = Append(recycled_vertex_cache[c], v)]
      BY <1>6 DEF DelVertex
    <3> QED BY <3>1, <3>2, <3>3
  <2> QED BY <2>1, <2>2, <2>3, <2>4, <2>5, <2>6 DEF TypeOK
<1>7. ASSUME NewVertex(c, b) PROVE TypeOK' /\ OlderInv'
  <2>1. /\ ops' \in [Client -> Nat]
        /\ UNCHANGED <<epochsVars, blocks, begins, compact_table, pc, local_txn_id, read_epoch_id,
                       vertex_ptr_cache, block_cache, acquired_locks, reading, compacting, txns,
                       compacts, history>>
    <3>1. ops \in [Client -> Nat]
      BY DEF TypeOK
    <3>2. /\ ops' = [ops EXCEPT ![c] = ops[c] + 1]
          /\ UNCHANGED <<epochsVars, blocks, begins, compact_table, pc, local_txn_id, read_epoch_id,
                         vertex_ptr_cache, block_cache, acquired_locks, reading, compacting, txns,
                         compacts, history>>
      BY <1>7 DEF NewVertex, Operate
    <3> QED BY <3>1, <3>2
  <2>2. PICK u \in VertexId :
          /\ IF recycled_vertex_cache[c] # <<>>
               THEN /\ recycled_vertex_cache' =
                         [recycled_vertex_cache EXCEPT ![c] = Tail(recycled_vertex_cache[c])]
                    /\ UNCHANGED ids
             ELSE IF b /\ recycled_vertex_ids # <<>>
               THEN /\ recycled_vertex_ids' = Tail(recycled_vertex_ids)
                    /\ UNCHANGED <<vertex_id, recycled_vertex_cache>>
             ELSE   /\ u = vertex_id
                    /\ vertex_id' = vertex_id + 1
                    /\ UNCHANGED <<recycled_vertex_ids, recycled_vertex_cache>>
          /\ vertex_futexes' = [vertex_futexes EXCEPT ![u] = 0]
          /\ vertex_ptrs' = [vertex_ptrs EXCEPT ![u] = NULLPOINTER]
          /\ new_vertex_cache' = [new_vertex_cache EXCEPT ![c] = Append(new_vertex_cache[c], u)]
    BY <1>7 DEF NewVertex
  <2>3. /\ recycled_vertex_cache \in [Client -> Seq(VertexId)] /\ recycled_vertex_ids \in Seq(VertexId)
        /\ new_vertex_cache \in [Client -> Seq(VertexId)] /\ vertex_id \in 0 .. MaxVertex
        /\ vertex_ptrs \in [VertexId -> 0 .. n] /\ vertex_futexes \in [VertexId -> {0, 1}]
    BY DEF TypeOK, n
  <2>4. /\ vertex_ptrs' \in [VertexId -> 0 .. n] /\ vertex_futexes' \in [VertexId -> {0, 1}]
    <3>1. /\ vertex_futexes' = [vertex_futexes EXCEPT ![u] = 0]
          /\ vertex_ptrs' = [vertex_ptrs EXCEPT ![u] = NULLPOINTER]
      BY <2>2, Zenon
    <3>2. 0 \in 0 .. n
      BY <1>0
    <3> QED BY <2>3, <3>1, <3>2
  <2>5. new_vertex_cache' \in [Client -> Seq(VertexId)]
    <3>1. Append(new_vertex_cache[c], u) \in Seq(VertexId)
      BY <2>3, AppendProperties
    <3> QED BY <2>2, <2>3, <3>1
  <2>6. /\ recycled_vertex_cache' \in [Client -> Seq(VertexId)] /\ recycled_vertex_ids' \in Seq(VertexId)
        /\ vertex_id' \in 0 .. MaxVertex
    <3>1. CASE recycled_vertex_cache[c] # <<>>
      <4>1. Tail(recycled_vertex_cache[c]) \in Seq(VertexId)
        BY <2>3, <3>1, HeadTailProperties
      <4> QED BY <2>2, <2>3, <3>1, <4>1
    <3>2. CASE recycled_vertex_cache[c] = <<>> /\ b /\ recycled_vertex_ids # <<>>
      <4>1. Tail(recycled_vertex_ids) \in Seq(VertexId)
        BY <2>3, <3>2, HeadTailProperties
      <4> QED BY <2>2, <2>3, <3>2, <4>1
    <3>3. CASE recycled_vertex_cache[c] = <<>> /\ ~(b /\ recycled_vertex_ids # <<>>)
      <4>1. /\ u = vertex_id /\ vertex_id' = vertex_id + 1
            /\ UNCHANGED <<recycled_vertex_ids, recycled_vertex_cache>>
        BY <2>2, <3>3
      <4>2. vertex_id' \in 0 .. MaxVertex
        BY <2>3, <4>1, BoundsAssumption DEF VertexId
      <4> QED BY <2>3, <4>1, <4>2
    <3> QED BY <3>1, <3>2, <3>3
  <2> QED BY <2>1, <2>4, <2>5, <2>6 DEF TypeOK, OlderInv, Stamps, n
<1>8. ASSUME G \in SUBSET Client, RegisterGroup(G) PROVE TypeOK' /\ OlderInv'
  <2>1. /\ sealed' = sealed + 1 /\ visible' = visible
        /\ UNCHANGED <<ids, vertices, blocks, begins, compact_table, txn, reading, compacting, bounds,
                       commit_epoch_id>>
    BY <1>8 DEF RegisterGroup, Grant
  <2>2. pc' \in [Client -> {"idle", "publish", "open", "walk", "registered", "install", "clean",
                            "finish", "spin", "scan", "compact"}]
    BY <1>8 DEF RegisterGroup, TypeOK
  <2>3. /\ block \in Seq([vid : VertexId, creation : Stamps', prev : Pointer, dead : BOOLEAN])
        /\ commit_epoch_id \in [Client -> 0 .. sealed']
        /\ committed \subseteq [vid : VertexId, ptr : 1 .. n, epoch : 0 .. sealed',
                                read : 0 .. visible']
    BY <2>1, <1>0, Wider DEF n
  <2>4. committed' \subseteq [vid : VertexId, ptr : 1 .. n, epoch : 0 .. sealed',
                              read : 0 .. visible']
    <3>1. ASSUME NEW d \in G, NEW u \in Versions(d)
          PROVE  [vid |-> u, ptr |-> vertex_ptr_cache[d][u], epoch |-> sealed + 1,
                  read |-> read_epoch_id[d]] \in
                 [vid : VertexId, ptr : 1 .. n, epoch : 0 .. sealed', read : 0 .. visible']
      <4>1. /\ u \in VertexId /\ vertex_ptr_cache[d][u] \in 0 .. n /\ vertex_ptr_cache[d][u] # 0
            /\ read_epoch_id[d] \in 0 .. visible
        BY <1>8 DEF TypeOK, Versions, n
      <4> QED BY <1>0, <2>1, <4>1
    <3>2. \A x \in committed' : x \in committed \/ \E d \in G : \E u \in Versions(d) :
            x = [vid |-> u, ptr |-> vertex_ptr_cache[d][u], epoch |-> sealed + 1,
                 read |-> read_epoch_id[d]]
      BY <1>8 DEF RegisterGroup
    <3> QED BY <2>3, <3>1, <3>2
  <2> QED BY <2>1, <2>2, <2>3, <2>4 DEF TypeOK, OlderInv, n
<1>9. ASSUME Stamp(c) PROVE TypeOK' /\ OlderInv'
  <2>1. PICK p \in block_cache[c] : StampAt(c, p)
    BY <1>9 DEF Stamp
  <2>2. p \in 1 .. n /\ block \in Seq(V) /\ block[p] \in V /\ grant[c] > 0
    <3>1. stage[c] = "granted"
      BY <2>1 DEF StampAt, PlaceInv, PlaceOf
    <3>2. visible < grant[c]
      BY <3>1 DEF EpochInv
    <3>3. block \in Seq(V) /\ p \in 1 .. n
      BY DEF TypeOK, n, V
    <3>4. block[p] \in V
      BY <1>0, <3>3, Facts DEF V
    <3> QED BY <1>0, <3>2, <3>3, <3>4
  <2>3. [block[p] EXCEPT !.creation = grant[c]] \in V
    BY <1>0, <2>2 DEF Stamps, V
  <2>4. block' = [block EXCEPT ![p] = [block[p] EXCEPT !.creation = grant[c]]]
    BY <2>1 DEF StampAt
  <2>5. block' \in [1 .. n -> V]
    <3>1. block \in [1 .. n -> V]
      BY <2>2, LenProperties DEF n
    <3> QED BY <2>2, <2>3, <2>4, <3>1
  <2>6. block' \in Seq(V) /\ Len(block') = n
    BY <1>0, <2>5, FunctionIsSeq
  <2>7. /\ block'[p].creation = grant[c] /\ block'[p].prev = block[p].prev
        /\ \A q \in 1 .. n : q # p => block'[q] = block[q]
    BY <1>0, <2>2, <2>4 DEF V
  <2>8. OlderInv'
    <3>1. DOMAIN block' = 1 .. n
      BY <2>5
    <3>2. \A q \in 1 .. n : block'[q].prev = block[q].prev /\ block[q].prev < q
      BY <1>0, <2>7 DEF OlderInv
    <3> QED BY <3>1, <3>2 DEF OlderInv
  <2>9. \A q \in Loaded + 1 .. Len(block') : block'[q].creation # 0
    <3>1. \A q \in Loaded + 1 .. n : q \in 1 .. n
      BY <1>0, BoundsAssumption
    <3>2. \A q \in Loaded + 1 .. n : block[q].creation # 0
      BY DEF TypeOK, n
    <3> QED BY <1>0, <2>2, <2>6, <2>7, <3>1, <3>2
  <2>10. block_cache' \in [Client -> SUBSET (1 .. n)]
    BY <2>1 DEF StampAt, TypeOK, n
  <2>11. UNCHANGED <<epochsVars, ids, vertices, freed, begins, compact_table, pc, local_txn_id,
                 read_epoch_id, vertex_ptr_cache, new_vertex_cache, recycled_vertex_cache,
                 acquired_locks, reading, compacting, bounds, history>>
    BY <2>1 DEF StampAt
  <2> QED BY <2>6, <2>8, <2>9, <2>10, <2>11 DEF TypeOK, Stamps, V, n
<1>10. ASSUME Abort(c) PROVE TypeOK' /\ OlderInv'
  <2>1. /\ block' = [p \in DOMAIN block |->
              IF p \in block_cache[c] THEN [block[p] EXCEPT !.creation = ROLLBACK_TOMBSTONE]
                                      ELSE block[p]]
        /\ recycled_vertex_ids' = recycled_vertex_ids \o new_vertex_cache[c]
        /\ freed' = freed \cup block_cache[c]
        /\ pc' = [pc EXCEPT ![c] = "clean"]
        /\ UNCHANGED <<epochsVars, vertex_id, vertices, begins, compact_table, txn, reading,
                       compacting, bounds, history>>
    BY <1>10 DEF Abort
  <2>2. ASSUME NEW p \in 1 .. n
        PROVE  block'[p] \in V /\ block'[p].prev = block[p].prev
               /\ (block'[p].creation = block[p].creation \/ block'[p].creation # 0)
    <3>1. block[p] \in V
      BY <1>0, Facts DEF V
    <3>2. block'[p] = IF p \in block_cache[c] THEN [block[p] EXCEPT !.creation = ROLLBACK_TOMBSTONE]
                                             ELSE block[p]
      BY <1>0, <2>1
    <3>3. ROLLBACK_TOMBSTONE \in Stamps /\ ROLLBACK_TOMBSTONE # 0
      BY DEF Stamps, ROLLBACK_TOMBSTONE
    <3> QED BY <3>1, <3>2, <3>3 DEF V
  <2>3. block' \in Seq(V) /\ Len(block') = n /\ DOMAIN block' = 1 .. n
    <3>1. block' = [p \in 1 .. n |-> block'[p]]
      BY <1>0, <2>1
    <3>2. block' \in [1 .. n -> V]
      BY <2>2, <3>1
    <3> QED BY <1>0, <3>2, FunctionIsSeq
  <2>4. OlderInv'
    BY <1>0, <2>2, <2>3 DEF OlderInv
  <2>5. \A q \in Loaded + 1 .. Len(block') : block'[q].creation # 0
    <3>1. \A q \in Loaded + 1 .. n : q \in 1 .. n
      BY <1>0, BoundsAssumption
    <3>2. \A q \in Loaded + 1 .. n : block[q].creation # 0
      BY DEF TypeOK, n
    <3> QED BY <2>2, <2>3, <3>1, <3>2
  <2>6. recycled_vertex_ids' \in Seq(VertexId)
    <3>1. recycled_vertex_ids \in Seq(VertexId) /\ new_vertex_cache[c] \in Seq(VertexId)
      BY DEF TypeOK
    <3> QED BY <2>1, <3>1, ConcatProperties
  <2>7. freed' \subseteq 1 .. n
    BY <2>1 DEF TypeOK, n
  <2> QED BY <2>1, <2>3, <2>4, <2>5, <2>6, <2>7 DEF TypeOK, Stamps, V, n
<1>11. ASSUME v \in VertexId, CompactVertex(c, v) PROVE TypeOK' /\ OlderInv'
  <2>1. /\ block' = [p \in DOMAIN block |->
              IF p \in Cuts(v, compacting[c].bound) THEN [block[p] EXCEPT !.prev = NULLPOINTER]
                                                   ELSE block[p]]
        /\ freed' = freed \cup Garbage(v, compacting[c].bound)
        /\ UNCHANGED <<epochsVars, ids, vertices, begins, compact_table, pc, txn, reading, bounds,
                       history>>
    BY <1>11 DEF CompactVertex
  <2>2. ASSUME NEW p \in 1 .. n
        PROVE  block'[p] \in V /\ block'[p].creation = block[p].creation
               /\ (block'[p].prev = block[p].prev \/ block'[p].prev = 0)
    <3>1. block[p] \in V
      BY <1>0, Facts DEF V
    <3>2. \/ block'[p] = [block[p] EXCEPT !.prev = NULLPOINTER]
          \/ block'[p] = block[p]
      BY <1>0, <2>1
    <3>3. NULLPOINTER \in Pointer
      BY BoundsAssumption DEF Pointer
    <3> QED BY <3>1, <3>2, <3>3 DEF V
  <2>3. block' \in Seq(V) /\ Len(block') = n /\ DOMAIN block' = 1 .. n
    <3>1. block' = [p \in 1 .. n |-> block'[p]]
      BY <1>0, <2>1
    <3>2. block' \in [1 .. n -> V]
      BY <2>2, <3>1
    <3> QED BY <1>0, <3>2, FunctionIsSeq
  <2>4. OlderInv'
    BY <1>0, <2>2, <2>3 DEF OlderInv
  <2>5. \A q \in Loaded + 1 .. Len(block') : block'[q].creation # 0
    <3>1. \A q \in Loaded + 1 .. n : q \in 1 .. n
      BY <1>0, BoundsAssumption
    <3>2. \A q \in Loaded + 1 .. n : block[q].creation # 0
      BY DEF TypeOK, n
    <3> QED BY <2>2, <2>3, <3>1, <3>2
  <2>6. freed' \subseteq 1 .. n
    BY <1>0, <2>1 DEF TypeOK, n, Garbage, Reach
  <2>7. compacting' \in [Client -> Compaction]
    <3>1. compacting \in [Client -> Compaction]
      BY DEF TypeOK, Compaction
    <3>2. PICK again \in SUBSET VertexId : Done(c, v, again)
      BY <1>11 DEF CompactVertex
    <3> QED BY <3>1, <3>2, DoneStep
  <2> QED BY <2>1, <2>3, <2>4, <2>5, <2>6, <2>7 DEF TypeOK, Stamps, Compaction, V, n
<1> QED BY <1>5, <1>6, <1>7, <1>8, <1>9, <1>10, <1>11

\* The steps of a client, by what they are about.
Step(c) ==
  \/ BeginLoad(c) \/ BeginPublish(c) \/ WalkOn(c) \/ Return(c) \/ Commit(c) \/ Abort(c)
  \/ PushRecycled(c) \/ Stamp(c) \/ Stamped(c) \/ Leave(c) \/ Spin(c) \/ Compact(c)
  \/ Scanned(c) \/ Compacted(c)

StepAt(c, v) ==
  \/ GetVertex(c, v) \/ PutVertex(c, v) \/ Install(c, v) \/ Unlock(c, v)
  \/ CompactVertex(c, v) \/ CompactSkip(c, v)

LEMMA Steps ==
  ASSUME Next
  PROVE  \/ \E c \in Client : Step(c)
         \/ \E c \in Client, v \in VertexId : StepAt(c, v)
         \/ \E c \in Client, v \in VertexId, b \in Recycle : DelVertex(c, v, b)
         \/ \E c \in Client, b \in Reuse : NewVertex(c, b)
         \/ \E c \in Client, b \in BOOLEAN : FinishCommit(c, b)
         \/ \E c \in Client, t \in Thread : ScanThread(c, t)
         \/ \E G \in SUBSET Client : RegisterGroup(G)
         \/ Publish
<1>1. ASSUME NEW c \in Client, Call(c)
      PROVE  \/ Step(c) \/ \E v \in VertexId : StepAt(c, v)
             \/ \E v \in VertexId, b \in Recycle : DelVertex(c, v, b)
             \/ \E b \in Reuse : NewVertex(c, b)
  BY <1>1, Zenon DEF Call, Step, StepAt
<1>2. ASSUME NEW c \in Client, CallStep(c)
      PROVE  \/ Step(c) \/ \E v \in VertexId : StepAt(c, v)
             \/ \E b \in BOOLEAN : FinishCommit(c, b)
             \/ \E t \in Thread : ScanThread(c, t)
  BY <1>2, Zenon DEF CallStep, Step, StepAt
<1> QED BY <1>1, <1>2, Zenon DEF Next

\* Where a client is: only its own steps, and the grant of its group, change that.
LEMMA PlaceStep ==
  ASSUME Types, Next
  PROVE  PlaceInv'
<1>0. /\ pc \in [Client -> {"idle", "publish", "open", "walk", "registered", "install", "clean",
                            "finish", "spin", "scan", "compact"}]
      /\ compacting \in [Client -> Compaction] /\ DOMAIN reading = Client
      /\ stage \in [Client -> {"idle", "queued", "granted"}]
      /\ local_txn_id \in [Client -> 0 .. transaction_id] /\ transaction_id \in Nat
  BY DEF Types, TypeOK, EpochInv, Compaction
<1>i. \A d \in Client : PlaceOf(d)
  BY DEF Types, PlaceInv
<1>f. ASSUME NEW d \in Client, pc'[d] = pc[d], stage'[d] = stage[d], compacting'[d] = compacting[d],
             reading'[d] = reading[d], local_txn_id'[d] = local_txn_id[d]
      PROVE  PlaceOf(d)'
  BY <1>i, <1>f DEF PlaceOf, Active
<1> USE DEF epochsVars, ids, vertices, blocks, begins, caches, txn, bounds, history, Goto
<1>1. ASSUME NEW c \in Client, NEW d \in Client,
             \/ BeginLoad(c) \/ BeginPublish(c) \/ Return(c) \/ Commit(c) \/ Stamped(c)
             \/ Abort(c) \/ Leave(c) \/ Spin(c) \/ Compact(c) \/ Compacted(c)
      PROVE  PlaceOf(d)'
  <2>i. PlaceOf(c) /\ PlaceOf(d)
    BY <1>i
  <2>1. CASE BeginLoad(c)
    <3>1. CASE d # c
      BY <1>0, <1>f, <2>1, <3>1 DEF BeginLoad
    <3>2. CASE d = c
      BY <1>0, <2>i, <2>1, <3>2 DEF BeginLoad, PlaceOf, Active, NotCompacting
    <3> QED BY <3>1, <3>2
  <2>2. CASE BeginPublish(c)
    <3>1. CASE d # c
      BY <1>0, <1>f, <2>2, <3>1 DEF BeginPublish, StartCompact
    <3>2. CASE d = c
      BY <1>0, <2>i, <2>2, <3>2 DEF BeginPublish, StartCompact, PlaceOf, Active, NotCompacting
    <3> QED BY <3>1, <3>2
  <2>3. CASE Return(c)
    <3>1. CASE d # c
      BY <1>0, <1>f, <2>3, <3>1 DEF Return
    <3>2. CASE d = c
      BY <1>0, <2>i, <2>3, <3>2 DEF Return, PlaceOf, Active, NotCompacting
    <3> QED BY <3>1, <3>2
  <2>4. CASE Commit(c)
    <3>1. CASE d # c
      BY <1>0, <1>f, <2>4, <3>1 DEF Commit, Ask
    <3>2. CASE d = c
      BY <1>0, <2>i, <2>4, <3>2 DEF Commit, Ask, PlaceOf, Active, NotCompacting
    <3> QED BY <3>1, <3>2
  <2>5. CASE Stamped(c)
    <3>1. CASE d # c
      BY <1>0, <1>f, <2>5, <3>1 DEF Stamped
    <3>2. CASE d = c
      BY <1>0, <2>i, <2>5, <3>2 DEF Stamped, PlaceOf, Active, NotCompacting
    <3> QED BY <3>1, <3>2
  <2>6. CASE Abort(c)
    <3>1. CASE d # c
      BY <1>0, <1>f, <2>6, <3>1 DEF Abort
    <3>2. CASE d = c
      BY <1>0, <2>i, <2>6, <3>2 DEF Abort, PlaceOf, Active, NotCompacting
    <3> QED BY <3>1, <3>2
  <2>7. CASE Leave(c)
    <3>1. CASE d # c
      BY <1>0, <1>f, <2>7, <3>1 DEF Leave
    <3>2. CASE d = c
      BY <1>0, <2>i, <2>7, <3>2 DEF Leave, PlaceOf, Active, NotCompacting
    <3> QED BY <3>1, <3>2
  <2>8. CASE Spin(c)
    <3>1. CASE d # c
      BY <1>0, <1>f, <2>8, <3>1 DEF Spin
    <3>2. CASE d = c
      BY <1>0, <2>i, <2>8, <3>2 DEF Spin, PlaceOf, Active, NotCompacting
    <3> QED BY <3>1, <3>2
  <2>9. CASE Compact(c)
    <3>1. CASE d # c
      BY <1>0, <1>f, <2>9, <3>1 DEF Compact, StartCompact
    <3>2. CASE d = c
      BY <1>0, <2>i, <2>9, <3>2 DEF Compact, StartCompact, PlaceOf, Active, NotCompacting
    <3> QED BY <3>1, <3>2
  <2>10. CASE Compacted(c)
    <3>1. CASE d # c
      BY <1>0, <1>f, <2>10, <3>1 DEF Compacted
    <3>2. CASE d = c
      <4>1. /\ pc[c] = "compact" /\ pc'[c] = compacting[c].resume /\ compacting'[c] = NotCompacting
            /\ UNCHANGED <<stage, reading, local_txn_id>>
        BY <1>0, <2>10 DEF Compacted
      <4>2. compacting[c].resume \in {"idle", "open"}
        BY <1>0 DEF Compaction
      <4> QED BY <1>0, <2>i, <4>1, <4>2, <3>2 DEF PlaceOf, Active, NotCompacting
    <3> QED BY <3>1, <3>2
  <2> QED BY <1>1, <2>1, <2>2, <2>3, <2>4, <2>5, <2>6, <2>7, <2>8, <2>9, <2>10
<1>2. ASSUME NEW c \in Client, NEW d \in Client, NEW v, NEW b, NEW t,
             \/ WalkOn(c) \/ Scanned(c)
             \/ (b \in BOOLEAN /\ FinishCommit(c, b))
             \/ (t \in Thread /\ ScanThread(c, t))
             \/ (v \in VertexId /\ (GetVertex(c, v) \/ CompactVertex(c, v) \/ CompactSkip(c, v)))
      PROVE  PlaceOf(d)'
  <2>i. PlaceOf(c) /\ PlaceOf(d)
    BY <1>i
  <2>d. ASSUME NEW again \in SUBSET VertexId, Done(c, v, again), pc[c] = "compact",
               UNCHANGED <<pc, stage, reading, local_txn_id>>
        PROVE  PlaceOf(d)'
    <3>0. /\ \A e \in Client \ {c} : compacting'[e] = compacting[e]
          /\ compacting'[c].resume = compacting[c].resume
      BY <1>0, <2>d, DoneStep
    <3>1. CASE d # c
      BY <1>f, <2>d, <3>0, <3>1
    <3>2. CASE d = c
      BY <1>0, <2>i, <2>d, <3>0, <3>2 DEF PlaceOf, Active
    <3> QED BY <3>1, <3>2
  <2>1. CASE v \in VertexId /\ GetVertex(c, v)
    <3>1. CASE d # c
      BY <1>0, <1>f, <2>1, <3>1 DEF GetVertex
    <3>2. CASE d = c
      BY <1>0, <2>i, <2>1, <3>2 DEF GetVertex, Operate, PlaceOf, Active, NotCompacting
    <3> QED BY <3>1, <3>2
  <2>2. CASE WalkOn(c)
    <3>1. CASE d # c
      BY <1>0, <1>f, <2>2, <3>1 DEF WalkOn
    <3>2. CASE d = c
      BY <1>0, <2>i, <2>2, <3>2 DEF WalkOn, PlaceOf, Active, NotCompacting
    <3> QED BY <3>1, <3>2
  <2>3. CASE b \in BOOLEAN /\ FinishCommit(c, b)
    <3>0. /\ pc'[c] \in {"spin", "idle"} /\ \A e \in Client \ {c} : pc'[e] = pc[e]
      <4>1. CASE b
        BY <1>0, <2>3, <4>1 DEF FinishCommit
      <4>2. CASE ~b
        BY <1>0, <2>3, <4>2 DEF FinishCommit
      <4> QED BY <4>1, <4>2
    <3>1. CASE d # c
      BY <1>0, <1>f, <2>3, <3>0, <3>1 DEF FinishCommit, Finish
    <3>2. CASE d = c
      BY <1>0, <2>i, <2>3, <3>0, <3>2 DEF FinishCommit, Finish, PlaceOf, Active, NotCompacting
    <3> QED BY <3>1, <3>2
  <2>4. CASE t \in Thread /\ ScanThread(c, t)
    <3>1. PICK bound \in Nat : ScanWith(c, t, bound)
      <4>1. compacting[c].bound \in Nat /\ read_epoch_table[t] \in {NO_TRANSACTION} \cup 0 .. visible
            /\ visible \in Nat
        <5>1. compacting[c].bound \in Nat
          BY <1>0 DEF Compaction
        <5>2. read_epoch_table \in [Thread -> {NO_TRANSACTION} \cup 0 .. visible]
          BY DEF Types, TypeOK
        <5>3. visible \in Nat
          BY Facts DEF Types
        <5> QED BY <2>4, <5>1, <5>2, <5>3
      <4>2. CASE read_epoch_table[t] # NO_TRANSACTION /\ read_epoch_table[t] < compacting[c].bound
        BY <2>4, <4>1, <4>2 DEF ScanThread
      <4>3. CASE ~(read_epoch_table[t] # NO_TRANSACTION /\ read_epoch_table[t] < compacting[c].bound)
        BY <2>4, <4>1, <4>3 DEF ScanThread
      <4> QED BY <4>2, <4>3
    <3>2. /\ \A e \in Client \ {c} : compacting'[e] = compacting[e]
          /\ compacting'[c].resume = compacting[c].resume
      BY <1>0, <2>4, <3>1, ScanStep
    <3>3. pc[c] = "scan" /\ UNCHANGED <<pc, stage, reading, local_txn_id>>
      BY <3>1 DEF ScanWith
    <3>4. CASE d # c
      BY <1>f, <3>2, <3>3, <3>4
    <3>5. CASE d = c
      BY <1>0, <2>i, <3>2, <3>3, <3>5 DEF PlaceOf, Active
    <3> QED BY <3>4, <3>5
  <2>5. CASE Scanned(c)
    <3>0. TypeOK
      BY DEF Types
    <3>1. /\ \A e \in Client \ {c} : compacting'[e] = compacting[e]
          /\ compacting'[c].resume = compacting[c].resume
      BY <2>5, <3>0, ScannedStep
    <3>2. CASE d # c
      BY <1>0, <1>f, <2>5, <3>1, <3>2 DEF Scanned
    <3>3. CASE d = c
      BY <1>0, <2>i, <2>5, <3>1, <3>3 DEF Scanned, PlaceOf, Active
    <3> QED BY <3>2, <3>3
  <2>6. CASE v \in VertexId /\ CompactVertex(c, v)
    <3>1. PICK again \in SUBSET VertexId : Done(c, v, again)
      BY <2>6 DEF CompactVertex
    <3>2. pc[c] = "compact" /\ UNCHANGED <<pc, stage, reading, local_txn_id>>
      BY <2>6 DEF CompactVertex
    <3> QED BY <2>d, <3>1, <3>2
  <2>7. CASE v \in VertexId /\ CompactSkip(c, v)
    <3>1. PICK again \in SUBSET VertexId : Done(c, v, again)
      BY <2>7 DEF CompactSkip
    <3>2. pc[c] = "compact" /\ UNCHANGED <<pc, stage, reading, local_txn_id>>
      BY <2>7 DEF CompactSkip
    <3> QED BY <2>d, <3>1, <3>2
  <2> QED BY <1>2, <2>1, <2>2, <2>3, <2>4, <2>5, <2>6, <2>7
<1>3. ASSUME NEW c \in Client, NEW d \in Client, NEW v, NEW b,
             \/ PutVertex(c, v) \/ DelVertex(c, v, b) \/ NewVertex(c, b)
             \/ Install(c, v) \/ PushRecycled(c) \/ Stamp(c) \/ Unlock(c, v)
      PROVE  PlaceOf(d)'
  <2>1. UNCHANGED <<pc, stage, compacting, reading, local_txn_id>>
    BY <1>3 DEF PutVertex, DelVertex, NewVertex, Install, PushRecycled, Stamp, StampAt, Unlock,
                Publish, MakeVisible
  <2> QED BY <1>f, <2>1
<1>4. ASSUME NEW G \in SUBSET Client, RegisterGroup(G), NEW d \in Client
      PROVE  PlaceOf(d)'
  <2>1. /\ pc'[d] = IF d \in G THEN "install" ELSE pc[d]
        /\ stage'[d] = IF d \in G THEN "granted" ELSE stage[d]
        /\ d \in G => stage[d] = "queued"
        /\ UNCHANGED <<compacting, reading, local_txn_id>>
    BY <1>4 DEF RegisterGroup, Grant, Queued
  <2>2. CASE d \in G
    <3>1. /\ pc'[d] = "install" /\ stage'[d] = "granted" /\ pc[d] = "registered" /\ PlaceOf(d)
          /\ UNCHANGED <<compacting, reading, local_txn_id>>
      BY <1>i, <2>1, <2>2 DEF PlaceOf
    <3> QED BY <1>0, <3>1 DEF PlaceOf, Active
  <2>3. CASE d \notin G
    BY <1>f, <2>1, <2>3
  <2> QED BY <2>2, <2>3
<1>5. ASSUME NEW d \in Client, Publish PROVE PlaceOf(d)'
  BY <1>f, <1>5 DEF Publish, MakeVisible
<1> HIDE DEF epochsVars, ids, vertices, blocks, begins, caches, txn, bounds, history, Goto
<1>6. ASSUME NEW d \in Client PROVE PlaceOf(d)'
  BY <1>1, <1>2, <1>3, <1>4, <1>5, Steps, Zenon DEF Step, StepAt
<1> QED BY <1>6 DEF PlaceInv

\* The initial states.
LEMMA TypesInit == Init => Types
<1> SUFFICES ASSUME Init PROVE Types
  OBVIOUS
<1> DEFINE V == [vid : VertexId, creation : Stamps, prev : Pointer, dead : BOOLEAN]
<1>1. block \in [1 .. Loaded -> V] /\ \A p \in 1 .. Loaded : block[p].prev = 0
  <2>1. \A p \in 1 .. Loaded :
          [vid |-> p - 1, creation |-> 0, prev |-> NULLPOINTER, dead |-> FALSE] \in V
    BY BoundsAssumption DEF Init, EpochsInit, Stamps, VertexId, Pointer
  <2>2. block = [p \in 1 .. Loaded |->
                   [vid |-> p - 1, creation |-> 0, prev |-> NULLPOINTER, dead |-> FALSE]]
    BY DEF Init, LoadedBlocks
  <2>3. block \in [1 .. Loaded -> V]
    <3> HIDE DEF V
    <3> QED BY <2>1, <2>2
  <2> QED BY <2>2, <2>3
<1>2. block \in Seq(V) /\ Len(block) = Loaded
  <2> HIDE DEF V
  <2> QED BY <1>1, FunctionIsSeq, BoundsAssumption
<1>3. EpochInv
  BY DEF Init, EpochsInit, EpochInv
<1>4. OlderInv
  <2>1. \A p \in 1 .. Loaded : block[p].prev < p /\ DOMAIN block = 1 .. Loaded
    BY <1>1, BoundsAssumption
  <2> QED BY <1>1, <2>1 DEF OlderInv
<1>5. PlaceInv
  BY DEF Init, EpochsInit, PlaceInv, PlaceOf, Active, NotCompacting
<1>6. TypeOK
  <2>1. /\ vertex_id \in 0 .. MaxVertex /\ recycled_vertex_ids \in Seq(VertexId)
        /\ vertex_futexes \in [VertexId -> {0, 1}] /\ vertex_ptrs \in [VertexId -> 0 .. Len(block)]
        /\ Len(block) <= MaxBlock /\ freed \subseteq 1 .. Len(block)
        /\ \A p \in Loaded + 1 .. Len(block) : block[p].creation # 0
    BY <1>2, BoundsAssumption, EmptySeq DEF Init, VertexId, LoadedVertices
  <2>2. /\ transaction_id \in Nat
        /\ read_epoch_table \in [Thread -> {NO_TRANSACTION} \cup 0 .. visible]
        /\ compact_table \in [Thread -> SUBSET VertexId]
        /\ pc \in [Client -> {"idle", "publish", "open", "walk", "registered", "install", "clean",
                              "finish", "spin", "scan", "compact"}]
        /\ local_txn_id \in [Client -> 0 .. transaction_id]
        /\ read_epoch_id \in [Client -> 0 .. visible]
        /\ commit_epoch_id \in [Client -> 0 .. sealed]
        /\ txns \in [Client -> Nat] /\ ops \in [Client -> Nat] /\ compacts \in Nat
    BY DEF Init, EpochsInit
  <2>3. /\ vertex_ptr_cache \in [Client -> [VertexId -> 0 .. Len(block)]]
        /\ block_cache \in [Client -> SUBSET (1 .. Len(block))]
        /\ acquired_locks \in [Client -> SUBSET VertexId]
        /\ reading \in [Client -> [vid : VertexId \cup {0}, ptr : 0 .. Len(block)]]
    BY <1>2, BoundsAssumption DEF Init, NotReading
  <2>4. /\ new_vertex_cache \in [Client -> Seq(VertexId)]
        /\ recycled_vertex_cache \in [Client -> Seq(VertexId)]
    BY EmptySeq DEF Init
  <2>5. compacting \in [Client -> [bound : Nat, threads : SUBSET Thread, todo : SUBSET VertexId,
                                   keep : SUBSET VertexId, resume : {"idle", "open"}]]
    BY DEF Init, NotCompacting
  <2>6. committed \subseteq [vid : VertexId, ptr : 1 .. Len(block), epoch : 0 .. sealed,
                             read : 0 .. visible]
    <3>1. committed = {[vid |-> v, ptr |-> v + 1, epoch |-> 0, read |-> 0] : v \in LoadedVertices}
      BY DEF Init
    <3>2. \A v \in LoadedVertices : v \in VertexId /\ v + 1 \in 1 .. Len(block)
      BY <1>2, BoundsAssumption DEF LoadedVertices, VertexId
    <3>3. 0 \in 0 .. sealed /\ 0 \in 0 .. visible
      BY DEF Init, EpochsInit
    <3> QED BY <3>1, <3>2, <3>3
  <2> QED BY <1>2, <2>1, <2>2, <2>3, <2>4, <2>5, <2>6 DEF TypeOK
<1> QED BY <1>3, <1>4, <1>5, <1>6 DEF Types

\* What every step does to the epochs.
LEMMA EpochsStep ==
  ASSUME EpochInv, [Next]_vars
  PROVE  /\ EpochInv' /\ sealed' >= sealed /\ visible' >= visible /\ sealed' \in Nat /\ visible' \in Nat
<1> USE DEF epochsVars, ids, vertices, blocks, begins, caches, txn, bounds, history, Goto
<1>1. \/ UNCHANGED epochsVars
      \/ \E c \in Client : Ask(c) \/ Finish(c)
      \/ \E G \in SUBSET Client : Grant(G)
      \/ MakeVisible
  <2>1. ASSUME NEW c \in Client, Step(c) PROVE UNCHANGED epochsVars \/ Ask(c)
    BY <2>1 DEF Step, BeginLoad, BeginPublish, WalkOn, Return, Commit, Abort,
                PushRecycled, Stamp, StampAt, Stamped, Leave, Spin, Compact, Scanned, Compacted
  <2>2. ASSUME NEW c \in Client, NEW v \in VertexId, StepAt(c, v) PROVE UNCHANGED epochsVars
    BY <2>2 DEF StepAt, GetVertex, PutVertex, Install, Unlock, CompactVertex, CompactSkip
  <2>3. ASSUME NEW c \in Client, NEW v \in VertexId, NEW b \in Recycle, DelVertex(c, v, b)
        PROVE  UNCHANGED epochsVars
    BY <2>3 DEF DelVertex
  <2>4. ASSUME NEW c \in Client, NEW b \in Reuse, NewVertex(c, b) PROVE UNCHANGED epochsVars
    BY <2>4 DEF NewVertex
  <2>5. ASSUME NEW c \in Client, NEW b \in BOOLEAN, FinishCommit(c, b) PROVE Finish(c)
    BY <2>5 DEF FinishCommit
  <2>6. ASSUME NEW c \in Client, NEW t \in Thread, ScanThread(c, t) PROVE UNCHANGED epochsVars
    BY <2>6 DEF ScanThread, ScanWith
  <2>7. ASSUME NEW G \in SUBSET Client, RegisterGroup(G) PROVE Grant(G)
    BY <2>7 DEF RegisterGroup
  <2>8. ASSUME Publish PROVE MakeVisible
    BY <2>8 DEF Publish
  <2>9. ASSUME UNCHANGED vars PROVE UNCHANGED epochsVars
    BY <2>9 DEF vars
  <2> HIDE DEF epochsVars, ids, vertices, blocks, begins, caches, txn, bounds, history, Goto
  <2> QED BY <2>1, <2>2, <2>3, <2>4, <2>5, <2>6, <2>7, <2>8, <2>9, Steps, Zenon
<1> QED BY <1>1, EpochStep

\* OlderInv speaks of the versions only, and the quiet steps write none.
LEMMA QuietBlocks ==
  ASSUME NEW c, NEW v, NEW t, NEW b,
         \/ BeginLoad(c) \/ BeginPublish(c) \/ WalkOn(c) \/ Return(c) \/ Commit(c)
         \/ PushRecycled(c) \/ Stamped(c) \/ Leave(c) \/ Spin(c) \/ Compact(c)
         \/ Scanned(c) \/ Compacted(c)
         \/ GetVertex(c, v) \/ Install(c, v) \/ Unlock(c, v) \/ CompactSkip(c, v)
         \/ ScanThread(c, t) \/ FinishCommit(c, b) \/ Publish
  PROVE  UNCHANGED blocks
BY DEF BeginLoad, BeginPublish, WalkOn, Return, Commit, PushRecycled, Stamped, Leave, Spin, Compact,
       Scanned, Compacted, GetVertex, Install, Unlock, CompactSkip, ScanThread, ScanWith, FinishCommit,
       Publish

LEMMA TypesStep ==
  ASSUME Types, [Next]_vars
  PROVE  Types'
<1>0. TypeOK /\ EpochInv /\ OlderInv /\ PlaceInv
  BY DEF Types
<1>1. EpochInv' /\ sealed' >= sealed /\ visible' >= visible /\ sealed' \in Nat /\ visible' \in Nat
  BY <1>0, EpochsStep
<1>2. CASE UNCHANGED vars
  <2> USE DEF vars, epochsVars, ids, vertices, blocks, begins, caches, txn, bounds, history
  <2>1. TypeOK'
    BY <1>0, <1>2 DEF TypeOK, Stamps
  <2>2. OlderInv' /\ PlaceInv'
    BY <1>0, <1>2 DEF OlderInv, PlaceInv, PlaceOf, Active
  <2> QED BY <1>1, <2>1, <2>2 DEF Types
<1>3. CASE Next
  <2>1. PlaceInv'
    BY <1>3, PlaceStep
  <2>2. UNCHANGED blocks => OlderInv'
    BY <1>0 DEF OlderInv, blocks
  <2>3. TypeOK' /\ OlderInv'
    <3>1. ASSUME NEW c \in Client, Step(c) PROVE TypeOK' /\ OlderInv'
      <4>1. CASE Stamp(c) \/ Abort(c)
        BY <1>0, <1>1, <4>1, WriteTypes, Zenon
      <4>2. CASE ~(Stamp(c) \/ Abort(c))
        <5>1. TypeOK'
          BY <1>0, <1>1, <3>1, <4>2, QuietTypes, Zenon DEF Step
        <5>2. UNCHANGED blocks
          BY <3>1, <4>2, QuietBlocks, Zenon DEF Step
        <5> QED BY <2>2, <5>1, <5>2
      <4> QED BY <4>1, <4>2
    <3>2. ASSUME NEW c \in Client, NEW v \in VertexId, StepAt(c, v) PROVE TypeOK' /\ OlderInv'
      <4>1. CASE PutVertex(c, v) \/ CompactVertex(c, v)
        BY <1>0, <1>1, <4>1, WriteTypes, Zenon
      <4>2. CASE ~(PutVertex(c, v) \/ CompactVertex(c, v))
        <5>1. TypeOK'
          BY <1>0, <1>1, <3>2, <4>2, QuietTypes, Zenon DEF StepAt
        <5>2. UNCHANGED blocks
          BY <3>2, <4>2, QuietBlocks, Zenon DEF StepAt
        <5> QED BY <2>2, <5>1, <5>2
      <4> QED BY <4>1, <4>2
    <3>3. ASSUME NEW c \in Client, NEW v \in VertexId, NEW b \in Recycle, DelVertex(c, v, b)
          PROVE  TypeOK' /\ OlderInv'
      BY <1>0, <1>1, <3>3, WriteTypes, Zenon
    <3>4. ASSUME NEW c \in Client, NEW b \in Reuse, NewVertex(c, b) PROVE TypeOK' /\ OlderInv'
      BY <1>0, <1>1, <3>4, WriteTypes, Zenon
    <3>5. ASSUME NEW c \in Client, NEW b \in BOOLEAN, FinishCommit(c, b) PROVE TypeOK' /\ OlderInv'
      <4>1. TypeOK'
        BY <1>0, <1>1, <3>5, QuietTypes, Zenon
      <4>2. UNCHANGED blocks
        BY <3>5, QuietBlocks, Zenon
      <4> QED BY <2>2, <4>1, <4>2
    <3>6. ASSUME NEW c \in Client, NEW t \in Thread, ScanThread(c, t) PROVE TypeOK' /\ OlderInv'
      <4>1. TypeOK'
        BY <1>0, <1>1, <3>6, QuietTypes, Zenon
      <4>2. UNCHANGED blocks
        BY <3>6, QuietBlocks, Zenon
      <4> QED BY <2>2, <4>1, <4>2
    <3>7. ASSUME NEW G \in SUBSET Client, RegisterGroup(G) PROVE TypeOK' /\ OlderInv'
      <4>1. PICK c \in Client : c \in G
        BY <3>7 DEF RegisterGroup, Grant
      <4> QED BY <1>0, <1>1, <3>7, <4>1, WriteTypes, Zenon
    <3>8. ASSUME Publish PROVE TypeOK' /\ OlderInv'
      <4>1. TypeOK'
        BY <1>0, <1>1, <3>8, PublishTypes, Zenon
      <4>2. UNCHANGED blocks
        BY <3>8, QuietBlocks, Zenon
      <4> QED BY <2>2, <4>1, <4>2
    <3> QED BY <1>3, <3>1, <3>2, <3>3, <3>4, <3>5, <3>6, <3>7, <3>8, Steps, Zenon
  <2> QED BY <1>1, <2>1, <2>3 DEF Types
<1> QED BY <1>2, <1>3

\* Every state of the transactions is well typed, whatever ids are recycled and however many
\* clients a thread has: no transaction stamps a version 0, which every snapshot would see.
THEOREM Typing == Spec => []TypeOK
<1>1. Types /\ [Next]_vars => Types'
  BY TypesStep
<1>2. Types => TypeOK
  BY DEF Types
<1> QED BY <1>1, <1>2, TypesInit, PTL DEF Spec

-----------------------------------------------------------------------------
(* What the steps do to the versions. *)

\* A step that leaves the versions and the caches of them alone.
Quiet ==
  /\ UNCHANGED <<block, freed, block_cache, vertex_ptr_cache, acquired_locks, committed>>
  /\ \A c \in Client :
       /\ pc'[c] = "install" <=> pc[c] = "install"
       /\ pc'[c] = "clean" <=> pc[c] = "clean"
       /\ pc[c] = "install" => grant'[c] = grant[c]
       /\ block_cache[c] # {} => /\ local_txn_id'[c] = local_txn_id[c]
                                 /\ read_epoch_id'[c] = read_epoch_id[c]

Calm == Quiet /\ UNCHANGED <<vertex_id, vertex_futexes, vertex_ptrs>>

\* put_vertex and del_vertex.
Write(c, v) ==
  /\ pc[c] = "open" /\ ThreadFree(c) /\ c \notin ReadOnly /\ v < vertex_id
  /\ LockVertex(c, v)
  /\ NoVersion \/ (~Conflict(c, v) /\ \E dead \in BOOLEAN : AddVersion(c, v, dead))
  /\ UNCHANGED <<epochsVars, vertex_id, vertex_ptrs, freed, begins, pc, local_txn_id, read_epoch_id,
                 reading, compacting, history>>

\* A step of c that changes the place of nobody else.
LEMMA CalmStep ==
  ASSUME Types, HoldsInv, NEW c \in Client, NEW v, NEW t, NEW b,
         \/ BeginLoad(c) \/ BeginPublish(c) \/ WalkOn(c) \/ Return(c) \/ Commit(c)
         \/ PushRecycled(c) \/ Spin(c) \/ Compact(c) \/ Scanned(c) \/ Compacted(c)
         \/ GetVertex(c, v) \/ CompactSkip(c, v) \/ ScanThread(c, t)
         \/ (b \in BOOLEAN /\ FinishCommit(c, b))
  PROVE  Calm
<1>0. /\ pc \in [Client -> {"idle", "publish", "open", "walk", "registered", "install", "clean",
                            "finish", "spin", "scan", "compact"}]
      /\ DOMAIN local_txn_id = Client /\ DOMAIN read_epoch_id = Client /\ DOMAIN grant = Client
      /\ compacting[c].resume \in {"idle", "open"}
  BY DEF Types, TypeOK, EpochInv
<1> USE DEF epochsVars, ids, vertices, blocks, begins, caches, txn, bounds, history, Goto
<1>f. ASSUME UNCHANGED <<block, freed, block_cache, vertex_ptr_cache, acquired_locks, committed>>,
             UNCHANGED <<vertex_id, vertex_futexes, vertex_ptrs>>,
             \A d \in Client \ {c} : pc'[d] = pc[d] /\ grant'[d] = grant[d],
             \/ pc[c] \notin {"install", "clean"} /\ pc'[c] \notin {"install", "clean"}
             \/ pc'[c] = pc[c] /\ grant'[c] = grant[c],
             \A d \in Client : block_cache[d] # {} => /\ local_txn_id'[d] = local_txn_id[d]
                                                      /\ read_epoch_id'[d] = read_epoch_id[d]
      PROVE  Calm
  BY <1>f DEF Calm, Quiet
<1>1. CASE BeginLoad(c)
  <2>1. block_cache[c] = {}
    BY <1>1 DEF BeginLoad, HoldsInv, HoldsOf
  <2>2. /\ UNCHANGED <<block, freed, block_cache, vertex_ptr_cache, acquired_locks, committed>>
        /\ UNCHANGED <<vertex_id, vertex_futexes, vertex_ptrs>>
        /\ \A d \in Client \ {c} : pc'[d] = pc[d] /\ grant'[d] = grant[d]
        /\ pc[c] = "idle" /\ pc'[c] = "publish"
        /\ \A d \in Client \ {c} : /\ local_txn_id'[d] = local_txn_id[d]
                                   /\ read_epoch_id'[d] = read_epoch_id[d]
    BY <1>0, <1>1 DEF BeginLoad
  <2>3. \A d \in Client : block_cache[d] # {} => /\ local_txn_id'[d] = local_txn_id[d]
                                                 /\ read_epoch_id'[d] = read_epoch_id[d]
    BY <2>1, <2>2
  <2>4. pc[c] \notin {"install", "clean"} /\ pc'[c] \notin {"install", "clean"}
    BY <2>2
  <2> QED BY <2>2, <2>3, <2>4 DEF Calm, Quiet
<1>2. CASE BeginPublish(c)
  BY <1>0, <1>f, <1>2 DEF BeginPublish, StartCompact
<1>3. CASE WalkOn(c) \/ PushRecycled(c)
  BY <1>f, <1>3 DEF WalkOn, PushRecycled
<1>4. CASE Return(c)
  BY <1>0, <1>f, <1>4 DEF Return
<1>5. CASE Commit(c)
  BY <1>0, <1>f, <1>5 DEF Commit, Ask
<1>6. CASE Spin(c)
  BY <1>0, <1>f, <1>6 DEF Spin
<1>7. CASE Compact(c)
  BY <1>0, <1>f, <1>7 DEF Compact, StartCompact
<1>8. CASE Scanned(c)
  BY <1>0, <1>f, <1>8 DEF Scanned
<1>9. CASE Compacted(c)
  BY <1>0, <1>f, <1>9 DEF Compacted
<1>10. CASE GetVertex(c, v)
  BY <1>0, <1>f, <1>10 DEF GetVertex, Operate
<1>11. CASE CompactSkip(c, v) \/ ScanThread(c, t)
  BY <1>f, <1>11 DEF CompactSkip, ScanThread, ScanWith
<1>12. CASE b \in BOOLEAN /\ FinishCommit(c, b)
  <2>1. pc[c] = "finish" /\ pc'[c] \in {"spin", "idle"} /\ \A d \in Client \ {c} : pc'[d] = pc[d]
    <3>1. CASE b
      BY <1>0, <1>12, <3>1 DEF FinishCommit
    <3>2. CASE ~b
      BY <1>0, <1>12, <3>2 DEF FinishCommit
    <3> QED BY <3>1, <3>2
  <2>2. /\ UNCHANGED <<block, freed, block_cache, vertex_ptr_cache, acquired_locks, committed>>
        /\ UNCHANGED <<vertex_id, vertex_futexes, vertex_ptrs, local_txn_id, read_epoch_id>>
        /\ \A d \in Client \ {c} : grant'[d] = grant[d]
    BY <1>0, <1>12 DEF FinishCommit, Finish
  <2>3. pc[c] \notin {"install", "clean"} /\ pc'[c] \notin {"install", "clean"}
    BY <2>1
  <2>4. \A d \in Client : /\ local_txn_id'[d] = local_txn_id[d]
                           /\ read_epoch_id'[d] = read_epoch_id[d]
    BY <2>2
  <2> QED BY <2>1, <2>2, <2>3, <2>4 DEF Calm, Quiet
<1> QED BY <1>1, <1>2, <1>3, <1>4, <1>5, <1>6, <1>7, <1>8, <1>9, <1>10, <1>11, <1>12

\* The steps, by what they do to the versions.
LEMMA Kinds ==
  ASSUME Types, HoldsInv, [Next]_vars
  PROVE  \/ Calm
         \/ \E c \in Client, b \in Reuse : NewVertex(c, b)
         \/ \E c \in Client, v \in VertexId : Write(c, v)
         \/ \E G \in SUBSET Client : RegisterGroup(G)
         \/ \E c \in Client, v \in VertexId : Install(c, v) \/ Unlock(c, v) \/ CompactVertex(c, v)
         \/ \E c \in Client : Stamp(c) \/ Stamped(c) \/ Abort(c) \/ Leave(c)
<1>1. CASE UNCHANGED vars
  BY <1>1 DEF vars, epochsVars, ids, vertices, blocks, begins, caches, txn, bounds, history, Calm, Quiet
<1>2. ASSUME NEW c \in Client, Step(c)
      PROVE  Calm \/ Stamp(c) \/ Stamped(c) \/ Abort(c) \/ Leave(c)
  BY <1>2, CalmStep, Zenon DEF Step
<1>3. ASSUME NEW c \in Client, NEW v \in VertexId, StepAt(c, v)
      PROVE  Calm \/ Install(c, v) \/ Unlock(c, v) \/ CompactVertex(c, v) \/ Write(c, v)
  <2>1. ASSUME PutVertex(c, v) PROVE Write(c, v)
    <3>1. Conflict(c, v) => NoVersion
      BY <2>1 DEF PutVertex
    <3>2. ~Conflict(c, v) => \E dead \in BOOLEAN : AddVersion(c, v, dead)
      BY <2>1, Zenon DEF PutVertex
    <3>3. pc[c] = "open" /\ ThreadFree(c) /\ c \notin ReadOnly /\ v < vertex_id /\ LockVertex(c, v)
      BY <2>1 DEF PutVertex, Operate
    <3>4. UNCHANGED <<epochsVars, vertex_id, vertex_ptrs, freed, begins, pc, local_txn_id,
                      read_epoch_id, reading, compacting, history>>
      BY <2>1 DEF PutVertex, ids
    <3> QED BY <3>1, <3>2, <3>3, <3>4, Zenon DEF Write
  <2> QED BY <1>3, <2>1, CalmStep, Zenon DEF StepAt
<1>4. ASSUME NEW c \in Client, NEW v \in VertexId, NEW b \in Recycle, DelVertex(c, v, b)
      PROVE  Write(c, v)
  <2>1. NoVersion \/ (~Conflict(c, v) /\ \E dead \in BOOLEAN : AddVersion(c, v, dead))
    BY <1>4, Zenon DEF DelVertex
  <2>2. pc[c] = "open" /\ ThreadFree(c) /\ c \notin ReadOnly /\ v < vertex_id /\ LockVertex(c, v)
    BY <1>4 DEF DelVertex, Operate
  <2>3. UNCHANGED <<epochsVars, vertex_id, vertex_ptrs, freed, begins, pc, local_txn_id,
                    read_epoch_id, reading, compacting, history>>
    BY <1>4 DEF DelVertex, ids
  <2> QED BY <2>1, <2>2, <2>3, Zenon DEF Write
<1>5. ASSUME NEW c \in Client, NEW b \in BOOLEAN, FinishCommit(c, b) PROVE Calm
  BY <1>5, CalmStep, Zenon
<1>6. ASSUME NEW c \in Client, NEW t \in Thread, ScanThread(c, t) PROVE Calm
  BY <1>6, CalmStep, Zenon
<1>7. ASSUME Publish PROVE Calm
  BY <1>7 DEF Publish, MakeVisible, ids, vertices, blocks, begins, caches, txn, bounds, history,
              Calm, Quiet
<1> QED BY <1>1, <1>2, <1>3, <1>4, <1>5, <1>6, <1>7, Steps, Zenon

\* A new version is the last block n, and its writer's newest of its vertex.
Adds(c, v, n) ==
  /\ n = Len(block) + 1 /\ DOMAIN block = 1 .. n - 1 /\ DOMAIN block' = 1 .. n
  /\ n \notin DOMAIN block /\ n \in DOMAIN block' /\ n # NULLPOINTER
  /\ DOMAIN block' = DOMAIN block \cup {n}
  /\ \A p \in DOMAIN block : p \in Nat /\ p < n
  /\ \A p \in DOMAIN block : block'[p] = block[p]
  /\ block'[n].vid = v /\ block'[n].creation = -local_txn_id[c]
  /\ block'[n].prev = Newest(c, v)
  /\ block_cache'[c] = block_cache[c] \cup {n}
  /\ \A d \in Client \ {c} : /\ block_cache'[d] = block_cache[d]
                             /\ vertex_ptr_cache'[d] = vertex_ptr_cache[d]
  /\ vertex_ptr_cache'[c][v] = n
  /\ \A u \in VertexId \ {v} : vertex_ptr_cache'[c][u] = vertex_ptr_cache[c][u]
  /\ compact_table' = [compact_table EXCEPT ![ThreadOf[c]] = compact_table[ThreadOf[c]] \cup {v}]
  /\ local_txn_id[c] \in Nat /\ local_txn_id[c] > 0

LEMMA Added ==
  ASSUME Types, NEW c \in Client, NEW v \in VertexId, NEW dead \in BOOLEAN, pc[c] = "open",
         c \notin ReadOnly, AddVersion(c, v, dead), UNCHANGED <<transaction_id, epochsVars>>
  PROVE  \E n \in Nat : Adds(c, v, n)
<1>0. TypeOK /\ EpochInv /\ OlderInv /\ PlaceOf(c)
  BY DEF Types, PlaceInv
<1>1. local_txn_id[c] > 0 /\ local_txn_id[c] \in Nat
  BY <1>0, Facts DEF PlaceOf, Active
<1>2. PICK n : n = Len(block) + 1
  OBVIOUS
<1>3. n \in Nat /\ DOMAIN block = 1 .. n - 1 /\ Len(block) \in Nat /\ n \notin DOMAIN block /\ n # 0
      /\ \A p \in DOMAIN block : p \in Nat /\ p < n
  <2>1. Len(block) \in Nat /\ DOMAIN block = 1 .. Len(block)
    BY <1>0, Facts
  <2> QED BY <1>2, <2>1
<1>4. /\ block' \in Seq([vid : VertexId, creation : Stamps', prev : Pointer, dead : BOOLEAN])
      /\ Len(block') = Len(block) + 1
      /\ \A p \in DOMAIN block : block'[p] = block[p]
      /\ block'[Len(block')] = [vid |-> v, creation |-> -local_txn_id[c],
                                prev |-> Newest(c, v), dead |-> dead]
  BY <1>0, <1>1, AddVersionType, Zenon
<1>5. /\ block'[n].vid = v /\ block'[n].creation = -local_txn_id[c] /\ block'[n].prev = Newest(c, v)
  <2>1. block'[n] = [vid |-> v, creation |-> -local_txn_id[c], prev |-> Newest(c, v), dead |-> dead]
    BY <1>2, <1>4, Zenon
  <2> QED BY <2>1
<1>6. DOMAIN block' = 1 .. n
  BY <1>2, <1>4, LenProperties
<1>7. DOMAIN block' = DOMAIN block \cup {n} /\ n \in DOMAIN block'
  BY <1>3, <1>6
<1>8. /\ block_cache' = [block_cache EXCEPT ![c] = block_cache[c] \cup {n}]
      /\ vertex_ptr_cache' = [vertex_ptr_cache EXCEPT ![c][v] = n]
      /\ compact_table' = [compact_table EXCEPT ![ThreadOf[c]] = compact_table[ThreadOf[c]] \cup {v}]
  BY <1>2, Zenon DEF AddVersion
<1>9. /\ DOMAIN block_cache = Client /\ DOMAIN vertex_ptr_cache = Client
      /\ DOMAIN vertex_ptr_cache[c] = VertexId
  BY DEF Types, TypeOK
<1>10. /\ block_cache'[c] = block_cache[c] \cup {n}
       /\ \A d \in Client \ {c} : /\ block_cache'[d] = block_cache[d]
                                  /\ vertex_ptr_cache'[d] = vertex_ptr_cache[d]
       /\ vertex_ptr_cache'[c][v] = n
       /\ \A u \in VertexId \ {v} : vertex_ptr_cache'[c][u] = vertex_ptr_cache[c][u]
  BY <1>8, <1>9
<1> QED BY <1>1, <1>2, <1>3, <1>4, <1>5, <1>6, <1>7, <1>8, <1>10 DEF Adds

\* What stays of the versions when only their stamps or their links change.
LEMMA StampEffect ==
  ASSUME Types, NEW c \in Client, Stamp(c)
  PROVE  \E p \in block_cache[c] :
           /\ pc[c] = "install" /\ \A v \in VertexId : vertex_ptr_cache[c][v] = NULLPOINTER
           /\ \A q \in block_cache[c] : p <= q
           /\ p \in DOMAIN block /\ DOMAIN block' = DOMAIN block
           /\ \A q \in DOMAIN block : block'[q].vid = block[q].vid /\ block'[q].prev = block[q].prev
           /\ \A q \in DOMAIN block : q # p => block'[q].creation = block[q].creation
           /\ block'[p].creation = grant[c] /\ visible < grant[c]
           /\ block_cache'[c] = block_cache[c] \ {p}
           /\ \A d \in Client \ {c} : block_cache'[d] = block_cache[d]
           /\ UNCHANGED <<epochsVars, ids, vertices, freed, begins, compact_table, pc, local_txn_id,
                          read_epoch_id, vertex_ptr_cache, recycled_vertex_cache, acquired_locks,
                          reading, compacting, history>>
<1>1. PICK p \in block_cache[c] : StampAt(c, p) /\ \A q \in block_cache[c] : p <= q
  BY DEF Stamp
<1>2. block_cache[c] \subseteq DOMAIN block
  BY Facts DEF Types
<1>3. \A q \in DOMAIN block :
        block[q] \in [vid : VertexId, creation : Stamps, prev : Pointer, dead : BOOLEAN]
  BY Facts DEF Types
<1>4. block' = [block EXCEPT ![p] = [block[p] EXCEPT !.creation = grant[c]]]
  BY <1>1 DEF StampAt
<1>5. /\ \A q \in DOMAIN block : block'[q].vid = block[q].vid /\ block'[q].prev = block[q].prev
      /\ \A q \in DOMAIN block : q # p => block'[q].creation = block[q].creation
      /\ DOMAIN block' = DOMAIN block /\ p \in DOMAIN block
      /\ block'[p].creation = grant[c]
  BY <1>2, <1>3, <1>4
<1>6. pc[c] = "install" /\ \A v \in VertexId : vertex_ptr_cache[c][v] = NULLPOINTER
  BY <1>1 DEF StampAt, Versions
<1>7. visible < grant[c]
  BY <1>6 DEF Types, PlaceInv, PlaceOf, EpochInv
<1>8. /\ block_cache'[c] = block_cache[c] \ {p}
      /\ \A d \in Client \ {c} : block_cache'[d] = block_cache[d]
  BY <1>1 DEF StampAt, Types, TypeOK
<1>9. UNCHANGED <<epochsVars, ids, vertices, freed, begins, compact_table, pc, local_txn_id,
                  read_epoch_id, vertex_ptr_cache, recycled_vertex_cache, acquired_locks,
                  reading, compacting, history>>
  BY <1>1 DEF StampAt, bounds
<1> QED BY <1>1, <1>5, <1>6, <1>7, <1>8, <1>9

LEMMA AbortEffect ==
  ASSUME Types, NEW c \in Client, Abort(c)
  PROVE  /\ pc[c] = "open" /\ pc' = [pc EXCEPT ![c] = "clean"]
         /\ DOMAIN block' = DOMAIN block /\ block_cache[c] \subseteq DOMAIN block
         /\ \A q \in DOMAIN block : block'[q].vid = block[q].vid /\ block'[q].prev = block[q].prev
         /\ \A q \in block_cache[c] : block'[q].creation = ROLLBACK_TOMBSTONE
         /\ \A q \in DOMAIN block : q \notin block_cache[c] => block'[q].creation = block[q].creation
         /\ freed' = freed \cup block_cache[c]
         /\ UNCHANGED <<epochsVars, vertex_id, vertices, begins, compact_table, local_txn_id,
                        read_epoch_id, caches, reading, compacting, history>>
<1>1. block_cache[c] \subseteq DOMAIN block
  BY Facts DEF Types
<1>2. \A q \in DOMAIN block :
        block[q] \in [vid : VertexId, creation : Stamps, prev : Pointer, dead : BOOLEAN]
  BY Facts DEF Types
<1>3. block' = [p \in DOMAIN block |->
       IF p \in block_cache[c] THEN [block[p] EXCEPT !.creation = ROLLBACK_TOMBSTONE]
                               ELSE block[p]]
  BY DEF Abort
<1>4. \A q \in DOMAIN block : q \in block_cache[c] =>
        block'[q] = [block[q] EXCEPT !.creation = ROLLBACK_TOMBSTONE]
  BY <1>3
<1>5. \A q \in DOMAIN block : q \notin block_cache[c] => block'[q] = block[q]
  BY <1>3
<1>6. DOMAIN block' = DOMAIN block
  BY <1>3
<1>7. /\ \A q \in DOMAIN block : block'[q].vid = block[q].vid /\ block'[q].prev = block[q].prev
      /\ \A q \in DOMAIN block : q \in block_cache[c] => block'[q].creation = ROLLBACK_TOMBSTONE
      /\ \A q \in DOMAIN block : q \notin block_cache[c] => block'[q].creation = block[q].creation
  BY <1>2, <1>4, <1>5
<1>8. /\ pc[c] = "open" /\ pc' = [pc EXCEPT ![c] = "clean"] /\ freed' = freed \cup block_cache[c]
      /\ UNCHANGED <<epochsVars, vertex_id, vertices, begins, compact_table, local_txn_id,
                     read_epoch_id, caches, reading, compacting, history>>
  BY DEF Abort, Goto, txn, caches
<1> QED BY <1>1, <1>6, <1>7, <1>8

LEMMA CompactEffect ==
  ASSUME Types, NEW c \in Client, NEW v \in VertexId, CompactVertex(c, v)
  PROVE  /\ pc[c] = "compact" /\ v \in compacting[c].todo /\ vertex_futexes[v] = 0
         /\ DOMAIN block' = DOMAIN block
         /\ \A q \in DOMAIN block :
              /\ block'[q].vid = block[q].vid /\ block'[q].creation = block[q].creation
              /\ block'[q].prev = IF q \in Cuts(v, compacting[c].bound)
                                    THEN NULLPOINTER ELSE block[q].prev
         /\ freed' = freed \cup Garbage(v, compacting[c].bound)
         /\ compacting' \in [Client -> Compaction]
         /\ \A d \in Client \ {c} : compacting'[d] = compacting[d]
         /\ compacting'[c].bound = compacting[c].bound
         /\ compacting'[c].threads = compacting[c].threads
         /\ compacting'[c].todo = compacting[c].todo \ {v}
         /\ compacting'[c].keep =
              compacting[c].keep \cup IF NeedsFuture(v, compacting[c].bound) THEN {v} ELSE {}
         /\ compacting'[c].resume = compacting[c].resume
         /\ UNCHANGED <<epochsVars, ids, vertices, begins, compact_table, pc, txn, reading, history>>
<1>1. \A q \in DOMAIN block :
        block[q] \in [vid : VertexId, creation : Stamps, prev : Pointer, dead : BOOLEAN]
  BY Facts DEF Types
<1>2. PICK cut : cut = Cuts(v, compacting[c].bound)
  OBVIOUS
<1>3. block' = [p \in DOMAIN block |->
                  IF p \in cut THEN [block[p] EXCEPT !.prev = NULLPOINTER] ELSE block[p]]
  BY <1>2 DEF CompactVertex
<1>4. /\ DOMAIN block' = DOMAIN block
      /\ \A q \in DOMAIN block : q \in cut => block'[q] = [block[q] EXCEPT !.prev = NULLPOINTER]
      /\ \A q \in DOMAIN block : q \notin cut => block'[q] = block[q]
  BY <1>3
<1>5. \A q \in DOMAIN block :
        /\ block'[q].vid = block[q].vid /\ block'[q].creation = block[q].creation
        /\ block'[q].prev = IF q \in cut THEN NULLPOINTER ELSE block[q].prev
  <2> SUFFICES ASSUME NEW q \in DOMAIN block
               PROVE  /\ block'[q].vid = block[q].vid /\ block'[q].creation = block[q].creation
                      /\ block'[q].prev = IF q \in cut THEN NULLPOINTER ELSE block[q].prev
    OBVIOUS
  <2>1. CASE q \in cut
    BY <1>1, <1>4, <2>1
  <2>2. CASE q \notin cut
    BY <1>4, <2>2
  <2> QED BY <2>1, <2>2
<1>6. PICK again : again = IF NeedsFuture(v, compacting[c].bound) THEN {v} ELSE {}
  OBVIOUS
<1>7. again \in SUBSET VertexId /\ Done(c, v, again)
  BY <1>6 DEF CompactVertex
<1>8. compacting \in [Client -> Compaction]
  BY DEF Types, TypeOK, Compaction
<1>9. /\ compacting' \in [Client -> Compaction]
      /\ \A d \in Client \ {c} : compacting'[d] = compacting[d]
      /\ compacting'[c].bound = compacting[c].bound
      /\ compacting'[c].threads = compacting[c].threads
      /\ compacting'[c].todo = compacting[c].todo \ {v}
      /\ compacting'[c].keep = compacting[c].keep \cup again
      /\ compacting'[c].resume = compacting[c].resume
  BY <1>7, <1>8, DoneStep
<1>10. /\ pc[c] = "compact" /\ v \in compacting[c].todo /\ vertex_futexes[v] = 0
       /\ freed' = freed \cup Garbage(v, compacting[c].bound)
       /\ UNCHANGED <<epochsVars, ids, vertices, begins, compact_table, pc, txn, reading, history>>
  BY DEF CompactVertex, bounds
<1> QED BY <1>2, <1>4, <1>5, <1>6, <1>9, <1>10

-----------------------------------------------------------------------------
(* A transaction's own versions: the steps preserve OwnInv. *)

LEMMA NewVertexQuiet ==
  ASSUME NEW c, NEW b, NewVertex(c, b)
  PROVE  Quiet
BY DEF NewVertex, Quiet, epochsVars, blocks, history

LEMMA HoldsStep ==
  ASSUME Types, HoldsInv, Next
  PROVE  HoldsInv'
<1> DEFINE H == {"open", "walk", "registered", "install", "clean"}
<1>0. /\ pc \in [Client -> {"idle", "publish", "open", "walk", "registered", "install", "clean",
                            "finish", "spin", "scan", "compact"}]
      /\ DOMAIN block_cache = Client /\ DOMAIN acquired_locks = Client
      /\ DOMAIN vertex_ptr_cache = Client
  BY DEF Types, TypeOK
<1>i. \A d \in Client : HoldsOf(d) /\ PlaceOf(d)
  BY DEF Types, PlaceInv, HoldsInv
<1>f. ASSUME NEW d \in Client, block_cache'[d] = block_cache[d],
             acquired_locks'[d] = acquired_locks[d], vertex_ptr_cache'[d] = vertex_ptr_cache[d],
             d \notin ReadOnly /\ pc[d] \in H => pc'[d] \in H
      PROVE  HoldsOf(d)'
  BY <1>i, <1>f DEF HoldsOf
<1>g. ASSUME NEW d \in Client, d \notin ReadOnly, pc'[d] \in H
      PROVE  HoldsOf(d)'
  BY <1>g DEF HoldsOf
<1> USE DEF epochsVars, ids, vertices, blocks, begins, caches, txn, bounds, history, Goto
<1>1. ASSUME NEW c \in Client, NEW d \in Client, Step(c) PROVE HoldsOf(d)'
  <2>1. CASE BeginLoad(c)
    BY <1>0, <1>f, <2>1 DEF BeginLoad
  <2>2. CASE BeginPublish(c)
    BY <1>0, <1>f, <2>2 DEF BeginPublish, StartCompact
  <2>3. CASE WalkOn(c) \/ PushRecycled(c)
    BY <1>f, <2>3 DEF WalkOn, PushRecycled
  <2>4. CASE Return(c)
    BY <1>0, <1>f, <2>4 DEF Return
  <2>5. CASE Commit(c)
    BY <1>0, <1>f, <2>5 DEF Commit
  <2>6. CASE Abort(c)
    BY <1>0, <1>f, <2>6 DEF Abort
  <2>7. CASE Stamp(c)
    <3>1. CASE d = c
      <4>1. pc'[c] = "install" /\ c \notin ReadOnly
        BY <1>i, <2>7 DEF Stamp, StampAt, PlaceOf
      <4> QED BY <1>g, <3>1, <4>1
    <3>2. CASE d # c
      BY <1>0, <1>f, <2>7, <3>2 DEF Stamp, StampAt
    <3> QED BY <3>1, <3>2
  <2>8. CASE Stamped(c)
    BY <1>0, <1>f, <2>8 DEF Stamped
  <2>9. CASE Leave(c)
    <3>1. CASE d = c
      <4>1. /\ block_cache'[c] = {} /\ acquired_locks'[c] = {}
            /\ \A v \in VertexId : vertex_ptr_cache'[c][v] = NULLPOINTER
        BY <1>0, <2>9 DEF Leave
      <4> QED BY <3>1, <4>1 DEF HoldsOf
    <3>2. CASE d # c
      BY <1>0, <1>f, <2>9, <3>2 DEF Leave
    <3> QED BY <3>1, <3>2
  <2>10. CASE Spin(c)
    BY <1>0, <1>f, <2>10 DEF Spin
  <2>11. CASE Compact(c)
    BY <1>0, <1>f, <2>11 DEF Compact, StartCompact
  <2>12. CASE Scanned(c)
    BY <1>0, <1>f, <2>12 DEF Scanned
  <2>13. CASE Compacted(c)
    BY <1>0, <1>f, <2>13 DEF Compacted
  <2> QED BY <1>1, <2>1, <2>2, <2>3, <2>4, <2>5, <2>6, <2>7, <2>8, <2>9, <2>10, <2>11, <2>12, <2>13
          DEF Step
<1>2. ASSUME NEW c \in Client, NEW v \in VertexId, NEW d \in Client, StepAt(c, v) PROVE HoldsOf(d)'
  <2>1. CASE GetVertex(c, v)
    BY <1>0, <1>f, <2>1 DEF GetVertex
  <2>2. CASE PutVertex(c, v)
    <3>1. CASE d = c
      <4>1. pc'[c] = "open" /\ c \notin ReadOnly
        BY <2>2 DEF PutVertex, Operate
      <4> QED BY <1>g, <3>1, <4>1
    <3>2. CASE d # c
      BY <1>0, <1>f, <2>2, <3>2 DEF PutVertex, LockVertex, AddVersion, NoVersion
    <3> QED BY <3>1, <3>2
  <2>3. CASE Install(c, v)
    <3>1. CASE d = c
      <4>1. pc'[c] = "install" /\ c \notin ReadOnly
        BY <1>i, <2>3 DEF Install, PlaceOf
      <4> QED BY <1>g, <3>1, <4>1
    <3>2. CASE d # c
      BY <1>0, <1>f, <2>3, <3>2 DEF Install
    <3> QED BY <3>1, <3>2
  <2>4. CASE Unlock(c, v)
    <3>1. CASE d = c
      <4>1. pc'[c] = "clean" /\ c \notin ReadOnly
        BY <1>i, <2>4 DEF Unlock, HoldsOf
      <4> QED BY <1>g, <3>1, <4>1
    <3>2. CASE d # c
      BY <1>0, <1>f, <2>4, <3>2 DEF Unlock
    <3> QED BY <3>1, <3>2
  <2>5. CASE CompactVertex(c, v) \/ CompactSkip(c, v)
    BY <1>0, <1>f, <2>5 DEF CompactVertex, CompactSkip
  <2> QED BY <1>2, <2>1, <2>2, <2>3, <2>4, <2>5 DEF StepAt
<1>3. ASSUME NEW c \in Client, NEW v \in VertexId, NEW b, NEW d \in Client, DelVertex(c, v, b)
      PROVE  HoldsOf(d)'
  <2>1. CASE d = c
    <3>1. pc'[c] = "open" /\ c \notin ReadOnly
      BY <1>3 DEF DelVertex, Operate
    <3> QED BY <1>g, <2>1, <3>1
  <2>2. CASE d # c
    <3>1. /\ acquired_locks' = [acquired_locks EXCEPT ![c] = acquired_locks[c] \cup {v}]
          /\ NoVersion \/ AddVersion(c, v, TRUE)
          /\ UNCHANGED pc
      BY <1>3 DEF DelVertex, LockVertex
    <3> QED BY <1>0, <1>f, <2>2, <3>1 DEF AddVersion, NoVersion
  <2> QED BY <2>1, <2>2
<1>4. ASSUME NEW c \in Client, NEW b, NEW d \in Client, NewVertex(c, b) PROVE HoldsOf(d)'
  BY <1>f, <1>4 DEF NewVertex
<1>5. ASSUME NEW c \in Client, NEW b \in BOOLEAN, NEW d \in Client, FinishCommit(c, b)
      PROVE  HoldsOf(d)'
  <2>1. pc[c] = "finish" /\ \A e \in Client \ {c} : pc'[e] = pc[e]
    <3>1. CASE b
      BY <1>0, <1>5, <3>1 DEF FinishCommit
    <3>2. CASE ~b
      BY <1>0, <1>5, <3>2 DEF FinishCommit
    <3> QED BY <3>1, <3>2
  <2>2. UNCHANGED <<block_cache, acquired_locks, vertex_ptr_cache>>
    BY <1>5 DEF FinishCommit
  <2> QED BY <1>f, <2>1, <2>2
<1>6. ASSUME NEW c \in Client, NEW t, NEW d \in Client, ScanThread(c, t) PROVE HoldsOf(d)'
  BY <1>f, <1>6 DEF ScanThread, ScanWith
<1>7. ASSUME NEW G \in SUBSET Client, RegisterGroup(G), NEW d \in Client PROVE HoldsOf(d)'
  BY <1>f, <1>7 DEF RegisterGroup
<1>8. ASSUME Publish, NEW d \in Client PROVE HoldsOf(d)'
  BY <1>f, <1>8 DEF Publish
<1> HIDE DEF epochsVars, ids, vertices, blocks, begins, caches, txn, bounds, history, Goto
<1>9. ASSUME NEW d \in Client PROVE HoldsOf(d)'
  BY <1>1, <1>2, <1>3, <1>4, <1>5, <1>6, <1>7, <1>8, Steps, Zenon
<1> QED BY <1>9 DEF HoldsInv

LEMMA CacheStep ==
  ASSUME Types, HoldsInv, CacheInv, ApartInv, [Next]_vars
  PROVE  CacheInv'
<1>0. /\ DOMAIN pc = Client /\ DOMAIN vertex_ptr_cache = Client
      /\ \A c \in Client : DOMAIN vertex_ptr_cache[c] = VertexId
      /\ DOMAIN block_cache = Client
  BY DEF Types, TypeOK
<1>i. \A d \in Client : CacheOf(d)
  BY DEF CacheInv
<1>b. \A d \in Client : block_cache[d] \subseteq DOMAIN block
  BY Facts DEF Types
<1>v. \A p \in DOMAIN block : block[p].vid \in VertexId
  BY Facts DEF Types
<1>f. ASSUME NEW d \in Client, block_cache'[d] = block_cache[d],
             vertex_ptr_cache'[d] = vertex_ptr_cache[d],
             local_txn_id'[d] = local_txn_id[d] \/ block_cache[d] = {},
             (pc'[d] = "clean" <=> pc[d] = "clean"),
             pc[d] = "install" => pc'[d] = "install",
             \A p \in block_cache[d] : block'[p].vid = block[p].vid,
             \A p \in Unstamped(d) : block'[p].creation = block[p].creation
      PROVE  CacheOf(d)'
  <2>1. Unstamped(d)' = Unstamped(d) /\ Unstamped(d) \subseteq block_cache[d]
    BY <1>f DEF Unstamped
  <2>2. \A p \in Unstamped(d) :
          /\ block'[p].creation = -local_txn_id'[d]
          /\ pc'[d] # "install" => vertex_ptr_cache'[d][block'[p].vid] # NULLPOINTER
    BY <1>i, <1>f, <2>1 DEF CacheOf
  <2>3. ASSUME NEW v \in VertexId, vertex_ptr_cache[d][v] # NULLPOINTER, pc[d] # "clean"
        PROVE  /\ vertex_ptr_cache[d][v] \in block_cache[d]
               /\ block'[vertex_ptr_cache[d][v]].vid = v
               /\ \A p \in block_cache[d] : block'[p].vid = v => p <= vertex_ptr_cache[d][v]
    BY <1>i, <1>f, <2>3 DEF CacheOf
  <2> QED BY <1>f, <2>1, <2>2, <2>3 DEF CacheOf
<1>1. ASSUME Quiet, NEW d \in Client PROVE CacheOf(d)'
  BY <1>f, <1>1 DEF Quiet
<1>2. ASSUME NEW c \in Client, NEW v \in VertexId, Write(c, v), NEW d \in Client PROVE CacheOf(d)'
  <2>0. UNCHANGED <<pc, local_txn_id, transaction_id, epochsVars>> /\ pc[c] = "open" /\ c \notin ReadOnly
    BY <1>2 DEF Write, begins
  <2>1. CASE NoVersion
    BY <1>f, <2>0, <2>1 DEF NoVersion
  <2>2. ASSUME NEW dead \in BOOLEAN, AddVersion(c, v, dead) PROVE CacheOf(d)'
    <3>0. PICK n \in Nat : Adds(c, v, n)
      BY <2>0, <2>2, Added, Zenon
    <3>1. /\ n \notin DOMAIN block /\ n # NULLPOINTER
          /\ \A p \in DOMAIN block : p \in Nat /\ p < n
          /\ \A p \in DOMAIN block : block'[p] = block[p]
          /\ block'[n].vid = v /\ block'[n].creation = -local_txn_id[c]
          /\ block_cache'[c] = block_cache[c] \cup {n}
          /\ \A e \in Client \ {c} : /\ block_cache'[e] = block_cache[e]
                                      /\ vertex_ptr_cache'[e] = vertex_ptr_cache[e]
          /\ vertex_ptr_cache'[c][v] = n
          /\ \A u \in VertexId \ {v} : vertex_ptr_cache'[c][u] = vertex_ptr_cache[c][u]
      BY <3>0 DEF Adds
    <3>2. CASE d # c
      <4>1. \A p \in block_cache[d] : block'[p] = block[p]
        BY <1>b, <3>1
      <4>2. Unstamped(d) \subseteq block_cache[d]
        BY DEF Unstamped
      <4> QED BY <1>f, <2>0, <3>1, <3>2, <4>1, <4>2
    <3>3. CASE d = c
      <4>1. /\ Unstamped(c)' = block_cache[c] \cup {n} /\ Unstamped(c) = block_cache[c]
        BY <2>0, <3>1 DEF Unstamped
      <4>2. ASSUME NEW p \in block_cache[c] \cup {n}
            PROVE  /\ block'[p].creation = -local_txn_id[c]
                   /\ vertex_ptr_cache'[c][block'[p].vid] # NULLPOINTER
        <5>1. CASE p = n
          BY <3>1, <5>1
        <5>2. CASE p \in block_cache[c]
          <6>1. /\ block'[p] = block[p] /\ block[p].vid \in VertexId
                /\ block[p].creation = -local_txn_id[c]
                /\ vertex_ptr_cache[c][block[p].vid] # NULLPOINTER
            BY <1>b, <1>i, <1>v, <2>0, <3>1, <4>1, <5>2 DEF CacheOf
          <6> QED BY <3>1, <6>1
        <5> QED BY <5>1, <5>2
      <4>3. ASSUME NEW u \in VertexId, vertex_ptr_cache'[c][u] # NULLPOINTER
            PROVE  /\ vertex_ptr_cache'[c][u] \in block_cache[c] \cup {n}
                   /\ block'[vertex_ptr_cache'[c][u]].vid = u
                   /\ \A p \in block_cache[c] \cup {n} : block'[p].vid = u => p <= vertex_ptr_cache'[c][u]
        <5>1. CASE u = v
          BY <1>b, <3>1, <5>1
        <5>2. CASE u # v
          <6>1. /\ vertex_ptr_cache'[c][u] = vertex_ptr_cache[c][u]
                /\ vertex_ptr_cache[c][u] \in block_cache[c] /\ block[vertex_ptr_cache[c][u]].vid = u
                /\ \A p \in block_cache[c] : block[p].vid = u => p <= vertex_ptr_cache[c][u]
            BY <1>i, <2>0, <3>1, <4>3, <5>2 DEF CacheOf
          <6>2. \A p \in block_cache[c] : block'[p] = block[p]
            BY <1>b, <3>1
          <6> QED BY <3>1, <5>2, <6>1, <6>2
        <5> QED BY <5>1, <5>2
      <4> QED BY <2>0, <3>1, <3>3, <4>1, <4>2, <4>3 DEF CacheOf
    <3> QED BY <3>2, <3>3
  <2> QED BY <1>2, <2>1, <2>2 DEF Write
<1>3. ASSUME NEW G \in SUBSET Client, RegisterGroup(G), NEW d \in Client PROVE CacheOf(d)'
  <2>1. /\ UNCHANGED <<block, block_cache, vertex_ptr_cache, local_txn_id>>
        /\ pc'[d] = IF d \in G THEN "install" ELSE pc[d]
        /\ d \in G => pc[d] = "registered"
    BY <1>3 DEF RegisterGroup, Grant, Queued, Types, PlaceInv, PlaceOf, blocks, txn, caches
  <2> QED BY <1>f, <2>1
<1>4. ASSUME NEW c \in Client, NEW v \in VertexId, Install(c, v), NEW d \in Client PROVE CacheOf(d)'
  <2>1. /\ UNCHANGED <<block, block_cache, pc, local_txn_id>> /\ pc[c] = "install"
        /\ \A e \in Client \ {c} : vertex_ptr_cache'[e] = vertex_ptr_cache[e]
        /\ \A u \in VertexId \ {v} : vertex_ptr_cache'[c][u] = vertex_ptr_cache[c][u]
        /\ vertex_ptr_cache'[c][v] = NULLPOINTER
    BY <1>0, <1>4 DEF Install, blocks
  <2>2. CASE d # c
    BY <1>f, <2>1, <2>2
  <2>3. CASE d = c
    <3>1. Unstamped(c)' = Unstamped(c)
      BY <2>1 DEF Unstamped
    <3> QED BY <1>i, <2>1, <2>3, <3>1 DEF CacheOf
  <2> QED BY <2>2, <2>3
<1>5. ASSUME NEW c \in Client, NEW v \in VertexId, Unlock(c, v), NEW d \in Client PROVE CacheOf(d)'
  BY <1>f, <1>5 DEF Unlock, blocks
<1>6. ASSUME NEW c \in Client, NEW v \in VertexId, CompactVertex(c, v), NEW d \in Client
      PROVE  CacheOf(d)'
  <2>1. /\ \A p \in DOMAIN block : block'[p].vid = block[p].vid /\ block'[p].creation = block[p].creation
        /\ UNCHANGED <<pc, txn>>
    BY <1>6, CompactEffect, Zenon
  <2>2. \A p \in Unstamped(d) : p \in DOMAIN block
    BY <1>b DEF Unstamped
  <2> QED BY <1>b, <1>f, <2>1, <2>2 DEF txn, caches
<1>7. ASSUME NEW c \in Client, Stamp(c), NEW d \in Client PROVE CacheOf(d)'
  <2>1. PICK p \in block_cache[c] :
           /\ pc[c] = "install" /\ \A v \in VertexId : vertex_ptr_cache[c][v] = NULLPOINTER
           /\ \A q \in DOMAIN block : block'[q].vid = block[q].vid
           /\ \A q \in DOMAIN block : q # p => block'[q].creation = block[q].creation
           /\ block_cache'[c] = block_cache[c] \ {p}
           /\ \A e \in Client \ {c} : block_cache'[e] = block_cache[e]
           /\ UNCHANGED <<pc, local_txn_id, vertex_ptr_cache>>
    BY <1>7, StampEffect
  <2>2. CASE d = c
    <3>1. Unstamped(c)' = block_cache[c] \ {p} /\ Unstamped(c) = block_cache[c]
      BY <2>1 DEF Unstamped
    <3>2. \A q \in block_cache[c] \ {p} : block'[q].creation = -local_txn_id[c]
      BY <1>b, <1>i, <2>1, <3>1 DEF CacheOf
    <3> QED BY <2>1, <2>2, <3>1, <3>2 DEF CacheOf
  <2>3. CASE d # c
    <3>1. p \notin Unstamped(d)
      <4>1. p \in Unstamped(c)
        BY <2>1 DEF Unstamped
      <4> QED BY <2>3, <4>1 DEF ApartInv
    <3>2. Unstamped(d) \subseteq DOMAIN block
      BY <1>b DEF Unstamped
    <3>3. \A q \in Unstamped(d) : block'[q].creation = block[q].creation
      BY <2>1, <3>1, <3>2
    <3>4. \A q \in block_cache[d] : block'[q].vid = block[q].vid
      BY <1>b, <2>1
    <3> QED BY <1>f, <2>1, <2>3, <3>3, <3>4
  <2> QED BY <2>2, <2>3
<1>8. ASSUME NEW c \in Client, Stamped(c), NEW d \in Client PROVE CacheOf(d)'
  <2>1. /\ UNCHANGED <<block, block_cache, vertex_ptr_cache, local_txn_id>>
        /\ pc'[d] = IF d = c THEN "clean" ELSE pc[d]
    BY <1>0, <1>8 DEF Stamped, Goto, blocks, txn, caches
  <2>2. CASE d = c
    <3>1. Unstamped(c)' = {} /\ pc'[c] = "clean"
      BY <2>1, <2>2 DEF Unstamped
    <3> QED BY <2>2, <3>1 DEF CacheOf
  <2>3. CASE d # c
    BY <1>f, <2>1, <2>3
  <2> QED BY <2>2, <2>3
<1>9. ASSUME NEW c \in Client, Abort(c), NEW d \in Client PROVE CacheOf(d)'
  <2>1. /\ pc[c] = "open" /\ pc' = [pc EXCEPT ![c] = "clean"]
        /\ \A q \in DOMAIN block : block'[q].vid = block[q].vid
        /\ \A q \in DOMAIN block : q \notin block_cache[c] => block'[q].creation = block[q].creation
        /\ UNCHANGED <<local_txn_id, caches>>
    BY <1>9, AbortEffect
  <2>2. CASE d = c
    <3>1. Unstamped(c)' = {} /\ pc'[c] = "clean"
      BY <1>0, <2>1 DEF Unstamped
    <3> QED BY <2>2, <3>1 DEF CacheOf
  <2>3. CASE d # c
    <3>1. block_cache[c] = Unstamped(c) /\ Unstamped(d) \cap Unstamped(c) = {}
      BY <2>1, <2>3 DEF Unstamped, ApartInv
    <3>2. Unstamped(d) \subseteq DOMAIN block
      BY <1>b DEF Unstamped
    <3>3. \A q \in Unstamped(d) : block'[q].creation = block[q].creation
      BY <2>1, <3>1, <3>2
    <3>4. \A q \in block_cache[d] : block'[q].vid = block[q].vid
      BY <1>b, <2>1
    <3> QED BY <1>0, <1>f, <2>1, <2>3, <3>3, <3>4 DEF caches
  <2> QED BY <2>2, <2>3
<1>10. ASSUME NEW c \in Client, Leave(c), NEW d \in Client PROVE CacheOf(d)'
  <2>1. CASE d = c
    <3>1. block_cache'[c] = {} /\ \A v \in VertexId : vertex_ptr_cache'[c][v] = NULLPOINTER
      BY <1>0, <1>10 DEF Leave
    <3>2. Unstamped(c)' = {}
      BY <3>1 DEF Unstamped
    <3> QED BY <2>1, <3>1, <3>2 DEF CacheOf
  <2>2. CASE d # c
    <3>1. /\ UNCHANGED <<block, local_txn_id>> /\ pc'[d] = pc[d]
          /\ block_cache'[d] = block_cache[d] /\ vertex_ptr_cache'[d] = vertex_ptr_cache[d]
      BY <1>0, <1>10, <2>2 DEF Leave, Goto, blocks
    <3> QED BY <1>f, <3>1
  <2> QED BY <2>1, <2>2
<1>11. ASSUME NEW c \in Client, NEW b \in Reuse, NewVertex(c, b) PROVE Quiet
  BY <1>11, NewVertexQuiet
<1>12. ASSUME NEW d \in Client PROVE CacheOf(d)'
  BY <1>1, <1>2, <1>3, <1>4, <1>5, <1>6, <1>7, <1>8, <1>9, <1>10, <1>11, Kinds, Zenon DEF Calm
<1> QED BY <1>12 DEF CacheInv

\* What is a client's own, and only its own steps change, but for the grant of its group.
Elsewhere(d) ==
  /\ stage'[d] = stage[d] /\ grant'[d] = grant[d] /\ pc'[d] = pc[d]
  /\ local_txn_id'[d] = local_txn_id[d] /\ read_epoch_id'[d] = read_epoch_id[d]
  /\ vertex_ptr_cache'[d] = vertex_ptr_cache[d] /\ block_cache'[d] = block_cache[d]
  /\ recycled_vertex_cache'[d] = recycled_vertex_cache[d]
  /\ acquired_locks'[d] = acquired_locks[d]
  /\ reading'[d] = reading[d] /\ compacting'[d] = compacting[d]
  /\ commit_epoch_id'[d] = commit_epoch_id[d]

LEMMA OthersStep ==
  ASSUME Types, NEW c \in Client, NEW d \in Client, c # d, NEW v, NEW t, NEW b,
         \/ Step(c) \/ StepAt(c, v) \/ (v \in VertexId /\ DelVertex(c, v, b)) \/ NewVertex(c, b)
         \/ (b \in BOOLEAN /\ FinishCommit(c, b)) \/ (t \in Thread /\ ScanThread(c, t))
  PROVE  Elsewhere(d)
<1>0. /\ DOMAIN stage = Client /\ DOMAIN grant = Client /\ DOMAIN pc = Client
      /\ DOMAIN local_txn_id = Client /\ DOMAIN read_epoch_id = Client
      /\ DOMAIN vertex_ptr_cache = Client /\ DOMAIN block_cache = Client
      /\ DOMAIN recycled_vertex_cache = Client /\ DOMAIN acquired_locks = Client
      /\ DOMAIN reading = Client /\ DOMAIN compacting = Client /\ DOMAIN commit_epoch_id = Client
      /\ compacting \in [Client -> Compaction]
  BY DEF Types, TypeOK, EpochInv, Compaction
<1> USE DEF epochsVars, ids, vertices, blocks, begins, caches, txn, bounds, history, Goto
<1>1. CASE BeginLoad(c)
  BY <1>0, <1>1 DEF BeginLoad, Elsewhere
<1>2. CASE BeginPublish(c)
  BY <1>0, <1>2 DEF BeginPublish, StartCompact, Elsewhere
<1>3. CASE WalkOn(c) \/ Return(c)
  BY <1>0, <1>3 DEF WalkOn, Return, Elsewhere
<1>4. CASE Commit(c)
  BY <1>0, <1>4 DEF Commit, Ask, Elsewhere
<1>5. CASE Abort(c)
  BY <1>0, <1>5 DEF Abort, Elsewhere
<1>6. CASE PushRecycled(c)
  BY <1>0, <1>6 DEF PushRecycled, Elsewhere
<1>7. CASE Stamp(c) \/ Stamped(c)
  BY <1>0, <1>7 DEF Stamp, StampAt, Stamped, Elsewhere
<1>8. CASE Leave(c)
  BY <1>0, <1>8 DEF Leave, Elsewhere
<1>9. CASE Spin(c)
  BY <1>0, <1>9 DEF Spin, Elsewhere
<1>10. CASE Compact(c)
  BY <1>0, <1>10 DEF Compact, StartCompact, Elsewhere
<1>11. CASE Scanned(c)
  BY <1>0, <1>11 DEF Scanned, Elsewhere
<1>12. CASE Compacted(c)
  BY <1>0, <1>12 DEF Compacted, Elsewhere
<1>13. CASE GetVertex(c, v)
  BY <1>0, <1>13 DEF GetVertex, Elsewhere
<1>14. CASE PutVertex(c, v)
  BY <1>0, <1>14 DEF PutVertex, LockVertex, AddVersion, NoVersion, Elsewhere
<1>15. CASE Install(c, v) \/ Unlock(c, v)
  BY <1>0, <1>15 DEF Install, Unlock, Elsewhere
<1>16. ASSUME NEW again, Done(c, v, again),
              UNCHANGED <<epochsVars, pc, txn, reading, history>>
       PROVE  Elsewhere(d)
  BY <1>0, <1>16 DEF Done, Elsewhere
<1>17. CASE CompactVertex(c, v)
  BY <1>16, <1>17 DEF CompactVertex
<1>18. CASE CompactSkip(c, v)
  BY <1>16, <1>18 DEF CompactSkip
<1>19. CASE v \in VertexId /\ DelVertex(c, v, b)
  <2>1. /\ acquired_locks' = [acquired_locks EXCEPT ![c] = acquired_locks[c] \cup {v}]
        /\ NoVersion \/ AddVersion(c, v, TRUE)
        /\ \/ recycled_vertex_cache' =
                [recycled_vertex_cache EXCEPT ![c] = Append(recycled_vertex_cache[c], v)]
           \/ recycled_vertex_cache' = recycled_vertex_cache
        /\ UNCHANGED <<epochsVars, pc, local_txn_id, read_epoch_id, reading, compacting, history>>
    BY <1>19 DEF DelVertex, LockVertex
  <2> QED BY <1>0, <2>1 DEF AddVersion, NoVersion, Elsewhere
<1>20. CASE NewVertex(c, b)
  <2>1. /\ \/ recycled_vertex_cache' =
                [recycled_vertex_cache EXCEPT ![c] = Tail(recycled_vertex_cache[c])]
           \/ recycled_vertex_cache' = recycled_vertex_cache
        /\ UNCHANGED <<epochsVars, pc, local_txn_id, read_epoch_id, reading, compacting, history,
                       vertex_ptr_cache, block_cache, acquired_locks>>
    BY <1>20 DEF NewVertex
  <2> QED BY <1>0, <2>1 DEF Elsewhere
<1>21. CASE b \in BOOLEAN /\ FinishCommit(c, b)
  <2>1. pc'[d] = pc[d] /\ commit_epoch_id'[d] = commit_epoch_id[d]
    <3>1. CASE b
      BY <1>0, <1>21, <3>1 DEF FinishCommit
    <3>2. CASE ~b
      BY <1>0, <1>21, <3>2 DEF FinishCommit
    <3> QED BY <3>1, <3>2
  <2> QED BY <1>0, <1>21, <2>1 DEF FinishCommit, Finish, Elsewhere
<1>22. CASE t \in Thread /\ ScanThread(c, t)
  <2>1. /\ UNCHANGED <<epochsVars, pc, txn, reading, history>>
        /\ \E bound : compacting' = [compacting EXCEPT ![c].threads = compacting[c].threads \ {t},
                                                       ![c].bound = bound]
    BY <1>22, Zenon DEF ScanThread, ScanWith
  <2>2. PICK bound : compacting' = [compacting EXCEPT ![c].threads = compacting[c].threads \ {t},
                                                      ![c].bound = bound]
    BY <2>1
  <2>3. compacting'[d] = compacting[d]
    BY <1>0, <2>2
  <2> QED BY <2>1, <2>3 DEF Elsewhere
<1> HIDE DEF epochsVars, ids, vertices, blocks, begins, caches, txn, bounds, history, Goto
<1> QED BY <1>1, <1>2, <1>3, <1>4, <1>5, <1>6, <1>7, <1>8, <1>9, <1>10, <1>11, <1>12, <1>13, <1>14,
          <1>15, <1>17, <1>18, <1>19, <1>20, <1>21, <1>22, Zenon DEF Step, StepAt

\* A step of c, whatever it is, or of the commit manager.
By(c) ==
  \/ Step(c)
  \/ \E v \in VertexId : StepAt(c, v)
  \/ \E v \in VertexId, b \in Recycle : DelVertex(c, v, b)
  \/ \E b \in Reuse : NewVertex(c, b)
  \/ \E b \in BOOLEAN : FinishCommit(c, b)
  \/ \E t \in Thread : ScanThread(c, t)

LEMMA Actors ==
  ASSUME Types, [Next]_vars, NEW d \in Client
  PROVE  By(d) \/ Elsewhere(d) \/ \E G \in SUBSET Client : d \in G /\ RegisterGroup(G)
<1>1. ASSUME NEW c \in Client, By(c), c # d PROVE Elsewhere(d)
  BY <1>1, OthersStep, Zenon DEF By
<1>2. ASSUME NEW G \in SUBSET Client, RegisterGroup(G), d \notin G PROVE Elsewhere(d)
  BY <1>2 DEF RegisterGroup, Grant, Elsewhere, blocks, txn, caches, bounds, history
<1>3. ASSUME Publish PROVE Elsewhere(d)
  BY <1>3 DEF Publish, MakeVisible, Elsewhere, blocks, txn, caches, bounds, history
<1>4. ASSUME UNCHANGED vars PROVE Elsewhere(d)
  BY <1>4 DEF vars, epochsVars, Elsewhere, txn, caches, history
<1>5. ASSUME Next
      PROVE  (\E c \in Client : By(c)) \/ (\E G \in SUBSET Client : RegisterGroup(G)) \/ Publish
  BY <1>5, Steps, Zenon DEF By
<1> QED BY <1>1, <1>2, <1>3, <1>4, <1>5, Zenon

\* What a scan of one place does.
LEMMA BoundStep ==
  ASSUME Types, NEW c \in Client, NEW t \in Thread, ScanThread(c, t)
  PROVE  /\ \A d \in Client \ {c} : compacting'[d] = compacting[d]
         /\ compacting'[c].threads = compacting[c].threads \ {t}
         /\ compacting'[c].todo = compacting[c].todo
         /\ compacting'[c].keep = compacting[c].keep
         /\ compacting'[c].resume = compacting[c].resume
         /\ compacting'[c].bound =
              IF read_epoch_table[t] # NO_TRANSACTION /\ read_epoch_table[t] < compacting[c].bound
                THEN read_epoch_table[t] ELSE compacting[c].bound
<1> DEFINE lower == read_epoch_table[t] # NO_TRANSACTION /\ read_epoch_table[t] < compacting[c].bound
<1>0. /\ compacting \in [Client -> Compaction] /\ visible \in Nat
      /\ read_epoch_table \in [Thread -> {NO_TRANSACTION} \cup 0 .. visible]
  BY Facts DEF Types, TypeOK, Compaction
<1>1. compacting[c].bound \in Nat
  BY <1>0 DEF Compaction
<1>2. PICK bound \in Nat : /\ ScanWith(c, t, bound)
                           /\ bound = IF lower THEN read_epoch_table[t] ELSE compacting[c].bound
  <2>1. CASE lower
    <3>1. read_epoch_table[t] \in Nat
      BY <1>0, <2>1
    <3> QED BY <2>1, <3>1 DEF ScanThread
  <2>2. CASE ~lower
    BY <1>1, <2>2 DEF ScanThread
  <2> QED BY <2>1, <2>2
<1>3. /\ \A d \in Client \ {c} : compacting'[d] = compacting[d]
      /\ compacting'[c].bound = bound
      /\ compacting'[c].threads = compacting[c].threads \ {t}
      /\ compacting'[c].todo = compacting[c].todo
      /\ compacting'[c].keep = compacting[c].keep
      /\ compacting'[c].resume = compacting[c].resume
  <2>1. ScanWith(c, t, bound)
    BY <1>2
  <2> QED BY <1>0, <2>1, ScanStep
<1> QED BY <1>2, <1>3

\* Ids are drawn from the counter.
LEMMA IdsStep ==
  ASSUME Types, [Next]_vars
  PROVE  \/ UNCHANGED <<transaction_id, local_txn_id>>
         \/ /\ transaction_id' = transaction_id + 1
            /\ \E c \in Client \ ReadOnly : /\ pc[c] = "idle"
                 /\ local_txn_id' = [local_txn_id EXCEPT ![c] = transaction_id + 1]
<1> USE DEF epochsVars, ids, vertices, blocks, begins, caches, txn, bounds, history, Goto
<1>1. ASSUME NEW c \in Client, Step(c)
      PROVE  UNCHANGED <<transaction_id, local_txn_id>> \/ BeginLoad(c)
  BY <1>1 DEF Step, BeginPublish, WalkOn, Return, Commit, Abort, PushRecycled, Stamp, StampAt,
              Stamped, Leave, Spin, Compact, Scanned, Compacted
<1>2. ASSUME NEW c \in Client, BeginLoad(c)
      PROVE  \/ UNCHANGED <<transaction_id, local_txn_id>>
             \/ /\ transaction_id' = transaction_id + 1
                /\ c \notin ReadOnly /\ pc[c] = "idle"
                /\ local_txn_id' = [local_txn_id EXCEPT ![c] = transaction_id + 1]
  BY <1>2 DEF BeginLoad
<1>3. ASSUME NEW c \in Client, NEW v \in VertexId, StepAt(c, v)
      PROVE  UNCHANGED <<transaction_id, local_txn_id>>
  BY <1>3 DEF StepAt, GetVertex, PutVertex, Install, Unlock, CompactVertex, CompactSkip
<1>4. ASSUME NEW c, NEW v, NEW b, NEW t,
             \/ DelVertex(c, v, b) \/ NewVertex(c, b) \/ FinishCommit(c, b) \/ ScanThread(c, t)
             \/ RegisterGroup(b) \/ Publish
      PROVE  UNCHANGED <<transaction_id, local_txn_id>>
  BY <1>4 DEF DelVertex, NewVertex, FinishCommit, ScanThread, ScanWith, RegisterGroup, Publish
<1>5. ASSUME UNCHANGED vars PROVE UNCHANGED <<transaction_id, local_txn_id>>
  BY <1>5 DEF vars
<1> HIDE DEF epochsVars, ids, vertices, blocks, begins, caches, txn, bounds, history, Goto
<1> QED BY <1>1, <1>2, <1>3, <1>4, <1>5, Steps, Zenon

\* A client's uncommitted versions: a write adds a new one, nothing else adds any.
LEMMA UnstampedStep ==
  ASSUME Types, HoldsInv, [Next]_vars, NEW d \in Client
  PROVE  \/ Unstamped(d)' \subseteq Unstamped(d)
         \/ \E v \in VertexId : \E n \in Nat :
              Write(d, v) /\ Adds(d, v, n) /\ Unstamped(d)' = Unstamped(d) \cup {n}
<1>0. /\ DOMAIN pc = Client /\ DOMAIN block_cache = Client
  BY DEF Types, TypeOK
<1>f. ASSUME block_cache'[d] \subseteq block_cache[d], pc'[d] # "clean" => pc[d] # "clean" \/ block_cache'[d] = {}
      PROVE  Unstamped(d)' \subseteq Unstamped(d)
  BY <1>f DEF Unstamped
<1>1. ASSUME Quiet PROVE Unstamped(d)' \subseteq Unstamped(d)
  BY <1>f, <1>1 DEF Quiet
<1>2. ASSUME NEW c \in Client, NEW v \in VertexId, Write(c, v)
      PROVE  \/ Unstamped(d)' \subseteq Unstamped(d)
             \/ \E n \in Nat : c = d /\ Adds(d, v, n) /\ Unstamped(d)' = Unstamped(d) \cup {n}
  <2>0. UNCHANGED <<pc, transaction_id, epochsVars>> /\ pc[c] = "open" /\ c \notin ReadOnly
    BY <1>2 DEF Write, begins
  <2>1. CASE NoVersion
    BY <1>f, <2>0, <2>1 DEF NoVersion
  <2>2. ASSUME NEW dead \in BOOLEAN, AddVersion(c, v, dead)
        PROVE  \/ Unstamped(d)' \subseteq Unstamped(d)
               \/ \E n \in Nat : c = d /\ Adds(d, v, n) /\ Unstamped(d)' = Unstamped(d) \cup {n}
    <3>0. PICK n \in Nat : Adds(c, v, n)
      BY <2>0, <2>2, Added, Zenon
    <3>1. /\ block_cache'[c] = block_cache[c] \cup {n}
          /\ \A e \in Client \ {c} : block_cache'[e] = block_cache[e]
      BY <3>0 DEF Adds
    <3>2. CASE d # c
      BY <1>f, <2>0, <3>1, <3>2
    <3>3. CASE d = c
      <4>1. Unstamped(d)' = Unstamped(d) \cup {n}
        BY <2>0, <3>1, <3>3 DEF Unstamped
      <4> QED BY <3>0, <3>3, <4>1
    <3> QED BY <3>2, <3>3
  <2> QED BY <1>2, <2>1, <2>2 DEF Write
<1>3. ASSUME NEW G \in SUBSET Client, RegisterGroup(G) PROVE Unstamped(d)' \subseteq Unstamped(d)
  <2>1. /\ UNCHANGED block_cache
        /\ pc'[d] = IF d \in G THEN "install" ELSE pc[d]
        /\ d \in G => pc[d] = "registered"
    BY <1>3 DEF RegisterGroup, Grant, Queued, Types, PlaceInv, PlaceOf, txn, caches
  <2> QED BY <1>f, <2>1
<1>4. ASSUME NEW c \in Client, NEW v \in VertexId, Install(c, v) \/ Unlock(c, v) \/ CompactVertex(c, v)
      PROVE  Unstamped(d)' \subseteq Unstamped(d)
  <2>1. UNCHANGED <<block_cache, pc>>
    BY <1>4 DEF Install, Unlock, CompactVertex, txn, caches
  <2> QED BY <1>f, <2>1
<1>5. ASSUME NEW c \in Client, Stamp(c) \/ Stamped(c) \/ Abort(c) PROVE Unstamped(d)' \subseteq Unstamped(d)
  <2>1. CASE Stamp(c)
    <3>1. UNCHANGED pc /\ \E p : block_cache' = [block_cache EXCEPT ![c] = block_cache[c] \ {p}]
      BY <2>1 DEF Stamp, StampAt
    <3> QED BY <1>0, <1>f, <3>1
  <2>2. CASE Stamped(c) \/ Abort(c)
    <3>1. UNCHANGED block_cache /\ pc' = [pc EXCEPT ![c] = "clean"]
      BY <2>2 DEF Stamped, Abort, Goto, txn, caches
    <3> QED BY <1>0, <1>f, <3>1
  <2> QED BY <1>5, <2>1, <2>2
<1>6. ASSUME NEW c \in Client, Leave(c) PROVE Unstamped(d)' \subseteq Unstamped(d)
  <2>1. /\ block_cache' = [block_cache EXCEPT ![c] = {}]
        /\ pc' = [pc EXCEPT ![c] = IF stage[c] = "granted" THEN "finish" ELSE "idle"]
    BY <1>6 DEF Leave, Goto
  <2> QED BY <1>0, <1>f, <2>1
<1>7. ASSUME NEW c \in Client, NEW b \in Reuse, NewVertex(c, b) PROVE Unstamped(d)' \subseteq Unstamped(d)
  BY <1>1, <1>7, NewVertexQuiet
<1> QED BY <1>1, <1>2, <1>3, <1>4, <1>5, <1>6, <1>7, Kinds, Zenon DEF Calm

LEMMA ApartStep ==
  ASSUME Types, HoldsInv, ApartInv, [Next]_vars
  PROVE  ApartInv'
<1> SUFFICES ASSUME NEW c \in Client, NEW d \in Client, c # d
             PROVE  /\ local_txn_id'[c] # 0 => local_txn_id'[c] # local_txn_id'[d]
                    /\ Unstamped(c)' \cap Unstamped(d)' = {}
  BY DEF ApartInv
<1>0. /\ transaction_id \in Nat /\ DOMAIN local_txn_id = Client
      /\ \A e \in Client : local_txn_id[e] \in Nat /\ local_txn_id[e] <= transaction_id
  BY Facts DEF Types, TypeOK
<1>i. /\ local_txn_id[c] # 0 => local_txn_id[c] # local_txn_id[d]
      /\ local_txn_id[d] # 0 => local_txn_id[c] # local_txn_id[d]
      /\ Unstamped(c) \cap Unstamped(d) = {}
  BY DEF ApartInv
<1>1. local_txn_id'[c] # 0 => local_txn_id'[c] # local_txn_id'[d]
  <2>1. CASE UNCHANGED <<transaction_id, local_txn_id>>
    BY <1>i, <2>1
  <2>2. ASSUME NEW e \in Client, local_txn_id' = [local_txn_id EXCEPT ![e] = transaction_id + 1]
        PROVE  local_txn_id'[c] # 0 => local_txn_id'[c] # local_txn_id'[d]
    BY <1>0, <1>i, <2>2
  <2> QED BY <2>1, <2>2, IdsStep
<1>2. \A e \in Client : Unstamped(e) \subseteq DOMAIN block
  BY Facts DEF Types, Unstamped
<1>3. \A e \in Client : Unstamped(e)' \subseteq Unstamped(e)
        \/ \E n \in Nat : /\ n \notin DOMAIN block /\ Unstamped(e)' = Unstamped(e) \cup {n}
                          /\ \A o \in Client \ {e} : block_cache'[o] = block_cache[o] /\ pc' = pc
  <2>1. ASSUME NEW e \in Client, NEW v \in VertexId, NEW n \in Nat, Write(e, v), Adds(e, v, n)
        PROVE  n \notin DOMAIN block /\ \A o \in Client \ {e} : block_cache'[o] = block_cache[o] /\ pc' = pc
    BY <2>1 DEF Write, Adds
  <2> QED BY <2>1, UnstampedStep, Zenon
<1>4. Unstamped(c)' \cap Unstamped(d)' = {}
  <2>1. CASE Unstamped(c)' \subseteq Unstamped(c) /\ Unstamped(d)' \subseteq Unstamped(d)
    BY <1>i, <2>1
  <2>2. ASSUME NEW e \in Client, NEW o \in Client, e # o, NEW n \in Nat, n \notin DOMAIN block,
               Unstamped(e)' = Unstamped(e) \cup {n}, block_cache'[o] = block_cache[o], pc' = pc,
               Unstamped(e) \cap Unstamped(o) = {}
        PROVE  Unstamped(e)' \cap Unstamped(o)' = {}
    <3>1. Unstamped(o)' = Unstamped(o)
      BY <2>2 DEF Unstamped
    <3> QED BY <1>2, <2>2, <3>1
  <2>3. CASE ~(Unstamped(c)' \subseteq Unstamped(c))
    BY <1>3, <1>i, <2>2, <2>3
  <2>4. CASE ~(Unstamped(d)' \subseteq Unstamped(d))
    BY <1>3, <1>i, <2>2, <2>4
  <2> QED BY <2>1, <2>3, <2>4
<1> QED BY <1>1, <1>4

\* A snapshot is the epoch visible at the begin, and stays till the transaction ends.
LEMMA Snapshots ==
  ASSUME Types, [Next]_vars, NEW d \in Client
  PROVE  \/ BeginLoad(d)
         \/ read_epoch_id'[d] = read_epoch_id[d] /\ (Active(d)' => Active(d))
<1>0. DOMAIN pc = Client /\ compacting \in [Client -> Compaction] /\ PlaceOf(d)
  BY DEF Types, TypeOK, PlaceInv, Compaction
<1>1. CASE Elsewhere(d)
  BY <1>1 DEF Elsewhere, Active
<1>2. ASSUME NEW G \in SUBSET Client, d \in G, RegisterGroup(G)
      PROVE  read_epoch_id'[d] = read_epoch_id[d] /\ (Active(d)' => Active(d))
  BY <1>2 DEF RegisterGroup, Active, txn
<1>f. ASSUME read_epoch_id' = read_epoch_id, compacting'[d].resume = compacting[d].resume,
             pc'[d] \in {"publish", "open", "walk"} => pc[d] \in {"publish", "open", "walk"}
      PROVE  read_epoch_id'[d] = read_epoch_id[d] /\ (Active(d)' => Active(d))
  BY <1>f DEF Active
<1> USE DEF epochsVars, ids, vertices, blocks, begins, caches, txn, bounds, history, Goto
<1>3. ASSUME Step(d), ~BeginLoad(d)
      PROVE  read_epoch_id'[d] = read_epoch_id[d] /\ (Active(d)' => Active(d))
  <2>1. CASE BeginPublish(d)
    BY <1>0, <2>1 DEF BeginPublish, Active
  <2>2. CASE WalkOn(d) \/ PushRecycled(d) \/ Stamp(d)
    BY <1>f, <2>2 DEF WalkOn, PushRecycled, Stamp, StampAt
  <2>3. CASE Return(d) \/ Commit(d) \/ Abort(d) \/ Stamped(d) \/ Spin(d)
    BY <1>0, <1>f, <2>3 DEF Return, Commit, Abort, Stamped, Spin
  <2>4. CASE Leave(d)
    BY <1>0, <1>f, <2>4 DEF Leave
  <2>5. CASE Compact(d)
    BY <1>0, <2>5 DEF Compact, StartCompact, Active
  <2>6. CASE Scanned(d)
    <3>1. TypeOK
      BY DEF Types
    <3>2. compacting'[d].resume = compacting[d].resume
      BY <2>6, <3>1, ScannedStep
    <3> QED BY <1>0, <1>f, <2>6, <3>2 DEF Scanned
  <2>7. CASE Compacted(d)
    <3>1. /\ pc'[d] = compacting[d].resume /\ compacting'[d] = NotCompacting
          /\ read_epoch_id' = read_epoch_id
      BY <1>0, <2>7 DEF Compacted
    <3>2. compacting[d].resume \in {"idle", "open"}
      BY <1>0 DEF Compaction
    <3> QED BY <3>1, <3>2 DEF Active, NotCompacting
  <2> QED BY <1>3, <2>1, <2>2, <2>3, <2>4, <2>5, <2>6, <2>7 DEF Step
<1>4. ASSUME NEW v \in VertexId, StepAt(d, v)
      PROVE  read_epoch_id'[d] = read_epoch_id[d] /\ (Active(d)' => Active(d))
  <2>1. CASE GetVertex(d, v)
    BY <1>0, <1>f, <2>1 DEF GetVertex, Operate
  <2>2. CASE PutVertex(d, v) \/ Install(d, v) \/ Unlock(d, v)
    BY <1>f, <2>2 DEF PutVertex, Install, Unlock
  <2>3. CASE CompactVertex(d, v)
    <3>1. compacting'[d].resume = compacting[d].resume
      BY <2>3, CompactEffect
    <3> QED BY <1>f, <2>3, <3>1 DEF CompactVertex
  <2>4. CASE CompactSkip(d, v)
    <3>1. {v} \in SUBSET VertexId /\ Done(d, v, {v})
      BY <2>4 DEF CompactSkip
    <3>2. compacting'[d].resume = compacting[d].resume
      BY <1>0, <3>1, DoneStep
    <3> QED BY <1>f, <2>4, <3>2 DEF CompactSkip
  <2> QED BY <1>4, <2>1, <2>2, <2>3, <2>4 DEF StepAt
<1>5. ASSUME NEW v \in VertexId, NEW b, DelVertex(d, v, b) \/ NewVertex(d, b)
      PROVE  read_epoch_id'[d] = read_epoch_id[d] /\ (Active(d)' => Active(d))
  BY <1>f, <1>5 DEF DelVertex, NewVertex
<1>6. ASSUME NEW b \in BOOLEAN, FinishCommit(d, b)
      PROVE  read_epoch_id'[d] = read_epoch_id[d] /\ (Active(d)' => Active(d))
  <2>1. CASE b
    BY <1>0, <1>6, <1>f, <2>1 DEF FinishCommit
  <2>2. CASE ~b
    BY <1>0, <1>6, <1>f, <2>2 DEF FinishCommit
  <2> QED BY <2>1, <2>2
<1>7. ASSUME NEW t \in Thread, ScanThread(d, t)
      PROVE  read_epoch_id'[d] = read_epoch_id[d] /\ (Active(d)' => Active(d))
  <2>1. UNCHANGED <<read_epoch_id, pc>> /\ pc[d] = "scan"
    BY <1>7 DEF ScanThread, ScanWith
  <2>2. compacting'[d].resume = compacting[d].resume
    BY <1>7, BoundStep
  <2> QED BY <1>f, <2>1, <2>2
<1>8. ASSUME NEW b \in Reuse, NewVertex(d, b)
      PROVE  read_epoch_id'[d] = read_epoch_id[d] /\ (Active(d)' => Active(d))
  BY <1>f, <1>8 DEF NewVertex
<1> HIDE DEF epochsVars, ids, vertices, blocks, begins, caches, txn, bounds, history, Goto
<1> QED BY <1>1, <1>2, <1>3, <1>4, <1>5, <1>6, <1>7, <1>8, Actors, Zenon DEF By

\* A client comes to its walk, and moves in it, only by its own reads.
LEMMA Walks ==
  ASSUME Types, [Next]_vars, NEW d \in Client, pc'[d] = "walk"
  PROVE  (\E v \in VertexId : GetVertex(d, v)) \/ WalkOn(d) \/ Elsewhere(d)
<1>0. DOMAIN pc = Client /\ compacting \in [Client -> Compaction] /\ PlaceOf(d)
  BY DEF Types, TypeOK, PlaceInv, Compaction
<1>1. ASSUME NEW G \in SUBSET Client, d \in G, RegisterGroup(G) PROVE FALSE
  BY <1>1 DEF RegisterGroup
<1> USE DEF Goto
<1>2. ASSUME Step(d) PROVE WalkOn(d)
  <2>1. compacting[d].resume \in {"idle", "open"}
    BY <1>0 DEF Compaction
  <2> QED BY <1>0, <1>2, <2>1 DEF Step, BeginLoad, BeginPublish, StartCompact, Return, Commit, Abort,
                PushRecycled, Stamp, StampAt, Stamped, Leave, Spin, Compact, Scanned, Compacted
<1>3. ASSUME NEW v \in VertexId, StepAt(d, v) PROVE GetVertex(d, v)
  BY <1>0, <1>3 DEF StepAt, PutVertex, Operate, Install, Unlock, CompactVertex, CompactSkip
<1>4. ASSUME NEW v, NEW b, DelVertex(d, v, b) \/ NewVertex(d, b) PROVE FALSE
  BY <1>0, <1>4 DEF DelVertex, NewVertex, Operate
<1>5. ASSUME NEW b \in BOOLEAN, FinishCommit(d, b) PROVE FALSE
  <2>1. CASE b
    BY <1>0, <1>5, <2>1 DEF FinishCommit
  <2>2. CASE ~b
    BY <1>0, <1>5, <2>2 DEF FinishCommit
  <2> QED BY <2>1, <2>2
<1>6. ASSUME NEW t, ScanThread(d, t) PROVE FALSE
  BY <1>0, <1>6 DEF ScanThread, ScanWith
<1> HIDE DEF Goto
<1> QED BY <1>1, <1>2, <1>3, <1>4, <1>5, <1>6, Actors, Zenon DEF By

\* A reader of a vertex it has written is where it wants to be.
LEMMA OwnArrived ==
  ASSUME Types, CacheInv, WalkInv, NEW c \in Client, pc[c] = "walk", c \notin ReadOnly,
         vertex_ptr_cache[c][reading[c].vid] # NULLPOINTER
  PROVE  Arrived(c) /\ reading[c].ptr = vertex_ptr_cache[c][reading[c].vid]
<1>1. /\ reading[c].vid \in VertexId /\ reading[c].ptr = vertex_ptr_cache[c][reading[c].vid]
  BY DEF WalkInv, WalkOf
<1>2. reading[c].ptr \in block_cache[c] /\ Unstamped(c) = block_cache[c]
  BY <1>1 DEF CacheInv, CacheOf, Unstamped
<1>3. block[reading[c].ptr].creation = -local_txn_id[c] /\ local_txn_id[c] \in Nat
  BY <1>2, Facts DEF CacheInv, CacheOf, Types
<1> QED BY <1>1, <1>3 DEF Arrived, Visible, Id

LEMMA WalkStep ==
  ASSUME Types, CacheInv, WalkInv, [Next]_vars
  PROVE  WalkInv'
<1> SUFFICES ASSUME NEW c \in Client, pc'[c] = "walk"
             PROVE  /\ reading'[c].vid \in VertexId
                    /\ c \notin ReadOnly /\ vertex_ptr_cache'[c][reading'[c].vid] # NULLPOINTER =>
                         reading'[c].ptr = vertex_ptr_cache'[c][reading'[c].vid]
  BY DEF WalkInv, WalkOf
<1>0. DOMAIN reading = Client /\ DOMAIN pc = Client
      /\ reading \in [Client -> [vid : VertexId \cup {0}, ptr : 0 .. Len(block)]]
  BY DEF Types, TypeOK
<1>1. CASE Elsewhere(c)
  BY <1>1 DEF Elsewhere, WalkInv, WalkOf
<1>2. ASSUME NEW v \in VertexId, GetVertex(c, v)
      PROVE  /\ reading'[c].vid \in VertexId
             /\ c \notin ReadOnly /\ vertex_ptr_cache'[c][reading'[c].vid] # NULLPOINTER =>
                  reading'[c].ptr = vertex_ptr_cache'[c][reading'[c].vid]
  <2>1. reading'[c].vid = v /\ reading'[c].ptr = Newest(c, v) /\ UNCHANGED vertex_ptr_cache
    BY <1>0, <1>2 DEF GetVertex, txn, caches
  <2> QED BY <2>1 DEF Newest
<1>3. CASE WalkOn(c)
  <2>1. pc[c] = "walk" /\ ~Arrived(c) /\ UNCHANGED vertex_ptr_cache
    BY <1>3 DEF WalkOn, txn, caches
  <2>2. reading' = [reading EXCEPT ![c] = [reading[c] EXCEPT !.ptr = block[reading[c].ptr].prev]]
    BY <1>3 DEF WalkOn
  <2>3. reading'[c].vid = reading[c].vid
    BY <1>0, <2>2
  <2>4. c \notin ReadOnly => vertex_ptr_cache[c][reading[c].vid] = NULLPOINTER
    BY <2>1, OwnArrived
  <2> QED BY <2>1, <2>3, <2>4 DEF WalkInv, WalkOf
<1> QED BY <1>1, <1>2, <1>3, Walks

\* Waiting for an epoch begins with a commit's end, and ends when the epoch is visible.
LEMMA Waits ==
  ASSUME Types, [Next]_vars, NEW d \in Client
  PROVE  \/ Spin(d)
         \/ pc[d] = "finish" /\ pc'[d] = "spin"
         \/ commit_epoch_id'[d] = commit_epoch_id[d] /\ (pc[d] = "spin" => pc'[d] = "spin")
<1>0. DOMAIN pc = Client
  BY DEF Types, TypeOK
<1> DEFINE Same == commit_epoch_id'[d] = commit_epoch_id[d] /\ (pc[d] = "spin" => pc'[d] = "spin")
<1>1. ASSUME Elsewhere(d) PROVE Same
  BY <1>1 DEF Elsewhere
<1>2. ASSUME NEW G \in SUBSET Client, d \in G, RegisterGroup(G) PROVE Same
  <2>1. pc[d] = "registered"
    BY <1>2 DEF RegisterGroup, Grant, Queued, Types, PlaceInv, PlaceOf
  <2> QED BY <1>2, <2>1 DEF RegisterGroup
<1> USE DEF Goto, history
<1>3. ASSUME Step(d), ~Spin(d) PROVE Same
  BY <1>0, <1>3 DEF Step, BeginLoad, BeginPublish, StartCompact, WalkOn, Return, Commit, Abort,
                PushRecycled, Stamp, StampAt, Stamped, Leave, Compact, Scanned, Compacted
<1>4. ASSUME NEW v \in VertexId, StepAt(d, v) PROVE Same
  BY <1>0, <1>4 DEF StepAt, GetVertex, PutVertex, Operate, Install, Unlock, CompactVertex, CompactSkip
<1>5. ASSUME NEW v, NEW b, DelVertex(d, v, b) \/ NewVertex(d, b) PROVE Same
  BY <1>0, <1>5 DEF DelVertex, NewVertex, Operate
<1>6. ASSUME NEW b \in BOOLEAN, FinishCommit(d, b)
      PROVE  Same \/ (pc[d] = "finish" /\ pc'[d] = "spin")
  <2>1. CASE b
    BY <1>0, <1>6, <2>1 DEF FinishCommit
  <2>2. CASE ~b
    BY <1>0, <1>6, <2>2 DEF FinishCommit
  <2> QED BY <2>1, <2>2
<1>7. ASSUME NEW t, ScanThread(d, t) PROVE Same
  BY <1>0, <1>7 DEF ScanThread, ScanWith
<1> HIDE DEF Goto, history, Same
<1>8. \/ Spin(d) \/ Same \/ (pc[d] = "finish" /\ pc'[d] = "spin")
  <2> QED BY <1>1, <1>2, <1>3, <1>4, <1>5, <1>6, <1>7, Actors, Zenon DEF By
<1> QED BY <1>8 DEF Same

LEMMA WaitStep ==
  ASSUME Types, WaitInv, [Next]_vars
  PROVE  WaitInv'
<1> SUFFICES ASSUME NEW c \in Client
             PROVE  /\ Active(c)' => commit_epoch_id'[c] <= read_epoch_id'[c]
                    /\ pc'[c] # "spin" => commit_epoch_id'[c] <= visible'
  BY DEF WaitInv, WaitOf
<1>0. /\ commit_epoch_id[c] \in Nat /\ read_epoch_id[c] \in Nat /\ visible \in Nat /\ visible' \in Nat
      /\ visible' >= visible /\ DOMAIN pc = Client /\ DOMAIN read_epoch_id = Client
      /\ compacting \in [Client -> Compaction] /\ PlaceOf(c)
  <2>1. commit_epoch_id[c] \in Nat
    <3>1. commit_epoch_id[c] \in 0 .. sealed
      BY DEF Types, TypeOK
    <3> QED BY <3>1
  <2>2. visible' \in Nat /\ visible' >= visible
    BY EpochsStep DEF Types
  <2> QED BY <2>1, <2>2, Facts DEF Types, TypeOK, PlaceInv, Compaction
<1>i. WaitOf(c)
  BY DEF WaitInv
<1>1. CASE Spin(c)
  <2>1. /\ pc[c] = "spin" /\ visible >= commit_epoch_id[c] /\ visible' = visible /\ pc'[c] = "idle"
        /\ UNCHANGED <<commit_epoch_id, compacting>>
    BY <1>0, <1>1 DEF Spin, Goto, history, epoch_id, epochsVars
  <2>2. ~Active(c)'
    BY <1>0, <2>1 DEF Active, PlaceOf, NotCompacting
  <2> QED BY <1>0, <2>1, <2>2
<1>2. CASE pc[c] = "finish" /\ pc'[c] = "spin"
  <2>1. ~Active(c) /\ ~BeginLoad(c)
    BY <1>0, <1>2 DEF Active, PlaceOf, NotCompacting, BeginLoad
  <2>2. ~Active(c)'
    BY <2>1, Snapshots
  <2> QED BY <1>2, <2>2
<1>3. CASE commit_epoch_id'[c] = commit_epoch_id[c] /\ (pc[c] = "spin" => pc'[c] = "spin")
  <2>1. pc'[c] # "spin" => commit_epoch_id'[c] <= visible'
    BY <1>0, <1>i, <1>3 DEF WaitOf
  <2>2. CASE BeginLoad(c)
    <3>1. pc[c] = "idle" /\ read_epoch_id'[c] = visible
      BY <1>0, <2>2 DEF BeginLoad, epoch_id
    <3> QED BY <1>i, <1>3, <2>1, <3>1 DEF WaitOf
  <2>3. CASE read_epoch_id'[c] = read_epoch_id[c] /\ (Active(c)' => Active(c))
    BY <1>i, <1>3, <2>1, <2>3 DEF WaitOf
  <2> QED BY <2>2, <2>3, Snapshots
<1> QED BY <1>1, <1>2, <1>3, Waits

-----------------------------------------------------------------------------
(* ReadsYourWrites *)

LEMMA OwnInit == Init => OwnInv
<1> SUFFICES ASSUME Init PROVE OwnInv
  OBVIOUS
<1>1. /\ \A c \in Client :
           /\ pc[c] = "idle" /\ block_cache[c] = {} /\ acquired_locks[c] = {} /\ local_txn_id[c] = 0
           /\ commit_epoch_id[c] = 0 /\ compacting[c].resume = "idle"
           /\ \A v \in VertexId : vertex_ptr_cache[c][v] = NULLPOINTER
      /\ visible = 0
  BY DEF Init, EpochsInit, NotCompacting
<1>2. \A c \in Client : Unstamped(c) = {}
  BY <1>1 DEF Unstamped
<1>3. HoldsInv /\ ApartInv /\ WalkInv
  BY <1>1, <1>2 DEF HoldsInv, HoldsOf, ApartInv, WalkInv, WalkOf
<1>4. WaitInv
  <2>1. ASSUME NEW c \in Client PROVE ~Active(c) /\ commit_epoch_id[c] <= visible
    BY <1>1 DEF Active
  <2> QED BY <2>1 DEF WaitInv, WaitOf
<1>5. CacheInv
  BY <1>1, <1>2 DEF CacheInv, CacheOf
<1> QED BY <1>3, <1>4, <1>5, TypesInit DEF OwnInv

LEMMA OwnStep == OwnInv /\ [Next]_vars => OwnInv'
<1> SUFFICES ASSUME OwnInv, [Next]_vars PROVE OwnInv'
  OBVIOUS
<1>1. Types /\ HoldsInv /\ CacheInv /\ ApartInv /\ WalkInv /\ WaitInv
  BY DEF OwnInv
<1>2. HoldsInv'
  <2>1. CASE UNCHANGED vars
    BY <1>1, <2>1 DEF vars, txn, caches, HoldsInv, HoldsOf
  <2> QED BY <1>1, <2>1, HoldsStep
<1> QED BY <1>1, <1>2, TypesStep, CacheStep, ApartStep, WalkStep, WaitStep DEF OwnInv

\* A transaction reads its own last write, and a client that waited for its commit sees it in each of
\* its later transactions, whatever ids are recycled and however many clients a thread has.
THEOREM OwnWrites == Spec => []ReadsYourWrites
<1>1. OwnInv => ReadsYourWrites
  <2> SUFFICES ASSUME OwnInv, NEW c \in Client
               PROVE  /\ Active(c) => read_epoch_id[c] >= commit_epoch_id[c]
                      /\ pc[c] = "walk" /\ Arrived(c) /\ c \notin ReadOnly =>
                           vertex_ptr_cache[c][reading[c].vid] \in {NULLPOINTER, reading[c].ptr}
    BY DEF ReadsYourWrites
  <2>1. Active(c) => read_epoch_id[c] >= commit_epoch_id[c]
    BY Facts DEF OwnInv, WaitInv, WaitOf, Types, TypeOK
  <2>2. pc[c] = "walk" /\ Arrived(c) /\ c \notin ReadOnly =>
          vertex_ptr_cache[c][reading[c].vid] \in {NULLPOINTER, reading[c].ptr}
    BY OwnArrived DEF OwnInv
  <2> QED BY <2>1, <2>2
<1> QED BY <1>1, OwnInit, OwnStep, PTL DEF Spec

-----------------------------------------------------------------------------
(* VersionsNewestFirst *)

LEMMA LooseStep ==
  ASSUME OwnInv, LooseInv, [Next]_vars
  PROVE  LooseInv'
<1> SUFFICES ASSUME NEW p \in DOMAIN block', block'[p].creation < 0
             PROVE  \E c \in Client : p \in Unstamped(c)'
  BY DEF LooseInv
<1>0. /\ Types /\ HoldsInv /\ ApartInv
      /\ DOMAIN pc = Client /\ DOMAIN block_cache = Client
      /\ \A c \in Client : grant[c] \in Nat
  BY Facts DEF OwnInv, Types, TypeOK
<1>i. p \in DOMAIN block /\ block[p].creation < 0 => \E c \in Client : p \in Unstamped(c)
  BY DEF LooseInv
<1>f. ASSUME p \in DOMAIN block, block'[p].creation = block[p].creation,
             \A c \in Client : Unstamped(c) \subseteq Unstamped(c)'
      PROVE  \E c \in Client : p \in Unstamped(c)'
  BY <1>i, <1>f
<1>g. ASSUME NEW c \in Client, UNCHANGED <<block_cache, pc>>
      PROVE  Unstamped(c)' = Unstamped(c)
  BY <1>g DEF Unstamped
<1>1. ASSUME Quiet PROVE \E c \in Client : p \in Unstamped(c)'
  BY <1>f, <1>1 DEF Quiet, Unstamped
<1>2. ASSUME NEW c \in Client, NEW v \in VertexId, Write(c, v)
      PROVE  \E d \in Client : p \in Unstamped(d)'
  <2>0. UNCHANGED <<pc, transaction_id, epochsVars>> /\ pc[c] = "open" /\ c \notin ReadOnly
    BY <1>2 DEF Write, begins
  <2>1. CASE NoVersion
    BY <1>f, <1>g, <2>0, <2>1 DEF NoVersion
  <2>2. ASSUME NEW dead \in BOOLEAN, AddVersion(c, v, dead)
        PROVE  \E d \in Client : p \in Unstamped(d)'
    <3>0. PICK n \in Nat : Adds(c, v, n)
      BY <1>0, <2>0, <2>2, Added, Zenon
    <3>1. /\ block_cache'[c] = block_cache[c] \cup {n}
          /\ \A e \in Client \ {c} : block_cache'[e] = block_cache[e]
          /\ DOMAIN block' = DOMAIN block \cup {n}
          /\ \A q \in DOMAIN block : block'[q] = block[q]
      BY <3>0 DEF Adds
    <3>2. CASE p = n
      BY <2>0, <3>1, <3>2 DEF Unstamped
    <3>3. CASE p \in DOMAIN block
      BY <1>f, <2>0, <3>1, <3>3 DEF Unstamped
    <3> QED BY <3>1, <3>2, <3>3
  <2> QED BY <1>2, <2>1, <2>2 DEF Write
<1>3. ASSUME NEW G \in SUBSET Client, RegisterGroup(G) PROVE \E c \in Client : p \in Unstamped(c)'
  BY <1>f, <1>3 DEF RegisterGroup, Grant, Queued, Types, PlaceInv, PlaceOf, txn, caches, blocks, Unstamped
<1>4. ASSUME NEW c \in Client, NEW v \in VertexId, Install(c, v) \/ Unlock(c, v) \/ CompactVertex(c, v)
      PROVE  \E d \in Client : p \in Unstamped(d)'
  <2>1. UNCHANGED <<block_cache, pc>>
    BY <1>4 DEF Install, Unlock, CompactVertex, txn, caches
  <2>2. p \in DOMAIN block /\ block'[p].creation = block[p].creation
    <3>1. CASE Install(c, v) \/ Unlock(c, v)
      BY <3>1 DEF Install, Unlock, blocks
    <3>2. CASE CompactVertex(c, v)
      BY <1>0, <3>2, CompactEffect
    <3> QED BY <1>4, <3>1, <3>2
  <2> QED BY <1>f, <1>g, <2>1, <2>2
<1>5. ASSUME NEW c \in Client, Stamp(c) PROVE \E d \in Client : p \in Unstamped(d)'
  <2>1. PICK q \in block_cache[c] :
           /\ DOMAIN block' = DOMAIN block
           /\ \A r \in DOMAIN block : r # q => block'[r].creation = block[r].creation
           /\ block'[q].creation = grant[c]
           /\ block_cache'[c] = block_cache[c] \ {q}
           /\ \A d \in Client \ {c} : block_cache'[d] = block_cache[d]
           /\ UNCHANGED pc
    BY <1>0, <1>5, StampEffect
  <2>2. p # q
    BY <1>0, <2>1
  <2>3. PICK d \in Client : p \in Unstamped(d)
    BY <1>i, <2>1, <2>2
  <2> QED BY <2>1, <2>2, <2>3 DEF Unstamped
<1>6. ASSUME NEW c \in Client, Stamped(c) PROVE \E d \in Client : p \in Unstamped(d)'
  BY <1>0, <1>f, <1>6 DEF Stamped, Goto, txn, caches, blocks, Unstamped
<1>7. ASSUME NEW c \in Client, Abort(c) PROVE \E d \in Client : p \in Unstamped(d)'
  <2>1. /\ pc[c] = "open" /\ pc' = [pc EXCEPT ![c] = "clean"]
        /\ DOMAIN block' = DOMAIN block
        /\ \A q \in block_cache[c] : block'[q].creation = ROLLBACK_TOMBSTONE
        /\ \A q \in DOMAIN block : q \notin block_cache[c] => block'[q].creation = block[q].creation
        /\ UNCHANGED block_cache
    BY <1>0, <1>7, AbortEffect DEF caches
  <2>2. p \notin block_cache[c]
    BY <2>1 DEF ROLLBACK_TOMBSTONE
  <2>3. PICK d \in Client : p \in Unstamped(d)
    BY <1>i, <2>1, <2>2
  <2> QED BY <1>0, <2>1, <2>2, <2>3 DEF Unstamped
<1>8. ASSUME NEW c \in Client, Leave(c) PROVE \E d \in Client : p \in Unstamped(d)'
  BY <1>0, <1>f, <1>8 DEF Leave, Goto, blocks, Unstamped
<1>9. ASSUME NEW c \in Client, NEW b \in Reuse, NewVertex(c, b) PROVE Quiet
  BY <1>9, NewVertexQuiet
<1> QED BY <1>0, <1>1, <1>2, <1>3, <1>4, <1>5, <1>6, <1>7, <1>8, <1>9, Kinds, Zenon DEF Calm

\* A version of c's transaction, and only of it, carries c's id.
LEMMA OwnStamp ==
  ASSUME OwnInv, LooseInv, NEW c \in Client, pc[c] # "clean", local_txn_id[c] > 0,
         NEW p \in DOMAIN block, -block[p].creation = local_txn_id[c]
  PROVE  p \in Unstamped(c)
<1>0. local_txn_id[c] \in Nat /\ block[p].creation \in Int
  BY Facts DEF OwnInv, Types
<1>1. PICK d \in Client : p \in Unstamped(d)
  BY <1>0 DEF LooseInv
<1>2. block[p].creation = -local_txn_id[d] /\ local_txn_id[d] \in Nat
  BY <1>1, Facts DEF OwnInv, CacheInv, CacheOf, Types
<1>3. local_txn_id[c] = local_txn_id[d]
  BY <1>0, <1>2
<1> QED BY <1>1, <1>3 DEF OwnInv, ApartInv

\* What a new version is put on top of.
LEMMA OnTop ==
  ASSUME OwnInv, LooseInv, NEW c \in Client, NEW v \in VertexId, pc[c] = "open", c \notin ReadOnly,
         ~Conflict(c, v), Newest(c, v) # NULLPOINTER
  PROVE  /\ Newest(c, v) \in DOMAIN block
         /\ Newest(c, v) \in Unstamped(c) \/ block[Newest(c, v)].creation \in 0 .. read_epoch_id[c]
<1>1. CASE vertex_ptr_cache[c][v] # NULLPOINTER
  <2>1. vertex_ptr_cache[c][v] \in block_cache[c]
    BY <1>1 DEF OwnInv, CacheInv, CacheOf
  <2> QED BY <1>1, <2>1, Facts DEF Newest, Unstamped, OwnInv, Types
<1>2. CASE vertex_ptr_cache[c][v] = NULLPOINTER
  <2>1. /\ Newest(c, v) = vertex_ptrs[v] /\ vertex_ptrs[v] \in DOMAIN block
        /\ Visible(block[vertex_ptrs[v]].creation, read_epoch_id[c], local_txn_id[c])
    BY <1>2, Facts DEF Newest, Conflict, OwnInv, Types
  <2>2. local_txn_id[c] > 0
    BY DEF OwnInv, Types, PlaceInv, PlaceOf, Active
  <2>3. CASE -block[vertex_ptrs[v]].creation = local_txn_id[c]
    BY <2>1, <2>2, <2>3, OwnStamp
  <2>4. CASE 0 <= block[vertex_ptrs[v]].creation /\ block[vertex_ptrs[v]].creation <= read_epoch_id[c]
    BY <2>1, <2>4, Facts DEF OwnInv, Types
  <2> QED BY <2>1, <2>3, <2>4 DEF Visible
<1> QED BY <1>1, <1>2

LEMMA OrderStep ==
  ASSUME OwnInv, LooseInv, OrderInv, InRange', [Next]_vars
  PROVE  OrderInv'
<1> SUFFICES ASSUME NEW p \in DOMAIN block', block'[p].prev # NULLPOINTER
             PROVE  /\ block'[p].creation >= 0 =>
                         block'[block'[p].prev].creation \in 0 .. block'[p].creation
                    /\ \A c \in Client : p \in Unstamped(c)' =>
                         \/ block'[p].prev \in Unstamped(c)'
                         \/ block'[block'[p].prev].creation \in 0 .. Since(c)'
  BY DEF OrderInv, OrderOf
<1>0. /\ Types /\ HoldsInv /\ ApartInv /\ CacheInv
      /\ DOMAIN pc = Client /\ DOMAIN block_cache = Client
      /\ sealed \in Nat /\ visible \in Nat /\ visible <= sealed
      /\ \A c \in Client : /\ grant[c] \in Nat /\ read_epoch_id[c] \in Nat /\ read_epoch_id[c] <= visible
                           /\ block_cache[c] \subseteq DOMAIN block
                           /\ local_txn_id[c] \in Nat
      /\ \A q \in DOMAIN block : /\ block[q].creation \in Int /\ block[q].prev \in Nat /\ q \in Nat
                                 /\ block[q].prev < q
                                 /\ block[q].prev # NULLPOINTER => block[q].prev \in DOMAIN block
  <2>1. ASSUME NEW q \in DOMAIN block
        PROVE  /\ block[q].creation \in Int /\ block[q].prev \in Nat /\ q \in Nat
               /\ block[q].prev < q
               /\ block[q].prev # NULLPOINTER => block[q].prev \in DOMAIN block
    <3>1. /\ block[q].creation \in Int /\ block[q].prev \in Nat /\ q \in Nat
          /\ DOMAIN block = 1 .. Len(block) /\ Len(block) \in Nat
      BY Facts DEF OwnInv, Types
    <3>2. block[q].prev < q
      BY DEF OwnInv, Types, OlderInv
    <3> QED BY <3>1, <3>2
  <2> QED BY <2>1, Facts DEF OwnInv, Types, TypeOK
<1>i. \A q \in DOMAIN block : block[q].prev # NULLPOINTER =>
        /\ block[q].creation >= 0 => block[block[q].prev].creation \in 0 .. block[q].creation
        /\ \A c \in Client : q \in Unstamped(c) =>
             \/ block[q].prev \in Unstamped(c)
             \/ block[block[q].prev].creation \in 0 .. Since(c)
  BY DEF OrderInv, OrderOf
<1> DEFINE Goal(q) == /\ block'[q].creation >= 0 =>
                           block'[block'[q].prev].creation \in 0 .. block'[q].creation
                      /\ \A c \in Client : q \in Unstamped(c)' =>
                           \/ block'[q].prev \in Unstamped(c)'
                           \/ block'[block'[q].prev].creation \in 0 .. Since(c)'
<1>f. ASSUME p \in DOMAIN block, block'[p].prev = block[p].prev,
             \A q \in DOMAIN block : block'[q].creation = block[q].creation,
             \A c \in Client : Unstamped(c)' = Unstamped(c),
             \A c \in Client : Unstamped(c) # {} => Since(c)' \in Nat /\ Since(c) <= Since(c)'
      PROVE  Goal(p)
  <2>1. block[p].prev \in DOMAIN block /\ block[p].prev # NULLPOINTER
    BY <1>0, <1>f
  <2>2. \A c \in Client : Since(c) \in Nat
    BY <1>0 DEF Since
  <2> QED BY <1>0, <1>i, <1>f, <2>1, <2>2
<1>g. ASSUME NEW c \in Client, UNCHANGED <<block_cache, pc, grant, read_epoch_id>>
      PROVE  Unstamped(c)' = Unstamped(c) /\ Since(c)' \in Nat /\ Since(c) <= Since(c)'
  BY <1>0, <1>g DEF Unstamped, Since
<1>1. ASSUME Quiet PROVE Goal(p)
  <2>1. /\ UNCHANGED block /\ \A c \in Client : Unstamped(c)' = Unstamped(c)
    BY <1>1 DEF Quiet, Unstamped
  <2>2. \A c \in Client : Unstamped(c) # {} => Since(c)' \in Nat /\ Since(c) <= Since(c)'
    BY <1>0, <1>1 DEF Quiet, Unstamped, Since
  <2> QED BY <1>f, <2>1, <2>2
<1>2. ASSUME NEW c \in Client, NEW v \in VertexId, Write(c, v) PROVE Goal(p)
  <2>0. /\ UNCHANGED <<pc, transaction_id, epochsVars, grant, read_epoch_id>> /\ pc[c] = "open"
        /\ c \notin ReadOnly
    BY <1>2 DEF Write, begins, epochsVars
  <2>1. CASE NoVersion
    BY <1>f, <1>g, <2>0, <2>1 DEF NoVersion
  <2>2. ASSUME NEW dead \in BOOLEAN, AddVersion(c, v, dead), ~Conflict(c, v) PROVE Goal(p)
    <3>0. PICK n \in Nat : Adds(c, v, n)
      BY <1>0, <2>0, <2>2, Added, Zenon
    <3>1. /\ block_cache'[c] = block_cache[c] \cup {n}
          /\ \A e \in Client \ {c} : block_cache'[e] = block_cache[e]
          /\ DOMAIN block' = DOMAIN block \cup {n} /\ n \notin DOMAIN block
          /\ \A q \in DOMAIN block : block'[q] = block[q]
          /\ block'[n].creation = -local_txn_id[c] /\ block'[n].prev = Newest(c, v)
          /\ local_txn_id[c] > 0
      BY <3>0 DEF Adds
    <3>2. \A d \in Client : /\ Unstamped(d)' = IF d = c THEN Unstamped(c) \cup {n} ELSE Unstamped(d)
                            /\ Since(d)' = Since(d)
      BY <2>0, <3>1 DEF Unstamped, Since
    <3>3. CASE p = n
      <4>1. Newest(c, v) # NULLPOINTER
        BY <3>1, <3>3
      <4>2. /\ Newest(c, v) \in DOMAIN block
            /\ Newest(c, v) \in Unstamped(c) \/ block[Newest(c, v)].creation \in 0 .. read_epoch_id[c]
        BY <2>0, <2>2, <4>1, OnTop
      <4>3. Since(c) = read_epoch_id[c]
        BY <2>0 DEF Since
      <4>4. \A d \in Client : n \in Unstamped(d)' => d = c
        BY <1>0, <3>1, <3>2 DEF Unstamped
      <4>5. ~(block'[n].creation >= 0)
        BY <1>0, <3>1
      <4> QED BY <3>1, <3>2, <3>3, <4>2, <4>3, <4>4, <4>5
    <3>4. CASE p \in DOMAIN block
      <4>1. block'[p] = block[p] /\ block[p].prev \in DOMAIN block
            /\ block'[block[p].prev] = block[block[p].prev]
        BY <1>0, <3>1, <3>4
      <4>2. \A d \in Client : p \in Unstamped(d)' => p \in Unstamped(d)
        BY <3>1, <3>2, <3>4
      <4> QED BY <1>i, <3>2, <3>4, <4>1, <4>2
    <3> QED BY <3>1, <3>3, <3>4
  <2> QED BY <1>2, <2>1, <2>2 DEF Write
<1>3. ASSUME NEW G \in SUBSET Client, RegisterGroup(G) PROVE Goal(p)
  <2>1. /\ UNCHANGED <<block, block_cache, read_epoch_id>>
        /\ \A c \in Client : pc'[c] = IF c \in G THEN "install" ELSE pc[c]
        /\ \A c \in G : pc[c] = "registered"
        /\ \A c \in Client : grant'[c] = IF c \in G THEN sealed + 1 ELSE grant[c]
    BY <1>0, <1>3 DEF RegisterGroup, Grant, Queued, Types, PlaceInv, PlaceOf, txn, caches, blocks
  <2>2. \A c \in Client : Unstamped(c)' = Unstamped(c)
    BY <2>1 DEF Unstamped
  <2>3. ASSUME NEW c \in Client PROVE Since(c)' \in Nat /\ Since(c) <= Since(c)'
    BY <1>0, <2>1 DEF Since
  <2> QED BY <1>f, <2>1, <2>2, <2>3
<1>4. ASSUME NEW c \in Client, NEW v \in VertexId, Install(c, v) \/ Unlock(c, v) \/ CompactVertex(c, v)
      PROVE  Goal(p)
  <2>1. UNCHANGED <<block_cache, pc, grant, read_epoch_id>>
    BY <1>4 DEF Install, Unlock, CompactVertex, txn, caches, epochsVars
  <2>2. /\ DOMAIN block' = DOMAIN block
        /\ block'[p].prev = block[p].prev
        /\ \A q \in DOMAIN block : block'[q].creation = block[q].creation
    <3>1. CASE Install(c, v) \/ Unlock(c, v)
      BY <3>1 DEF Install, Unlock, blocks
    <3>2. CASE CompactVertex(c, v)
      <4>1. /\ DOMAIN block' = DOMAIN block
            /\ \A q \in DOMAIN block :
                 /\ block'[q].creation = block[q].creation
                 /\ block'[q].prev = IF q \in Cuts(v, compacting[c].bound)
                                       THEN NULLPOINTER ELSE block[q].prev
        BY <1>0, <3>2, CompactEffect
      <4> QED BY <4>1
    <3> QED BY <1>4, <3>1, <3>2
  <2> QED BY <1>f, <1>g, <2>1, <2>2
<1>5. ASSUME NEW c \in Client, Stamp(c) PROVE Goal(p)
  <2>1. PICK q \in block_cache[c] :
           /\ pc[c] = "install" /\ \A r \in block_cache[c] : q <= r
           /\ DOMAIN block' = DOMAIN block /\ q \in DOMAIN block
           /\ \A r \in DOMAIN block : block'[r].prev = block[r].prev
           /\ \A r \in DOMAIN block : r # q => block'[r].creation = block[r].creation
           /\ block'[q].creation = grant[c]
           /\ block_cache'[c] = block_cache[c] \ {q}
           /\ \A d \in Client \ {c} : block_cache'[d] = block_cache[d]
           /\ UNCHANGED <<pc, epochsVars, read_epoch_id>>
    BY <1>0, <1>5, StampEffect
  <2>2. /\ \A d \in Client : Unstamped(d)' = IF d = c THEN Unstamped(c) \ {q} ELSE Unstamped(d)
        /\ \A d \in Client : Since(d)' = Since(d)
        /\ Unstamped(c) = block_cache[c] /\ Since(c) = grant[c]
    BY <2>1 DEF Unstamped, Since, epochsVars
  <2>3. block[q].creation < 0
    <3>1. block[q].creation = -local_txn_id[c]
      BY <1>0, <2>1, <2>2 DEF CacheInv, CacheOf
    <3>2. local_txn_id[c] > 0
      BY <1>0, <2>1 DEF Types, PlaceInv, PlaceOf
    <3> QED BY <1>0, <3>1, <3>2
  <2>4. \A d \in Client : q \in Unstamped(d) => d = c
    BY <1>0, <2>2 DEF ApartInv
  <2>5. block[p].prev \in DOMAIN block /\ block[p].prev # NULLPOINTER /\ block'[p].prev = block[p].prev
        /\ p \in DOMAIN block /\ block[p].prev < p
    BY <1>0, <2>1
  <2>6. CASE p = q
    <3>1. block[p].prev \notin block_cache[c]
      BY <1>0, <2>1, <2>5, <2>6
    <3>2. block[block[p].prev].creation \in 0 .. grant[c]
      BY <1>i, <2>1, <2>2, <2>5, <2>6, <3>1
    <3>3. block[p].prev # q
      BY <1>0, <2>5, <2>6
    <3>4. block'[block[p].prev].creation = block[block[p].prev].creation
      BY <2>1, <2>5, <3>3
    <3>5. \A d \in Client : p \notin Unstamped(d)'
      BY <2>2, <2>4, <2>6
    <3> QED BY <2>1, <2>5, <2>6, <3>2, <3>4, <3>5
  <2>7. CASE p # q /\ block[p].prev = q
    <3>1. ~(block[p].creation >= 0)
      BY <1>0, <1>i, <2>3, <2>5, <2>7
    <3>2. ASSUME NEW d \in Client, p \in Unstamped(d)' PROVE d = c
      <4>1. p \in Unstamped(d)
        BY <2>2, <3>2
      <4>2. q \in Unstamped(d) \/ block[q].creation \in 0 .. Since(d)
        BY <1>i, <2>5, <2>7, <4>1
      <4> QED BY <2>3, <2>4, <4>2
    <3>3. block'[q].creation \in 0 .. Since(c)'
      BY <1>0, <2>1, <2>2
    <3> QED BY <2>1, <2>5, <2>7, <3>1, <3>2, <3>3
  <2>8. CASE p # q /\ block[p].prev # q
    <3>1. /\ block'[p].creation = block[p].creation
          /\ block'[block[p].prev].creation = block[block[p].prev].creation
      BY <2>1, <2>5, <2>8
    <3> QED BY <1>i, <2>2, <2>5, <2>8, <3>1
  <2> QED BY <2>6, <2>7, <2>8
<1>6. ASSUME NEW c \in Client, Stamped(c) \/ Leave(c) PROVE Goal(p)
  <2>1. /\ UNCHANGED <<block, grant, read_epoch_id>>
        /\ \A d \in Client \ {c} : pc'[d] = pc[d] /\ block_cache'[d] = block_cache[d]
        /\ Unstamped(c) = {} /\ Unstamped(c)' = {}
    <3>1. CASE Stamped(c)
      BY <1>0, <3>1 DEF Stamped, Goto, txn, caches, blocks, Unstamped, epochsVars
    <3>2. CASE Leave(c)
      BY <1>0, <3>2 DEF Leave, Goto, blocks, Unstamped, epochsVars
    <3> QED BY <1>6, <3>1, <3>2
  <2>2. ASSUME NEW d \in Client
        PROVE  Unstamped(d)' = Unstamped(d) /\ (Unstamped(d) # {} => Since(d)' \in Nat /\ Since(d) <= Since(d)')
    <3>1. CASE d = c
      BY <2>1, <3>1
    <3>2. CASE d # c
      <4>1. pc'[d] = pc[d] /\ block_cache'[d] = block_cache[d] /\ grant'[d] = grant[d]
            /\ read_epoch_id'[d] = read_epoch_id[d]
        BY <2>1, <3>2
      <4> QED BY <1>0, <4>1 DEF Unstamped, Since
    <3> QED BY <3>1, <3>2
  <2> QED BY <1>f, <2>1, <2>2
<1>7. ASSUME NEW c \in Client, Abort(c) PROVE Goal(p)
  <2>1. /\ pc[c] = "open" /\ pc' = [pc EXCEPT ![c] = "clean"]
        /\ DOMAIN block' = DOMAIN block
        /\ \A q \in DOMAIN block : block'[q].prev = block[q].prev
        /\ \A q \in block_cache[c] : block'[q].creation = ROLLBACK_TOMBSTONE
        /\ \A q \in DOMAIN block : q \notin block_cache[c] => block'[q].creation = block[q].creation
        /\ UNCHANGED <<block_cache, grant, read_epoch_id, sealed>>
    BY <1>0, <1>7, AbortEffect DEF caches, epochsVars
  <2>2. /\ Unstamped(c) = block_cache[c] /\ Unstamped(c)' = {} /\ Since(c) = read_epoch_id[c]
        /\ \A d \in Client \ {c} : Unstamped(d)' = Unstamped(d) /\ Since(d)' = Since(d)
        /\ \A d \in Client \ {c} : Unstamped(d) \cap block_cache[c] = {}
    BY <1>0, <2>1 DEF Unstamped, Since, ApartInv
  <2>3. \A q \in block_cache[c] : block[q].creation < 0
    <3>1. CASE block_cache[c] = {}
      BY <3>1
    <3>2. CASE block_cache[c] # {}
      <4>1. c \notin ReadOnly /\ local_txn_id[c] > 0
        BY <1>0, <2>1, <3>2 DEF HoldsInv, HoldsOf, Types, PlaceInv, PlaceOf, Active
      <4> QED BY <1>0, <2>2, <4>1 DEF CacheInv, CacheOf
    <3> QED BY <3>1, <3>2
  <2>4. block[p].prev \in DOMAIN block /\ block[p].prev # NULLPOINTER /\ block'[p].prev = block[p].prev
        /\ p \in DOMAIN block
    BY <1>0, <2>1
  <2>5. ROLLBACK_TOMBSTONE \in Nat /\ sealed < ROLLBACK_TOMBSTONE
    BY <2>1 DEF InRange, ROLLBACK_TOMBSTONE
  <2>6. CASE p \in block_cache[c]
    <3>1. block'[p].creation = ROLLBACK_TOMBSTONE /\ \A d \in Client : p \notin Unstamped(d)'
      BY <2>1, <2>2, <2>6
    <3>2. CASE block[p].prev \in block_cache[c]
      BY <2>1, <2>4, <2>5, <3>1, <3>2
    <3>3. CASE block[p].prev \notin block_cache[c]
      <4>1. block[block[p].prev].creation \in 0 .. read_epoch_id[c]
        BY <1>i, <2>2, <2>4, <2>6, <3>3
      <4>2. block'[block[p].prev].creation = block[block[p].prev].creation
        BY <2>1, <2>4, <3>3
      <4>3. block'[block[p].prev].creation \in 0 .. ROLLBACK_TOMBSTONE
        BY <1>0, <2>5, <4>1, <4>2
      <4> QED BY <2>4, <3>1, <4>3
    <3> QED BY <3>2, <3>3
  <2>7. CASE p \notin block_cache[c]
    <3>1. /\ block'[p].creation = block[p].creation
          /\ \A d \in Client : p \in Unstamped(d)' => d # c /\ p \in Unstamped(d)
      BY <2>1, <2>2, <2>4, <2>7
    <3>2. CASE block[p].prev \in block_cache[c]
      <4>1. ~(block[p].creation >= 0)
        BY <1>0, <1>i, <2>3, <2>4, <3>2
      <4>2. ASSUME NEW d \in Client, p \in Unstamped(d)' PROVE FALSE
        <5>1. block[p].prev \in Unstamped(d) \/ block[block[p].prev].creation \in 0 .. Since(d)
          BY <1>i, <2>4, <3>1, <4>2
        <5>2. block[p].prev \notin Unstamped(d)
          BY <2>2, <3>1, <3>2, <4>2
        <5> QED BY <2>3, <3>2, <5>1, <5>2
      <4> QED BY <3>1, <4>1, <4>2
    <3>3. CASE block[p].prev \notin block_cache[c]
      <4>1. block'[block[p].prev].creation = block[block[p].prev].creation
        BY <2>1, <2>4, <3>3
      <4> QED BY <1>i, <2>2, <2>4, <3>1, <4>1
    <3> QED BY <3>2, <3>3
  <2> QED BY <2>6, <2>7
<1>8. ASSUME NEW c \in Client, NEW b \in Reuse, NewVertex(c, b) PROVE Quiet
  BY <1>8, NewVertexQuiet
<1> HIDE DEF Goal
<1>9. Goal(p)
  BY <1>0, <1>1, <1>2, <1>3, <1>4, <1>5, <1>6, <1>7, <1>8, Kinds, Zenon DEF Calm
<1> QED BY <1>9 DEF Goal

\* The counters never go back into their range.
LEMMA RangeStep ==
  ASSUME Types, [Next]_vars, InRange'
  PROVE  InRange
<1>1. transaction_id' >= transaction_id
  <2>1. transaction_id \in Nat
    BY Facts DEF Types
  <2> QED BY <2>1, IdsStep
<1>2. /\ sealed' >= sealed /\ sealed' \in Nat
      /\ sealed \in Nat /\ transaction_id \in Nat /\ transaction_id' \in Nat
  <2>1. transaction_id' \in Nat /\ sealed \in Nat /\ transaction_id \in Nat
    BY IdsStep, Facts DEF Types
  <2> QED BY <2>1, EpochsStep DEF Types
<1> QED BY <1>1, <1>2 DEF InRange, ROLLBACK_TOMBSTONE

LEMMA RangeInit == Init => RangeInv
<1> SUFFICES ASSUME Init PROVE RangeInv
  OBVIOUS
<1>1. DOMAIN block = 1 .. Loaded /\ \A p \in DOMAIN block : block[p].creation = 0 /\ block[p].prev = NULLPOINTER
  BY DEF Init, LoadedBlocks
<1> QED BY <1>1, OwnInit DEF RangeInv, LooseInv, OrderInv, OrderOf

LEMMA RangeInvStep == RangeInv /\ InRange' /\ [Next]_vars => RangeInv'
BY OwnStep, LooseStep, OrderStep DEF RangeInv

\* Versions are ordered from the newest to the oldest, as long as the counters of ids and epochs are
\* in range: for any clients on any threads, and also when ids are recycled.
THEOREM NewestFirst == Spec => [](InRange => VersionsNewestFirst)
<1> DEFINE I == OwnInv /\ (InRange => RangeInv)
<1>1. Init => I
  BY OwnInit, RangeInit
<1>2. I /\ [Next]_vars => I'
  BY OwnStep, RangeStep, RangeInvStep DEF OwnInv
<1>3. I => (InRange => VersionsNewestFirst)
  <2> SUFFICES ASSUME RangeInv, NEW v \in VertexId, NEW p \in Reach(vertex_ptrs[v]),
                      block[p].prev # NULLPOINTER, block[p].creation >= 0
               PROVE  /\ 0 <= block[block[p].prev].creation
                      /\ block[block[p].prev].creation <= block[p].creation
    BY DEF VersionsNewestFirst
  <2>1. p \in DOMAIN block
    BY DEF Reach
  <2>2. block[block[p].prev].creation \in 0 .. block[p].creation
    BY <2>1 DEF RangeInv, OrderInv, OrderOf
  <2>3. block[p].creation \in Int
    BY <2>1, Facts DEF RangeInv, OwnInv, Types
  <2> QED BY <2>2, <2>3
<1> QED BY <1>1, <1>2, <1>3, PTL DEF Spec

-----------------------------------------------------------------------------
(* When ids are used once: what the steps do to the versions of a vertex. *)

\* A step that changes no version but for a cut, no head and no writer.
Still ==
  /\ DOMAIN block' = DOMAIN block
  /\ \A p \in DOMAIN block :
       /\ block'[p].vid = block[p].vid /\ block'[p].creation = block[p].creation
       /\ block'[p].prev \in {block[p].prev, NULLPOINTER}
  /\ \A v \in VertexId : Live(v)' = Live(v)
  /\ \A v \in VertexId : v >= vertex_id' => v >= vertex_id
  /\ vertex_ptrs' = vertex_ptrs /\ committed' = committed
  /\ \A d \in Client :
       /\ Unstamped(d)' = Unstamped(d)
       /\ Unstamped(d) # {} =>
            /\ pc'[d] = "install" <=> pc[d] = "install"
            /\ pc[d] = "install" => grant'[d] = grant[d]
            /\ read_epoch_id'[d] = read_epoch_id[d] /\ vertex_ptr_cache'[d] = vertex_ptr_cache[d]

\* A write that adds version n of v.
Writes(c, v, n) ==
  /\ Adds(c, v, n) /\ ~Conflict(c, v)
  /\ pc[c] = "open" /\ c \notin ReadOnly /\ v < vertex_id
  /\ v \in acquired_locks[c] \/ vertex_futexes[v] = 0
  /\ Live(v)' = Live(v) \cup {n} /\ n \notin Live(v)
  /\ \A u \in VertexId \ {v} : Live(u)' = Live(u)
  /\ n \in Unstamped(c)' /\ Unstamped(c)' = Unstamped(c) \cup {n}
  /\ \A d \in Client \ {c} : Unstamped(d)' = Unstamped(d) /\ n \notin Unstamped(d)'
  /\ UNCHANGED <<pc, grant, read_epoch_id, vertex_ptrs, vertex_id, committed>>

Grants(G) ==
  /\ \A d \in Client : /\ pc'[d] = IF d \in G THEN "install" ELSE pc[d]
                       /\ grant'[d] = IF d \in G THEN sealed + 1 ELSE grant[d]
                       /\ d \in G => pc[d] = "registered"
                       /\ Unstamped(d)' = Unstamped(d)
  /\ committed' = committed \cup
       UNION {{[vid |-> v, ptr |-> vertex_ptr_cache[c][v], epoch |-> sealed + 1,
                read |-> read_epoch_id[c]] : v \in Versions(c)} : c \in G}
  /\ \A v \in VertexId : Live(v)' = Live(v)
  /\ UNCHANGED <<block, read_epoch_id, vertex_ptrs, vertex_ptr_cache, vertex_id>>

\* The head of v becomes m, the newest version of it that c has written.
Installs(c, v, m) ==
  /\ pc[c] = "install" /\ m = vertex_ptr_cache[c][v] /\ m # NULLPOINTER
  /\ vertex_ptrs'[v] = m /\ \A u \in VertexId \ {v} : vertex_ptrs'[u] = vertex_ptrs[u]
  /\ vertex_ptr_cache'[c][v] = NULLPOINTER
  /\ \A u \in VertexId \ {v} : vertex_ptr_cache'[c][u] = vertex_ptr_cache[c][u]
  /\ \A d \in Client \ {c} : vertex_ptr_cache'[d] = vertex_ptr_cache[d]
  /\ \A d \in Client : Unstamped(d)' = Unstamped(d)
  /\ \A u \in VertexId : Live(u)' = Live(u)
  /\ UNCHANGED <<block, pc, grant, read_epoch_id, vertex_id, committed>>

\* The oldest unstamped version of c gets its epoch.
StampsOne(c, p) ==
  /\ pc[c] = "install" /\ \A v \in VertexId : vertex_ptr_cache[c][v] = NULLPOINTER
  /\ p \in Unstamped(c) /\ \A q \in Unstamped(c) : p <= q
  /\ p \in DOMAIN block /\ DOMAIN block' = DOMAIN block
  /\ block[p].creation < 0 /\ block'[p].creation = grant[c]
  /\ \A q \in DOMAIN block :
       /\ block'[q].vid = block[q].vid /\ block'[q].prev = block[q].prev
       /\ q # p => block'[q].creation = block[q].creation
  /\ \A d \in Client : Unstamped(d)' = Unstamped(d) \ {p} /\ (d # c => p \notin Unstamped(d))
  /\ \A v \in VertexId : Live(v)' = Live(v)
  /\ UNCHANGED <<pc, grant, read_epoch_id, vertex_ptrs, vertex_ptr_cache, vertex_id, committed>>

\* The versions of c are gone.
Aborts(c) ==
  /\ pc[c] = "open" /\ pc' = [pc EXCEPT ![c] = "clean"]
  /\ DOMAIN block' = DOMAIN block
  /\ \A q \in DOMAIN block :
       /\ block'[q].vid = block[q].vid /\ block'[q].prev = block[q].prev
       /\ q \notin Unstamped(c) => block'[q].creation = block[q].creation
  /\ Unstamped(c)' = {}
  /\ \A d \in Client \ {c} : Unstamped(d)' = Unstamped(d) /\ Unstamped(d) \cap Unstamped(c) = {}
  /\ \A v \in VertexId : Live(v)' = Live(v) \ Unstamped(c)
  /\ UNCHANGED <<grant, read_epoch_id, vertex_ptrs, vertex_ptr_cache, vertex_id, committed>>

\* Live versions: what they and the invariants say of them.
LEMMA LiveFacts ==
  ASSUME OwnInv, InRange
  PROVE  /\ \A v \in VertexId : \A p \in Live(v) :
              /\ p \in DOMAIN block /\ block[p].vid = v /\ block[p].creation \in Int
              /\ block[p].creation <= sealed /\ p \in Nat /\ p > 0
         /\ \A c \in Client : \A p \in Unstamped(c) :
              /\ p \in DOMAIN block /\ block[p].vid \in VertexId /\ p \in Live(block[p].vid)
              /\ block[p].creation < 0 /\ p \in block_cache[c] /\ p \in Nat
              /\ pc[c] \in {"open", "walk", "registered", "install"} /\ c \notin ReadOnly
              /\ local_txn_id[c] > 0 /\ block[p].creation = -local_txn_id[c]
         /\ \A c \in Client : \A v \in VertexId :
              vertex_ptr_cache[c][v] # NULLPOINTER /\ pc[c] # "clean" =>
                /\ vertex_ptr_cache[c][v] \in Unstamped(c) /\ vertex_ptr_cache[c][v] \in Live(v)
                /\ \A p \in Unstamped(c) : block[p].vid = v => p <= vertex_ptr_cache[c][v]
<1>0. Types /\ ROLLBACK_TOMBSTONE \in Nat /\ ROLLBACK_TOMBSTONE > 0
  BY DEF OwnInv, ROLLBACK_TOMBSTONE
<1>1. ASSUME NEW v \in VertexId, NEW p \in Live(v)
      PROVE  /\ p \in DOMAIN block /\ block[p].vid = v /\ block[p].creation \in Int
             /\ block[p].creation <= sealed /\ p \in Nat /\ p > 0
  <2>1. /\ p \in DOMAIN block /\ block[p].vid = v /\ block[p].creation \in Int
        /\ block[p].creation \in Stamps /\ block[p].creation # ROLLBACK_TOMBSTONE
        /\ sealed \in Nat /\ transaction_id \in Nat /\ p \in Nat /\ p > 0
    BY <1>0, Facts DEF Live, Types
  <2> QED BY <2>1 DEF Stamps
<1>2. ASSUME NEW c \in Client, NEW p \in Unstamped(c)
      PROVE  /\ p \in DOMAIN block /\ block[p].vid \in VertexId /\ p \in Live(block[p].vid)
             /\ block[p].creation < 0 /\ p \in block_cache[c] /\ p \in Nat
             /\ pc[c] \in {"open", "walk", "registered", "install"} /\ c \notin ReadOnly
             /\ local_txn_id[c] > 0 /\ block[p].creation = -local_txn_id[c]
  <2>1. p \in block_cache[c] /\ pc[c] # "clean"
    BY DEF Unstamped
  <2>2. pc[c] \in {"open", "walk", "registered", "install"} /\ c \notin ReadOnly
    BY <2>1 DEF OwnInv, HoldsInv, HoldsOf
  <2>3. local_txn_id[c] > 0
    BY <1>0, <2>2 DEF Types, PlaceInv, PlaceOf, Active
  <2>4. block[p].creation = -local_txn_id[c]
    BY DEF OwnInv, CacheInv, CacheOf
  <2>5. p \in DOMAIN block /\ block[p].vid \in VertexId /\ local_txn_id[c] \in Nat /\ p \in Nat
    BY <1>0, <2>1, Facts DEF Types
  <2> QED BY <1>0, <2>1, <2>2, <2>3, <2>4, <2>5 DEF Live
<1>3. ASSUME NEW c \in Client, NEW v \in VertexId, vertex_ptr_cache[c][v] # NULLPOINTER, pc[c] # "clean"
      PROVE  /\ vertex_ptr_cache[c][v] \in Unstamped(c) /\ vertex_ptr_cache[c][v] \in Live(v)
             /\ \A p \in Unstamped(c) : block[p].vid = v => p <= vertex_ptr_cache[c][v]
  <2>1. /\ vertex_ptr_cache[c][v] \in block_cache[c] /\ block[vertex_ptr_cache[c][v]].vid = v
        /\ \A p \in block_cache[c] : block[p].vid = v => p <= vertex_ptr_cache[c][v]
    BY <1>3 DEF OwnInv, CacheInv, CacheOf
  <2>2. Unstamped(c) = block_cache[c]
    BY <1>3 DEF Unstamped
  <2> QED BY <1>2, <2>1, <2>2
<1> QED BY <1>1, <1>2, <1>3

\* A fresh id has no version yet, and a vertex is not reset.
LEMMA NewVertexStill ==
  ASSUME RangeInv, LockInv, HeadInv, IdsUsedOnce, InRange, NEW c \in Client, NEW b \in Reuse,
         NewVertex(c, b)
  PROVE  /\ UNCHANGED vertex_ptrs /\ vertex_id \in VertexId /\ vertex_id' = vertex_id + 1
         /\ recycled_vertex_cache' = recycled_vertex_cache
         /\ vertex_futexes' = [vertex_futexes EXCEPT ![vertex_id] = 0]
<1>1. recycled_vertex_cache[c] = <<>> /\ b = FALSE
  BY DEF LockInv, LockOf, IdsUsedOnce
<1>2. PICK v \in VertexId :
        /\ v = vertex_id /\ vertex_id' = vertex_id + 1 /\ UNCHANGED recycled_vertex_cache
        /\ vertex_futexes' = [vertex_futexes EXCEPT ![v] = 0]
        /\ vertex_ptrs' = [vertex_ptrs EXCEPT ![v] = NULLPOINTER]
  BY <1>1 DEF NewVertex
<1>3. vertex_ptrs[v] = NULLPOINTER
  <2>1. v \in Nat
    BY Facts DEF RangeInv, OwnInv, Types
  <2> QED BY <1>2, <2>1 DEF HeadInv, HeadOf
<1>4. vertex_ptrs' = vertex_ptrs
  BY <1>2, <1>3 DEF RangeInv, OwnInv, Types, TypeOK
<1> QED BY <1>2, <1>4

LEMMA Effects ==
  ASSUME RangeInv, LockInv, HeadInv, IdsUsedOnce, InRange, InRange', [Next]_vars
  PROVE  \/ Still
         \/ \E c \in Client, v \in VertexId, n \in Nat : Writes(c, v, n)
         \/ \E G \in SUBSET Client : RegisterGroup(G) /\ Grants(G)
         \/ \E c \in Client, v \in VertexId, m \in Nat : Installs(c, v, m)
         \/ \E c \in Client, p \in Nat : StampsOne(c, p)
         \/ \E c \in Client : Aborts(c)
<1>0. /\ OwnInv /\ Types /\ HoldsInv /\ ApartInv
      /\ DOMAIN pc = Client /\ DOMAIN block_cache = Client /\ DOMAIN vertex_ptr_cache = Client
      /\ \A d \in Client : DOMAIN vertex_ptr_cache[d] = VertexId
      /\ DOMAIN vertex_ptrs = VertexId
      /\ ROLLBACK_TOMBSTONE \in Nat /\ ROLLBACK_TOMBSTONE > 0
      /\ \A d \in Client : Unstamped(d) \subseteq DOMAIN block
      /\ sealed \in Nat /\ \A d \in Client : grant[d] \in Nat /\ grant[d] <= sealed
      /\ \A v \in VertexId : v \in Nat
  <2>1. OwnInv /\ Types
    BY DEF RangeInv, OwnInv
  <2>2. \A d \in Client : Unstamped(d) \subseteq DOMAIN block
    BY <2>1, LiveFacts
  <2>3. sealed \in Nat /\ \A d \in Client : grant[d] \in Nat /\ grant[d] <= sealed
    BY <2>1, Facts DEF Types
  <2>4. \A v \in VertexId : v \in Nat
    BY <2>1, Facts DEF Types
  <2>5. HoldsInv /\ ApartInv /\ ROLLBACK_TOMBSTONE \in Nat /\ ROLLBACK_TOMBSTONE > 0
    BY <2>1 DEF OwnInv, ROLLBACK_TOMBSTONE
  <2>6. /\ DOMAIN pc = Client /\ DOMAIN block_cache = Client /\ DOMAIN vertex_ptr_cache = Client
        /\ \A d \in Client : DOMAIN vertex_ptr_cache[d] = VertexId
        /\ DOMAIN vertex_ptrs = VertexId
    BY <2>1 DEF Types, TypeOK
  <2> QED BY <2>1, <2>2, <2>3, <2>4, <2>5, <2>6
<1>l. ASSUME DOMAIN block' = DOMAIN block,
             \A p \in DOMAIN block : block'[p].vid = block[p].vid /\ block'[p].creation = block[p].creation
      PROVE  \A v \in VertexId : Live(v)' = Live(v)
  BY <1>l DEF Live
<1>1. ASSUME Quiet, UNCHANGED vertex_ptrs, \A v \in VertexId : v >= vertex_id' => v >= vertex_id
      PROVE  Still
  <2>1. \A v \in VertexId : Live(v)' = Live(v)
    BY <1>1, <1>l DEF Quiet
  <2>2. \A d \in Client : Unstamped(d)' = Unstamped(d)
    BY <1>1 DEF Quiet, Unstamped
  <2>3. ASSUME NEW d \in Client, Unstamped(d) # {}
        PROVE  /\ pc'[d] = "install" <=> pc[d] = "install"
               /\ pc[d] = "install" => grant'[d] = grant[d]
               /\ read_epoch_id'[d] = read_epoch_id[d] /\ vertex_ptr_cache'[d] = vertex_ptr_cache[d]
    <3>1. block_cache[d] # {}
      BY <2>3 DEF Unstamped
    <3> QED BY <1>1, <3>1 DEF Quiet
  <2> QED BY <1>1, <2>1, <2>2, <2>3 DEF Still, Quiet
<1>2. ASSUME NEW c \in Client, NEW v \in VertexId, Write(c, v)
      PROVE  Still \/ \E n \in Nat : Writes(c, v, n)
  <2>0. /\ UNCHANGED <<pc, transaction_id, epochsVars, grant, read_epoch_id, vertex_ptrs, vertex_id, committed>>
        /\ pc[c] = "open" /\ c \notin ReadOnly /\ v < vertex_id
        /\ v \in acquired_locks[c] \/ vertex_futexes[v] = 0
    BY <1>2 DEF Write, begins, epochsVars, history, LockVertex
  <2>1. CASE NoVersion
    <3>1. UNCHANGED <<block, block_cache, vertex_ptr_cache>>
      BY <2>1 DEF NoVersion
    <3>2. \A d \in Client : Unstamped(d)' = Unstamped(d)
      BY <2>0, <3>1 DEF Unstamped
    <3>3. \A u \in VertexId : Live(u)' = Live(u)
      BY <1>l, <3>1
    <3> QED BY <2>0, <3>1, <3>2, <3>3 DEF Still
  <2>2. ASSUME NEW dead \in BOOLEAN, AddVersion(c, v, dead), ~Conflict(c, v)
        PROVE  \E n \in Nat : Writes(c, v, n)
    <3>0. PICK n \in Nat : Adds(c, v, n)
      BY <1>0, <2>0, <2>2, Added, Zenon
    <3>1. /\ block_cache'[c] = block_cache[c] \cup {n}
          /\ \A e \in Client \ {c} : block_cache'[e] = block_cache[e]
          /\ DOMAIN block' = DOMAIN block \cup {n} /\ n \notin DOMAIN block
          /\ \A q \in DOMAIN block : block'[q] = block[q]
          /\ block'[n].vid = v /\ block'[n].creation = -local_txn_id[c]
          /\ local_txn_id[c] \in Nat /\ local_txn_id[c] > 0
      BY <3>0 DEF Adds
    <3>2. /\ n \in Unstamped(c)' /\ Unstamped(c)' = Unstamped(c) \cup {n}
          /\ \A d \in Client \ {c} : Unstamped(d)' = Unstamped(d) /\ n \notin Unstamped(d)'
      BY <1>0, <2>0, <3>1 DEF Unstamped
    <3>3. Live(v)' = Live(v) \cup {n} /\ n \notin Live(v)
      BY <1>0, <3>1 DEF Live
    <3>4. \A u \in VertexId \ {v} : Live(u)' = Live(u)
      BY <1>0, <3>1 DEF Live
    <3>5. Writes(c, v, n)
      BY <2>0, <2>2, <3>0, <3>2, <3>3, <3>4 DEF Writes
    <3> QED BY <3>5
  <2> QED BY <1>2, <2>1, <2>2 DEF Write
<1>3. ASSUME NEW G \in SUBSET Client, RegisterGroup(G) PROVE Grants(G)
  <2>1. /\ UNCHANGED <<block, block_cache, read_epoch_id, vertex_ptrs, vertex_ptr_cache, vertex_id>>
        /\ \A d \in Client : pc'[d] = IF d \in G THEN "install" ELSE pc[d]
        /\ \A d \in Client : d \in G => pc[d] = "registered"
        /\ \A d \in Client : grant'[d] = IF d \in G THEN sealed + 1 ELSE grant[d]
    BY <1>0, <1>3 DEF RegisterGroup, Grant, Queued, Types, PlaceInv, PlaceOf, txn, caches, blocks,
                      vertices, ids
  <2>2. \A d \in Client : Unstamped(d)' = Unstamped(d)
    BY <2>1 DEF Unstamped
  <2>3. \A v \in VertexId : Live(v)' = Live(v)
    BY <1>l, <2>1
  <2>4. committed' = committed \cup
          UNION {{[vid |-> v, ptr |-> vertex_ptr_cache[c][v], epoch |-> sealed + 1,
                   read |-> read_epoch_id[c]] : v \in Versions(c)} : c \in G}
    BY <1>3 DEF RegisterGroup
  <2> QED BY <2>1, <2>2, <2>3, <2>4 DEF Grants
<1>4. ASSUME NEW c \in Client, NEW v \in VertexId, Install(c, v)
      PROVE  \E m \in Nat : Installs(c, v, m)
  <2>1. /\ pc[c] = "install" /\ vertex_ptr_cache[c][v] # NULLPOINTER
        /\ vertex_ptrs' = [vertex_ptrs EXCEPT ![v] = vertex_ptr_cache[c][v]]
        /\ vertex_ptr_cache' = [vertex_ptr_cache EXCEPT ![c][v] = NULLPOINTER]
        /\ UNCHANGED <<block, block_cache, pc, grant, read_epoch_id, vertex_id, committed>>
    BY <1>4 DEF Install, Versions, blocks, epochsVars, ids, history
  <2>2. \A d \in Client : Unstamped(d)' = Unstamped(d)
    BY <2>1 DEF Unstamped
  <2>3. \A u \in VertexId : Live(u)' = Live(u)
    BY <1>l, <2>1
  <2>4. PICK m \in Nat : m = vertex_ptr_cache[c][v]
    BY <1>0, Facts DEF Types
  <2>5. Installs(c, v, m)
    BY <1>0, <2>1, <2>2, <2>3, <2>4 DEF Installs
  <2> QED BY <2>5
<1>5. ASSUME NEW c \in Client, NEW v \in VertexId, Unlock(c, v) PROVE Still
  <2>1. UNCHANGED <<block, block_cache, pc, grant, read_epoch_id, vertex_id, committed, vertex_ptrs,
                    vertex_ptr_cache>>
    BY <1>5 DEF Unlock, blocks, epochsVars, ids, history
  <2>2. \A d \in Client : Unstamped(d)' = Unstamped(d)
    BY <2>1 DEF Unstamped
  <2>3. \A u \in VertexId : Live(u)' = Live(u)
    BY <1>l, <2>1
  <2> QED BY <2>1, <2>2, <2>3 DEF Still
<1>6. ASSUME NEW c \in Client, NEW v \in VertexId, CompactVertex(c, v) PROVE Still
  <2>1. /\ DOMAIN block' = DOMAIN block
        /\ \A q \in DOMAIN block :
              /\ block'[q].vid = block[q].vid /\ block'[q].creation = block[q].creation
              /\ block'[q].prev = IF q \in Cuts(v, compacting[c].bound)
                                    THEN NULLPOINTER ELSE block[q].prev
        /\ UNCHANGED <<epochsVars, ids, vertices, pc, txn, history>>
    BY <1>0, <1>6, CompactEffect
  <2>2. UNCHANGED <<block_cache, pc, grant, read_epoch_id, vertex_id, committed, vertex_ptrs,
                    vertex_ptr_cache>>
    BY <2>1 DEF epochsVars, ids, vertices, txn, caches, history
  <2>3. \A d \in Client : Unstamped(d)' = Unstamped(d)
    BY <2>2 DEF Unstamped
  <2>4. \A u \in VertexId : Live(u)' = Live(u)
    BY <1>l, <2>1
  <2> QED BY <2>1, <2>2, <2>3, <2>4 DEF Still
<1>7. ASSUME NEW c \in Client, Stamp(c) PROVE \E p \in Nat : StampsOne(c, p)
  <2>1. PICK p \in block_cache[c] :
           /\ pc[c] = "install" /\ \A v \in VertexId : vertex_ptr_cache[c][v] = NULLPOINTER
           /\ \A q \in block_cache[c] : p <= q
           /\ p \in DOMAIN block /\ DOMAIN block' = DOMAIN block
           /\ \A q \in DOMAIN block : block'[q].vid = block[q].vid /\ block'[q].prev = block[q].prev
           /\ \A q \in DOMAIN block : q # p => block'[q].creation = block[q].creation
           /\ block'[p].creation = grant[c]
           /\ block_cache'[c] = block_cache[c] \ {p}
           /\ \A d \in Client \ {c} : block_cache'[d] = block_cache[d]
           /\ UNCHANGED <<epochsVars, ids, vertices, pc, read_epoch_id, vertex_ptr_cache, history>>
    BY <1>0, <1>7, StampEffect
  <2>2. /\ p \in Unstamped(c) /\ \A q \in Unstamped(c) : p <= q
        /\ block[p].creation < 0 /\ p \in Nat
    <3>1. Unstamped(c) = block_cache[c]
      BY <2>1 DEF Unstamped
    <3> QED BY <1>0, <2>1, <3>1, LiveFacts
  <2>3. \A d \in Client : Unstamped(d)' = Unstamped(d) \ {p} /\ (d # c => p \notin Unstamped(d))
    BY <1>0, <2>1, <2>2 DEF Unstamped, ApartInv
  <2>4. \A v \in VertexId : Live(v)' = Live(v)
    <3>1. block[p].creation # ROLLBACK_TOMBSTONE /\ block'[p].creation # ROLLBACK_TOMBSTONE
      BY <1>0, <2>1, <2>2 DEF InRange
    <3>2. \A q \in DOMAIN block :
            block'[q].creation = ROLLBACK_TOMBSTONE <=> block[q].creation = ROLLBACK_TOMBSTONE
      BY <2>1, <3>1
    <3> QED BY <2>1, <3>2 DEF Live
  <2>5. UNCHANGED <<pc, grant, read_epoch_id, vertex_ptrs, vertex_ptr_cache, vertex_id, committed>>
    BY <2>1 DEF epochsVars, ids, vertices, history
  <2>6. StampsOne(c, p)
    BY <2>1, <2>2, <2>3, <2>4, <2>5 DEF StampsOne
  <2> QED BY <2>2, <2>6
<1>8. ASSUME NEW c \in Client, Stamped(c) \/ Leave(c) PROVE Still
  <2>1. /\ UNCHANGED <<block, grant, read_epoch_id, vertex_id, vertex_ptrs, committed>>
        /\ \A d \in Client \ {c} : /\ pc'[d] = pc[d] /\ block_cache'[d] = block_cache[d]
                                   /\ vertex_ptr_cache'[d] = vertex_ptr_cache[d]
        /\ Unstamped(c) = {} /\ Unstamped(c)' = {}
    <3>1. CASE Stamped(c)
      BY <1>0, <3>1 DEF Stamped, Goto, txn, caches, blocks, Unstamped, epochsVars, ids, vertices, history
    <3>2. CASE Leave(c)
      BY <1>0, <3>2 DEF Leave, Goto, blocks, Unstamped, epochsVars, ids, vertices, history
    <3> QED BY <1>8, <3>1, <3>2
  <2>2. \A d \in Client : Unstamped(d)' = Unstamped(d)
    BY <2>1 DEF Unstamped
  <2>3. \A u \in VertexId : Live(u)' = Live(u)
    BY <1>l, <2>1
  <2>4. ASSUME NEW d \in Client, Unstamped(d) # {}
        PROVE  pc'[d] = pc[d] /\ vertex_ptr_cache'[d] = vertex_ptr_cache[d]
    BY <2>1, <2>4
  <2> QED BY <2>1, <2>2, <2>3, <2>4 DEF Still
<1>9. ASSUME NEW c \in Client, Abort(c) PROVE Aborts(c)
  <2>1. /\ pc[c] = "open" /\ pc' = [pc EXCEPT ![c] = "clean"]
        /\ DOMAIN block' = DOMAIN block
        /\ \A q \in DOMAIN block : block'[q].vid = block[q].vid /\ block'[q].prev = block[q].prev
        /\ \A q \in block_cache[c] : block'[q].creation = ROLLBACK_TOMBSTONE
        /\ \A q \in DOMAIN block : q \notin block_cache[c] => block'[q].creation = block[q].creation
        /\ UNCHANGED <<epochsVars, vertex_id, vertices, read_epoch_id, caches, history>>
    BY <1>0, <1>9, AbortEffect
  <2>2. UNCHANGED <<grant, read_epoch_id, vertex_ptrs, vertex_ptr_cache, vertex_id, committed, block_cache>>
    BY <2>1 DEF epochsVars, vertices, caches, history
  <2>3. /\ Unstamped(c) = block_cache[c] /\ Unstamped(c)' = {}
        /\ \A d \in Client \ {c} : Unstamped(d)' = Unstamped(d) /\ Unstamped(d) \cap Unstamped(c) = {}
    BY <1>0, <2>1, <2>2 DEF Unstamped, ApartInv
  <2>4. \A v \in VertexId : Live(v)' = Live(v) \ Unstamped(c)
    BY <2>1, <2>3 DEF Live
  <2> QED BY <2>1, <2>2, <2>3, <2>4 DEF Aborts
<1>10. ASSUME NEW c \in Client, NEW b \in Reuse, NewVertex(c, b) PROVE Still
  <2>1. UNCHANGED vertex_ptrs /\ vertex_id \in VertexId /\ vertex_id' = vertex_id + 1
    BY <1>10, NewVertexStill
  <2>2. \A v \in VertexId : v >= vertex_id' => v >= vertex_id
    BY <1>0, <2>1
  <2>3. Quiet
    BY <1>10, NewVertexQuiet
  <2> QED BY <1>1, <2>1, <2>2, <2>3
<1>11. Calm => Still
  BY <1>1 DEF Calm
<1> QED BY <1>0, <1>2, <1>3, <1>4, <1>5, <1>6, <1>7, <1>8, <1>9, <1>10, <1>11, Kinds, Zenon

-----------------------------------------------------------------------------
(* When ids are used once: locks. *)

LEMMA RecycledStep ==
  ASSUME Types, IdsUsedOnce, \A c \in Client : recycled_vertex_cache[c] = <<>>, [Next]_vars
  PROVE  \A c \in Client : recycled_vertex_cache'[c] = <<>>
<1>0. DOMAIN recycled_vertex_cache = Client
  BY DEF Types, TypeOK
<1> USE DEF txn, caches
<1>1. ASSUME NEW c \in Client, Step(c) PROVE \A d \in Client : recycled_vertex_cache'[d] = <<>>
  BY <1>0, <1>1 DEF Step, BeginLoad, BeginPublish, WalkOn, Return, Commit, Abort,
                PushRecycled, Stamp, StampAt, Stamped, Leave, Spin, Compact, Scanned, Compacted
<1>2. ASSUME NEW c \in Client, NEW v \in VertexId, StepAt(c, v) PROVE UNCHANGED recycled_vertex_cache
  BY <1>2 DEF StepAt, GetVertex, PutVertex, Install, Unlock, CompactVertex, CompactSkip
<1>3. ASSUME NEW c \in Client, NEW v \in VertexId, NEW b \in Recycle, DelVertex(c, v, b)
      PROVE  UNCHANGED recycled_vertex_cache
  <2>1. b = FALSE
    BY DEF IdsUsedOnce
  <2> QED BY <1>3, <2>1 DEF DelVertex
<1>4. ASSUME NEW c \in Client, NEW b \in Reuse, NewVertex(c, b) PROVE UNCHANGED recycled_vertex_cache
  BY <1>4 DEF NewVertex, IdsUsedOnce
<1>5. ASSUME NEW c, NEW b, NEW t, FinishCommit(c, b) \/ ScanThread(c, t) \/ RegisterGroup(b) \/ Publish
      PROVE  UNCHANGED recycled_vertex_cache
  BY <1>5 DEF FinishCommit, ScanThread, ScanWith, RegisterGroup, Publish
<1>6. ASSUME UNCHANGED vars PROVE UNCHANGED recycled_vertex_cache
  BY <1>6 DEF vars
<1> HIDE DEF txn, caches
<1>7. UNCHANGED recycled_vertex_cache => \A d \in Client : recycled_vertex_cache'[d] = <<>>
  OBVIOUS
<1> QED BY <1>1, <1>2, <1>3, <1>4, <1>5, <1>6, <1>7, Steps, Zenon

LEMMA LockStep ==
  ASSUME RangeInv, LockInv, HeadInv, IdsUsedOnce, InRange, [Next]_vars
  PROVE  LockInv'
<1>0. /\ OwnInv /\ Types /\ HoldsInv
      /\ DOMAIN pc = Client /\ DOMAIN block_cache = Client /\ DOMAIN acquired_locks = Client
      /\ DOMAIN vertex_futexes = VertexId
      /\ \A d \in Client : Unstamped(d) \subseteq DOMAIN block
      /\ \A d \in Client : acquired_locks[d] \subseteq VertexId
      /\ \A v \in VertexId : v \in Nat
      /\ vertex_id \in Nat
  <2>1. OwnInv /\ Types
    BY DEF RangeInv, OwnInv
  <2>2. \A d \in Client : Unstamped(d) \subseteq DOMAIN block
    BY <2>1, LiveFacts
  <2>3. \A v \in VertexId : v \in Nat
    BY <2>1, Facts DEF Types
  <2>4. HoldsInv
    BY <2>1 DEF OwnInv
  <2>5. /\ DOMAIN pc = Client /\ DOMAIN block_cache = Client /\ DOMAIN acquired_locks = Client
        /\ DOMAIN vertex_futexes = VertexId /\ vertex_id \in Nat
        /\ \A d \in Client : acquired_locks[d] \subseteq VertexId
    BY <2>1, BoundsAssumption DEF Types, TypeOK
  <2> QED BY <2>1, <2>2, <2>3, <2>4, <2>5
<1>i. \A d \in Client :
        /\ \A v \in acquired_locks[d] : v < vertex_id /\ vertex_futexes[v] = 1
        /\ \A e \in Client \ {d} : acquired_locks[d] \cap acquired_locks[e] = {}
        /\ \A p \in Unstamped(d) : block[p].vid \in acquired_locks[d]
  BY DEF LockInv, LockOf
<1> DEFINE Locks(d) ==
             /\ \A v \in acquired_locks'[d] : v < vertex_id' /\ vertex_futexes'[v] = 1
             /\ \A e \in Client \ {d} : acquired_locks'[d] \cap acquired_locks'[e] = {}
             /\ \A p \in Unstamped(d)' : block'[p].vid \in acquired_locks'[d]
<1>f. ASSUME UNCHANGED <<acquired_locks, vertex_futexes, vertex_id>>, NEW d \in Client,
             Unstamped(d)' \subseteq Unstamped(d),
             \A p \in DOMAIN block : block'[p].vid = block[p].vid
      PROVE  Locks(d)
  <2>1. \A p \in Unstamped(d)' : block'[p].vid \in acquired_locks'[d]
    BY <1>0, <1>i, <1>f
  <2> QED BY <1>i, <1>f, <2>1
<1>1. ASSUME Calm, NEW d \in Client PROVE Locks(d)
  BY <1>f, <1>1 DEF Calm, Quiet, Unstamped
<1>2. ASSUME NEW c \in Client, NEW b \in Reuse, NewVertex(c, b), NEW d \in Client PROVE Locks(d)
  <2>1. /\ vertex_id \in VertexId /\ vertex_id' = vertex_id + 1
        /\ vertex_futexes' = [vertex_futexes EXCEPT ![vertex_id] = 0]
    BY <1>2, NewVertexStill
  <2>2. UNCHANGED <<block, block_cache, pc, acquired_locks>>
    BY <1>2 DEF NewVertex, blocks
  <2>3. Unstamped(d)' = Unstamped(d)
    BY <2>2 DEF Unstamped
  <2>4. ASSUME NEW v \in acquired_locks[d] PROVE v < vertex_id' /\ vertex_futexes'[v] = 1
    <3>1. v \in VertexId /\ v \in Nat /\ v < vertex_id /\ vertex_futexes[v] = 1
      BY <1>0, <1>i
    <3>2. v # vertex_id /\ v < vertex_id'
      BY <1>0, <2>1, <3>1
    <3>3. vertex_futexes'[v] = vertex_futexes[v]
      BY <1>0, <2>1, <3>1, <3>2
    <3> QED BY <3>1, <3>2, <3>3
  <2> QED BY <1>i, <2>2, <2>3, <2>4
<1>3. ASSUME NEW c \in Client, NEW v \in VertexId, Write(c, v), NEW d \in Client PROVE Locks(d)
  <2>0. /\ UNCHANGED <<pc, transaction_id, epochsVars, vertex_id>>
        /\ pc[c] = "open" /\ c \notin ReadOnly /\ v < vertex_id
        /\ v \in acquired_locks[c] \/ vertex_futexes[v] = 0
        /\ vertex_futexes' = [vertex_futexes EXCEPT ![v] = 1]
        /\ acquired_locks' = [acquired_locks EXCEPT ![c] = acquired_locks[c] \cup {v}]
    <3>1. v \in acquired_locks[c] => vertex_futexes[v] = 1
      BY <1>i
    <3>2. vertex_futexes' = [vertex_futexes EXCEPT ![v] = 1]
      BY <1>0, <1>3, <3>1 DEF Write, LockVertex
    <3> QED BY <1>3, <3>2 DEF Write, begins, LockVertex
  <2>1. \A e \in Client : acquired_locks'[e] = IF e = c THEN acquired_locks[c] \cup {v} ELSE acquired_locks[e]
    BY <1>0, <2>0
  <2>2. \A e \in Client \ {c} : v \notin acquired_locks[e]
    BY <1>i, <2>0
  <2>3. \A u \in acquired_locks'[d] : u < vertex_id' /\ vertex_futexes'[u] = 1
    BY <1>0, <1>i, <2>0, <2>1
  <2>4. \A e \in Client \ {d} : acquired_locks'[d] \cap acquired_locks'[e] = {}
    BY <1>i, <2>1, <2>2
  <2>5. \A p \in Unstamped(d)' : block'[p].vid \in acquired_locks'[d]
    <3>1. CASE NoVersion
      <4>1. UNCHANGED <<block, block_cache>> /\ Unstamped(d)' = Unstamped(d)
        BY <2>0, <3>1 DEF NoVersion, Unstamped
      <4> QED BY <1>i, <2>1, <4>1
    <3>2. ASSUME NEW dead \in BOOLEAN, AddVersion(c, v, dead)
          PROVE  \A p \in Unstamped(d)' : block'[p].vid \in acquired_locks'[d]
      <4>0. PICK n \in Nat : Adds(c, v, n)
        BY <1>0, <2>0, <3>2, Added, Zenon
      <4>1. /\ block_cache'[c] = block_cache[c] \cup {n}
            /\ \A e \in Client \ {c} : block_cache'[e] = block_cache[e]
            /\ \A q \in DOMAIN block : block'[q] = block[q]
            /\ block'[n].vid = v
        BY <4>0 DEF Adds
      <4>2. \A p \in Unstamped(d)' : p \in Unstamped(d) \/ (d = c /\ p = n)
        BY <2>0, <4>1 DEF Unstamped
      <4> QED BY <1>0, <1>i, <2>1, <4>1, <4>2
    <3> QED BY <1>3, <3>1, <3>2 DEF Write
  <2> QED BY <2>3, <2>4, <2>5
<1>4. ASSUME NEW G \in SUBSET Client, RegisterGroup(G), NEW d \in Client PROVE Locks(d)
  <2>1. /\ UNCHANGED <<block, block_cache, acquired_locks, vertex_futexes, vertex_id>>
        /\ pc'[d] = IF d \in G THEN "install" ELSE pc[d]
        /\ d \in G => pc[d] = "registered"
    BY <1>0, <1>4 DEF RegisterGroup, Grant, Queued, Types, PlaceInv, PlaceOf, txn, caches, blocks,
                      vertices, ids
  <2>2. Unstamped(d)' = Unstamped(d)
    BY <2>1 DEF Unstamped
  <2> QED BY <1>f, <2>1, <2>2
<1>5. ASSUME NEW c \in Client, NEW v \in VertexId, Install(c, v) \/ CompactVertex(c, v), NEW d \in Client
      PROVE  Locks(d)
  <2>1. UNCHANGED <<block_cache, pc, acquired_locks, vertex_futexes, vertex_id>>
    BY <1>5 DEF Install, CompactVertex, txn, caches, ids, vertices
  <2>2. \A p \in DOMAIN block : block'[p].vid = block[p].vid
    <3>1. CASE Install(c, v)
      BY <3>1 DEF Install, blocks
    <3>2. CASE CompactVertex(c, v)
      BY <1>0, <3>2, CompactEffect
    <3> QED BY <1>5, <3>1, <3>2
  <2>3. Unstamped(d)' = Unstamped(d)
    BY <2>1 DEF Unstamped
  <2> QED BY <1>f, <2>1, <2>2, <2>3
<1>6. ASSUME NEW c \in Client, NEW v \in VertexId, Unlock(c, v), NEW d \in Client PROVE Locks(d)
  <2>1. /\ pc[c] = "clean" /\ v \in acquired_locks[c]
        /\ vertex_futexes' = [vertex_futexes EXCEPT ![v] = 0]
        /\ acquired_locks' = [acquired_locks EXCEPT ![c] = acquired_locks[c] \ {v}]
        /\ UNCHANGED <<block, block_cache, pc, vertex_id>>
    BY <1>6 DEF Unlock, blocks, ids
  <2>2. \A e \in Client : Unstamped(e)' = Unstamped(e)
    BY <2>1 DEF Unstamped
  <2>3. \A e \in Client : acquired_locks'[e] = IF e = c THEN acquired_locks[c] \ {v} ELSE acquired_locks[e]
    BY <1>0, <2>1
  <2>4. \A e \in Client \ {c} : v \notin acquired_locks[e]
    BY <1>i, <2>1
  <2>5. \A u \in acquired_locks'[d] : u < vertex_id' /\ vertex_futexes'[u] = 1
    BY <1>0, <1>i, <2>1, <2>3, <2>4
  <2>6. \A e \in Client \ {d} : acquired_locks'[d] \cap acquired_locks'[e] = {}
    BY <1>i, <2>3
  <2>7. \A p \in Unstamped(d)' : block'[p].vid \in acquired_locks'[d]
    <3>1. CASE d = c
      BY <2>1, <3>1 DEF Unstamped
    <3>2. CASE d # c
      BY <1>i, <2>1, <2>2, <2>3, <3>2
    <3> QED BY <3>1, <3>2
  <2> QED BY <2>5, <2>6, <2>7
<1>7. ASSUME NEW c \in Client, Stamp(c) \/ Stamped(c) \/ Abort(c) \/ Leave(c), NEW d \in Client
      PROVE  Locks(d)
  <2>1. UNCHANGED <<acquired_locks, vertex_futexes, vertex_id>>
    BY <1>7 DEF Stamp, StampAt, Stamped, Abort, Leave, txn, caches, ids, vertices
  <2>2. \A p \in DOMAIN block : block'[p].vid = block[p].vid
    <3>1. CASE Stamp(c)
      BY <1>0, <3>1, StampEffect
    <3>2. CASE Abort(c)
      BY <1>0, <3>2, AbortEffect
    <3>3. CASE Stamped(c) \/ Leave(c)
      BY <3>3 DEF Stamped, Leave, blocks
    <3> QED BY <1>7, <3>1, <3>2, <3>3
  <2>3. Unstamped(d)' \subseteq Unstamped(d)
    <3>1. CASE Stamp(c)
      <4>1. UNCHANGED pc /\ \E p : block_cache' = [block_cache EXCEPT ![c] = block_cache[c] \ {p}]
        BY <3>1 DEF Stamp, StampAt
      <4> QED BY <1>0, <4>1 DEF Unstamped
    <3>2. CASE Stamped(c) \/ Abort(c)
      <4>1. UNCHANGED block_cache /\ pc' = [pc EXCEPT ![c] = "clean"]
        BY <3>2 DEF Stamped, Abort, Goto, txn, caches
      <4> QED BY <1>0, <4>1 DEF Unstamped
    <3>3. CASE Leave(c)
      <4>1. block_cache' = [block_cache EXCEPT ![c] = {}] /\ \A e \in Client \ {c} : pc'[e] = pc[e]
        BY <1>0, <3>3 DEF Leave, Goto
      <4> QED BY <1>0, <4>1 DEF Unstamped
    <3> QED BY <1>7, <3>1, <3>2, <3>3
  <2> QED BY <1>f, <2>1, <2>2, <2>3
<1> HIDE DEF Locks
<1>8. \A d \in Client : Locks(d)
  BY <1>0, <1>1, <1>2, <1>3, <1>4, <1>5, <1>6, <1>7, Kinds, Zenon
<1>9. \A d \in Client : recycled_vertex_cache'[d] = <<>>
  BY <1>0, RecycledStep DEF LockInv, LockOf
<1> QED BY <1>8, <1>9 DEF LockInv, LockOf, Locks

\* Nobody else is writing a vertex whose lock a client has, or which is unlocked.
LEMMA SoleWriter ==
  ASSUME LockInv, NEW c \in Client, NEW v, v \in acquired_locks[c] \/ vertex_futexes[v] = 0,
         NEW d \in Client, d # c, NEW p \in Unstamped(d)
  PROVE  block[p].vid # v
BY DEF LockInv, LockOf

-----------------------------------------------------------------------------
(* When ids are used once: the order of the live versions of a vertex. *)

LEMMA StampsStep ==
  ASSUME RangeInv, LockInv, StampsInv, HeadInv, IdsUsedOnce, InRange, InRange', [Next]_vars
  PROVE  StampsInv'
<1> SUFFICES ASSUME NEW v \in VertexId, NEW p \in Live(v)', NEW q \in Live(v)', p < q
             PROVE  /\ \A c \in Client : p \in Unstamped(c)' => q \in Unstamped(c)'
                    /\ block'[p].creation >= 0 /\ block'[q].creation >= 0 =>
                         block'[p].creation <= block'[q].creation
                    /\ \A c \in Client : block'[p].creation >= 0 /\ pc'[c] = "install" /\ q \in Unstamped(c)' =>
                         block'[p].creation <= grant'[c]
  BY DEF StampsInv, StampsOf
<1> DEFINE Goal == /\ \A c \in Client : p \in Unstamped(c)' => q \in Unstamped(c)'
                   /\ block'[p].creation >= 0 /\ block'[q].creation >= 0 =>
                        block'[p].creation <= block'[q].creation
                   /\ \A c \in Client : block'[p].creation >= 0 /\ pc'[c] = "install" /\ q \in Unstamped(c)' =>
                        block'[p].creation <= grant'[c]
<1>0. /\ OwnInv /\ DOMAIN pc = Client
      /\ sealed \in Nat /\ \A d \in Client : grant[d] \in Nat /\ grant[d] <= sealed
  BY Facts DEF RangeInv, OwnInv, Types, TypeOK
<1>l. \A u \in VertexId : \A r \in Live(u) :
        /\ r \in DOMAIN block /\ block[r].vid = u /\ block[r].creation \in Int
        /\ block[r].creation <= sealed /\ r \in Nat
  BY <1>0, LiveFacts
<1>u. \A c \in Client : \A r \in Unstamped(c) :
        /\ r \in DOMAIN block /\ block[r].creation < 0 /\ r \in Nat
        /\ block[r].vid \in VertexId /\ r \in Live(block[r].vid)
  BY <1>0, LiveFacts
<1>i. p \in Live(v) /\ q \in Live(v) =>
        /\ \A c \in Client : p \in Unstamped(c) => q \in Unstamped(c)
        /\ block[p].creation >= 0 /\ block[q].creation >= 0 => block[p].creation <= block[q].creation
        /\ \A c \in Client : block[p].creation >= 0 /\ pc[c] = "install" /\ q \in Unstamped(c) =>
             block[p].creation <= grant[c]
  BY DEF StampsInv, StampsOf
<1>1. ASSUME Still PROVE Goal
  <2>1. p \in Live(v) /\ q \in Live(v)
    BY <1>1 DEF Still
  <2>2. block'[p].creation = block[p].creation /\ block'[q].creation = block[q].creation
    BY <1>l, <1>1, <2>1 DEF Still
  <2>3. \A c \in Client : Unstamped(c)' = Unstamped(c)
    BY <1>1 DEF Still
  <2>4. ASSUME NEW c \in Client, pc'[c] = "install", q \in Unstamped(c)
        PROVE  pc[c] = "install" /\ grant'[c] = grant[c]
    BY <1>1, <2>4 DEF Still
  <2> QED BY <1>i, <2>1, <2>2, <2>3, <2>4
<1>2. ASSUME NEW c \in Client, NEW u \in VertexId, NEW n \in Nat, Writes(c, u, n) PROVE Goal
  <2>1. /\ Live(u)' = Live(u) \cup {n} /\ \A w \in VertexId \ {u} : Live(w)' = Live(w)
        /\ \A d \in Client : Unstamped(d)' = IF d = c THEN Unstamped(c) \cup {n} ELSE Unstamped(d)
        /\ pc[c] = "open" /\ UNCHANGED <<pc, grant>>
        /\ u \in acquired_locks[c] \/ vertex_futexes[u] = 0
        /\ n \notin Live(u)
    BY <1>2 DEF Writes
  <2>2. /\ n \notin DOMAIN block /\ \A r \in DOMAIN block : r \in Nat /\ r < n /\ block'[r] = block[r]
        /\ block'[n].creation = -local_txn_id[c] /\ local_txn_id[c] \in Nat /\ local_txn_id[c] > 0
    BY <1>2 DEF Writes, Adds
  <2>3. CASE q = n
    <3>1. v = u
      BY <1>l, <2>1, <2>2, <2>3
    <3>2. p \in Live(v) /\ block[p].vid = u
      BY <1>l, <2>1, <2>3, <3>1
    <3>3. \A d \in Client : p \in Unstamped(d)' => d = c
      BY <1>l, <2>1, <2>2, <3>2, SoleWriter
    <3>4. ~(block'[q].creation >= 0)
      BY <2>2, <2>3
    <3>5. \A d \in Client : q \in Unstamped(d)' => pc'[d] = "open"
      BY <1>u, <2>1, <2>2, <2>3
    <3> QED BY <2>1, <2>3, <3>3, <3>4, <3>5
  <2>4. CASE q # n
    <3>1. q \in Live(v) /\ q \in DOMAIN block
      BY <1>l, <2>1, <2>4
    <3>2. p # n
      BY <2>2, <3>1
    <3>3. p \in Live(v) /\ p \in DOMAIN block
      BY <1>l, <2>1, <3>2
    <3> QED BY <1>i, <2>1, <2>2, <2>4, <3>1, <3>2, <3>3
  <2> QED BY <2>3, <2>4
<1>3. ASSUME NEW G \in SUBSET Client, Grants(G) PROVE Goal
  <2>1. p \in Live(v) /\ q \in Live(v) /\ UNCHANGED block
    BY <1>3 DEF Grants
  <2>2. \A d \in Client : /\ pc'[d] = IF d \in G THEN "install" ELSE pc[d]
                          /\ grant'[d] = IF d \in G THEN sealed + 1 ELSE grant[d]
                          /\ Unstamped(d)' = Unstamped(d)
    BY <1>3 DEF Grants
  <2> QED BY <1>0, <1>i, <1>l, <2>1, <2>2
<1>4. ASSUME NEW c \in Client, NEW u \in VertexId, NEW m \in Nat, Installs(c, u, m) PROVE Goal
  <2>1. /\ p \in Live(v) /\ q \in Live(v) /\ UNCHANGED <<block, pc, grant>>
        /\ \A d \in Client : Unstamped(d)' = Unstamped(d)
    BY <1>4 DEF Installs
  <2> QED BY <1>i, <2>1
<1>5. ASSUME NEW c \in Client, NEW r \in Nat, StampsOne(c, r) PROVE Goal
  <2>1. /\ pc[c] = "install" /\ r \in Unstamped(c) /\ r \in DOMAIN block
        /\ \A s \in Unstamped(c) : r <= s
        /\ block[r].creation < 0 /\ block'[r].creation = grant[c]
        /\ \A s \in DOMAIN block : s # r => block'[s].creation = block[s].creation
        /\ \A d \in Client : Unstamped(d)' = Unstamped(d) \ {r} /\ (d # c => r \notin Unstamped(d))
        /\ p \in Live(v) /\ q \in Live(v)
        /\ UNCHANGED <<pc, grant>>
    BY <1>5 DEF StampsOne
  <2>2. p \in DOMAIN block /\ q \in DOMAIN block /\ p \in Nat /\ q \in Nat
    BY <1>l, <2>1
  <2>3. \A d \in Client : p \in Unstamped(d)' => q \in Unstamped(d)'
    BY <1>i, <2>1, <2>2
  <2>4. CASE p = r
    <3>1. q \in Unstamped(c) /\ q # r
      BY <1>i, <2>1, <2>2, <2>4
    <3>2. ~(block'[q].creation >= 0)
      <4>1. block[q].creation \in Int /\ block[q].creation < 0
        BY <1>l, <1>u, <2>1, <3>1
      <4> QED BY <2>1, <2>2, <3>1, <4>1
    <3>3. \A d \in Client : q \in Unstamped(d)' => d = c
      BY <1>0, <2>1, <3>1 DEF OwnInv, ApartInv
    <3>4. ASSUME NEW d \in Client, q \in Unstamped(d)' PROVE block'[p].creation <= grant'[d]
      <4>1. d = c /\ block'[p].creation = grant[c] /\ grant'[c] = grant[c] /\ grant[c] \in Nat
        BY <1>0, <2>1, <2>4, <3>3, <3>4
      <4> QED BY <4>1
    <3> QED BY <2>3, <3>2, <3>4
  <2>5. CASE q = r
    <3>1. block'[p].creation = block[p].creation /\ block'[q].creation = grant[c]
      BY <2>1, <2>2, <2>5
    <3> QED BY <1>i, <2>1, <2>3, <2>5, <3>1
  <2>6. CASE p # r /\ q # r
    BY <1>i, <2>1, <2>2, <2>3, <2>6
  <2> QED BY <2>4, <2>5, <2>6
<1>6. ASSUME NEW c \in Client, Aborts(c) PROVE Goal
  <2>1. /\ p \in Live(v) /\ q \in Live(v) /\ p \notin Unstamped(c) /\ q \notin Unstamped(c)
        /\ \A s \in DOMAIN block : s \notin Unstamped(c) => block'[s].creation = block[s].creation
        /\ Unstamped(c)' = {} /\ \A d \in Client \ {c} : Unstamped(d)' = Unstamped(d)
        /\ pc' = [pc EXCEPT ![c] = "clean"] /\ UNCHANGED grant
    BY <1>6 DEF Aborts
  <2>2. block'[p].creation = block[p].creation /\ block'[q].creation = block[q].creation
    BY <1>l, <2>1
  <2> QED BY <1>0, <1>i, <2>1, <2>2
<1> HIDE DEF Goal
<1>7. Goal
  BY <1>1, <1>2, <1>3, <1>4, <1>5, <1>6, Effects, Zenon
<1> QED BY <1>7 DEF Goal

\* The head of v, and what is above and below it.
LEMMA HeadStep ==
  ASSUME RangeInv, LockInv, StampsInv, HeadInv, IdsUsedOnce, InRange, InRange', [Next]_vars
  PROVE  HeadInv'
<1> SUFFICES ASSUME NEW v \in VertexId PROVE HeadOf(v)'
  BY DEF HeadInv
<1> DEFINE Top(d)    == pc[d] = "install" => vertex_ptr_cache[d][v] # NULLPOINTER
           Goal == /\ vertex_ptrs'[v] \in Live(v)' \cup {NULLPOINTER}
                   /\ \A p \in Live(v)' :
                        /\ p > vertex_ptrs'[v] => \E d \in Client : p \in Unstamped(d)' /\ Top(d)'
                        /\ p <= vertex_ptrs'[v] => \A d \in Client : p \in Unstamped(d)' => ~Top(d)'
                   /\ v >= vertex_id' => /\ vertex_ptrs'[v] = NULLPOINTER
                                         /\ \A p \in DOMAIN block' : block'[p].vid # v
<1>0. /\ OwnInv /\ DOMAIN pc = Client /\ v \in Nat /\ vertex_id \in Nat
      /\ vertex_ptrs[v] \in Nat /\ vertex_ptrs[v] # NULLPOINTER => vertex_ptrs[v] \in DOMAIN block
  <2>1. OwnInv /\ Types
    BY DEF RangeInv, OwnInv
  <2>2. /\ v \in Nat /\ vertex_ptrs[v] \in Nat
        /\ vertex_ptrs[v] # NULLPOINTER => vertex_ptrs[v] \in DOMAIN block
    BY <2>1, Facts DEF Types
  <2>3. DOMAIN pc = Client /\ vertex_id \in Nat
    BY <2>1, BoundsAssumption DEF Types, TypeOK
  <2> QED BY <2>1, <2>2, <2>3
<1>l. \A u \in VertexId : \A r \in Live(u) :
        /\ r \in DOMAIN block /\ block[r].vid = u /\ block[r].creation \in Int
        /\ block[r].creation <= sealed /\ r \in Nat /\ r > 0
  BY <1>0, LiveFacts
<1>u. \A d \in Client : \A r \in Unstamped(d) :
        /\ r \in DOMAIN block /\ block[r].creation < 0 /\ r \in Nat
        /\ block[r].vid \in VertexId /\ r \in Live(block[r].vid)
  BY <1>0, LiveFacts
<1>s. \A p, q \in Live(v) : p < q => \A d \in Client : p \in Unstamped(d) => q \in Unstamped(d)
  BY DEF StampsInv, StampsOf
<1>i. /\ vertex_ptrs[v] \in Live(v) \cup {NULLPOINTER}
      /\ \A p \in Live(v) :
           /\ p > vertex_ptrs[v] => \E d \in Client : p \in Unstamped(d) /\ Top(d)
           /\ p <= vertex_ptrs[v] => \A d \in Client : p \in Unstamped(d) => pc[d] = "install" /\ ~Top(d)
      /\ v >= vertex_id => /\ vertex_ptrs[v] = NULLPOINTER
                           /\ \A p \in DOMAIN block : block[p].vid # v
  BY DEF HeadInv, HeadOf
<1>1. ASSUME Still PROVE Goal
  <2>1. /\ Live(v)' = Live(v) /\ vertex_ptrs' = vertex_ptrs /\ DOMAIN block' = DOMAIN block
        /\ \A p \in DOMAIN block : block'[p].vid = block[p].vid
        /\ v >= vertex_id' => v >= vertex_id
        /\ \A d \in Client : Unstamped(d)' = Unstamped(d)
    BY <1>1 DEF Still
  <2>2. ASSUME NEW d \in Client, Unstamped(d) # {} PROVE Top(d)' <=> Top(d)
    BY <1>1, <2>2 DEF Still
  <2> HIDE DEF Top
  <2> QED BY <1>i, <2>1, <2>2
<1>2. ASSUME NEW c \in Client, NEW u \in VertexId, NEW n \in Nat, Writes(c, u, n) PROVE Goal
  <2>1. /\ Live(u)' = Live(u) \cup {n} /\ \A w \in VertexId \ {u} : Live(w)' = Live(w)
        /\ \A d \in Client : Unstamped(d)' = IF d = c THEN Unstamped(c) \cup {n} ELSE Unstamped(d)
        /\ pc[c] = "open" /\ UNCHANGED <<pc, vertex_ptrs, vertex_id>> /\ u < vertex_id
    BY <1>2 DEF Writes
  <2>2. /\ n \notin DOMAIN block /\ n # NULLPOINTER
        /\ \A r \in DOMAIN block : r \in Nat /\ r < n /\ block'[r] = block[r]
        /\ DOMAIN block' = DOMAIN block \cup {n} /\ block'[n].vid = u
        /\ vertex_ptr_cache'[c][u] = n
        /\ \A w \in VertexId \ {u} : vertex_ptr_cache'[c][w] = vertex_ptr_cache[c][w]
        /\ \A d \in Client \ {c} : vertex_ptr_cache'[d] = vertex_ptr_cache[d]
    BY <1>2 DEF Writes, Adds
  <2>3. \A d \in Client : Top(d) => Top(d)'
    BY <2>1, <2>2
  <2>4. \A d \in Client \ {c} : Top(d)' => Top(d)
    BY <2>1, <2>2
  <2>5. Top(c) /\ Top(c)'
    BY <2>1
  <2> HIDE DEF Top
  <2>6. ASSUME NEW p \in Live(v)'
        PROVE  /\ p > vertex_ptrs[v] => \E d \in Client : p \in Unstamped(d)' /\ Top(d)'
               /\ p <= vertex_ptrs[v] => \A d \in Client : p \in Unstamped(d)' => ~Top(d)'
    <3>1. CASE p = n
      <4>1. ~(n <= vertex_ptrs[v])
        <5>1. CASE vertex_ptrs[v] = NULLPOINTER
          BY <2>2, <5>1 DEF NULLPOINTER
        <5>2. CASE vertex_ptrs[v] # NULLPOINTER
          <6>1. vertex_ptrs[v] \in DOMAIN block
            BY <1>i, <1>l, <5>2
          <6>2. vertex_ptrs[v] \in Nat /\ vertex_ptrs[v] < n
            BY <2>2, <6>1
          <6> QED BY <6>2
        <5> QED BY <5>1, <5>2
      <4>2. p \in Unstamped(c)' /\ Top(c)'
        BY <2>1, <2>5, <3>1
      <4> QED BY <3>1, <4>1, <4>2
    <3>2. CASE p # n
      <4>1. p \in Live(v)
        BY <2>1, <3>2
      <4>2. \A d \in Client : p \in Unstamped(d)' <=> p \in Unstamped(d)
        BY <2>1, <3>2
      <4> QED BY <1>i, <2>3, <2>4, <2>5, <4>1, <4>2
    <3> QED BY <3>1, <3>2
  <2>7. vertex_ptrs'[v] \in Live(v)' \cup {NULLPOINTER}
    BY <1>i, <2>1
  <2>8. v >= vertex_id' => /\ vertex_ptrs'[v] = NULLPOINTER
                           /\ \A p \in DOMAIN block' : block'[p].vid # v
    <3>1. v >= vertex_id => v # u
      BY <1>0, <2>1, Facts DEF OwnInv, Types
    <3> QED BY <1>i, <2>1, <2>2, <3>1
  <2> QED BY <2>1, <2>6, <2>7, <2>8
<1>3. ASSUME NEW G \in SUBSET Client, Grants(G) PROVE Goal
  <2>1. /\ Live(v)' = Live(v) /\ UNCHANGED <<block, vertex_ptrs, vertex_ptr_cache, vertex_id>>
        /\ \A d \in Client : /\ pc'[d] = IF d \in G THEN "install" ELSE pc[d]
                             /\ d \in G => pc[d] = "registered"
                             /\ Unstamped(d)' = Unstamped(d)
    BY <1>3 DEF Grants
  <2>2. ASSUME NEW d \in Client, NEW p \in Live(v), p \in Unstamped(d), Top(d) PROVE Top(d)'
    <3>1. CASE d \in G
      <4>1. vertex_ptr_cache[d][v] # NULLPOINTER
        BY <1>l, <2>1, <2>2, <3>1 DEF OwnInv, RangeInv, CacheInv, CacheOf
      <4> QED BY <2>1, <4>1
    <3>2. CASE d \notin G
      BY <2>1, <2>2, <3>2
    <3> QED BY <3>1, <3>2
  <2>3. ASSUME NEW d \in Client, pc[d] = "install", ~Top(d) PROVE ~Top(d)'
    BY <2>1, <2>3
  <2> HIDE DEF Top
  <2> QED BY <1>i, <2>1, <2>2, <2>3
<1>4. ASSUME NEW c \in Client, NEW u \in VertexId, NEW m \in Nat, Installs(c, u, m) PROVE Goal
  <2>1. /\ Live(v)' = Live(v) /\ UNCHANGED <<block, pc, vertex_id>>
        /\ pc[c] = "install" /\ m = vertex_ptr_cache[c][u] /\ m # NULLPOINTER
        /\ vertex_ptrs'[u] = m /\ \A w \in VertexId \ {u} : vertex_ptrs'[w] = vertex_ptrs[w]
        /\ vertex_ptr_cache'[c][u] = NULLPOINTER
        /\ \A w \in VertexId \ {u} : vertex_ptr_cache'[c][w] = vertex_ptr_cache[c][w]
        /\ \A d \in Client \ {c} : vertex_ptr_cache'[d] = vertex_ptr_cache[d]
        /\ \A d \in Client : Unstamped(d)' = Unstamped(d)
    BY <1>4 DEF Installs
  <2>2. CASE v # u
    <3>1. \A d \in Client : Top(d)' <=> Top(d)
      BY <2>1, <2>2
    <3>2. vertex_ptrs'[v] = vertex_ptrs[v]
      BY <2>1, <2>2
    <3> HIDE DEF Top
    <3> QED BY <1>i, <2>1, <3>1, <3>2
  <2>3. CASE v = u
    <3>1. m \in Unstamped(c) /\ m \in Live(v) /\ \A p \in Unstamped(c) : block[p].vid = v => p <= m
      BY <1>0, <2>1, <2>3, LiveFacts
    <3>2. ~Top(c)' /\ \A d \in Client \ {c} : Top(d)' <=> Top(d)
      BY <2>1, <2>3
    <3> HIDE DEF Top
    <3>3. ASSUME NEW p \in Live(v), p > m PROVE FALSE
      <4>1. p \in Unstamped(c) /\ block[p].vid = v /\ p \in Nat /\ m \in Nat
        BY <1>l, <1>s, <3>1, <3>3
      <4>2. p <= m
        BY <3>1, <4>1
      <4> QED BY <3>3, <4>1, <4>2
    <3>4. ASSUME NEW p \in Live(v), p <= m, NEW d \in Client, p \in Unstamped(d) PROVE d = c
      <4>1. m \in Unstamped(d)
        <5>1. p \in Nat /\ m \in Nat
          BY <1>l
        <5>2. CASE p = m
          BY <3>4, <5>2
        <5>3. CASE p < m
          BY <1>s, <3>1, <3>4, <5>3
        <5> QED BY <3>4, <5>1, <5>2, <5>3
      <4> QED BY <1>0, <3>1, <4>1 DEF OwnInv, ApartInv
    <3>5. ~(v >= vertex_id)
      BY <1>i, <1>l, <3>1
    <3>6. vertex_ptrs'[v] = m
      BY <2>1, <2>3
    <3>7. /\ \A p \in Live(v) : ~(p > m)
          /\ \A p \in Live(v) : p <= m => \A d \in Client : p \in Unstamped(d) => d = c
      BY <3>3, <3>4
    <3> QED BY <2>1, <3>1, <3>2, <3>5, <3>6, <3>7
  <2> QED BY <2>2, <2>3
<1>5. ASSUME NEW c \in Client, NEW r \in Nat, StampsOne(c, r) PROVE Goal
  <2>1. /\ Live(v)' = Live(v) /\ DOMAIN block' = DOMAIN block
        /\ pc[c] = "install" /\ vertex_ptr_cache[c][v] = NULLPOINTER
        /\ \A p \in DOMAIN block : block'[p].vid = block[p].vid
        /\ \A d \in Client : Unstamped(d)' = Unstamped(d) \ {r} /\ (d # c => r \notin Unstamped(d))
        /\ UNCHANGED <<pc, vertex_ptrs, vertex_ptr_cache, vertex_id>>
    BY <1>5 DEF StampsOne
  <2>2. ~Top(c) /\ \A d \in Client : Top(d)' <=> Top(d)
    BY <2>1
  <2> HIDE DEF Top
  <2>3. \A d \in Client \ {c} : Unstamped(d)' = Unstamped(d)
    BY <2>1
  <2>4. Unstamped(c)' \subseteq Unstamped(c)
    BY <2>1
  <2>5. ASSUME NEW p \in Live(v), NEW d \in Client, p \in Unstamped(d), Top(d) PROVE p \in Unstamped(d)'
    BY <2>2, <2>3, <2>5
  <2> QED BY <1>i, <2>1, <2>2, <2>3, <2>4, <2>5
<1>6. ASSUME NEW c \in Client, Aborts(c) PROVE Goal
  <2>1. /\ Live(v)' = Live(v) \ Unstamped(c) /\ DOMAIN block' = DOMAIN block
        /\ pc[c] = "open" /\ pc' = [pc EXCEPT ![c] = "clean"]
        /\ \A p \in DOMAIN block : block'[p].vid = block[p].vid
        /\ Unstamped(c)' = {} /\ \A d \in Client \ {c} : Unstamped(d)' = Unstamped(d)
        /\ UNCHANGED <<vertex_ptrs, vertex_ptr_cache, vertex_id>>
    BY <1>6 DEF Aborts
  <2>2. \A d \in Client \ {c} : Top(d)' <=> Top(d)
    BY <1>0, <2>1
  <2>3. Top(c)
    BY <2>1
  <2> HIDE DEF Top
  <2>4. vertex_ptrs[v] \notin Unstamped(c)
    <3>1. ASSUME vertex_ptrs[v] \in Live(v), vertex_ptrs[v] \in Unstamped(c) PROVE FALSE
      <4>1. vertex_ptrs[v] <= vertex_ptrs[v]
        BY <1>l, <3>1
      <4>2. pc[c] = "install"
        BY <1>i, <3>1, <4>1
      <4> QED BY <2>1, <4>2
    <3>2. NULLPOINTER \notin Unstamped(c)
      BY <1>l, <1>u
    <3> QED BY <1>i, <3>1, <3>2
  <2> QED BY <1>i, <2>1, <2>2, <2>3, <2>4
<1> HIDE DEF Goal
<1>7. Goal
  BY <1>1, <1>2, <1>3, <1>4, <1>5, <1>6, Effects, Zenon
<1>8. Goal => HeadOf(v)'
  BY DEF Goal, HeadOf
<1> QED BY <1>7, <1>8

\* A version is behind the next one.
LEMMA LinkStep ==
  ASSUME RangeInv, LockInv, StampsInv, HeadInv, LinkInv, IdsUsedOnce, InRange, InRange', [Next]_vars
  PROVE  LinkInv'
<1> SUFFICES ASSUME NEW v \in VertexId, NEW p \in Live(v)', block'[p].prev # NULLPOINTER
             PROVE  /\ block'[p].prev \in Live(v)'
                    /\ \A q \in Live(v)' : q < p => q <= block'[p].prev
  BY DEF LinkInv, LinkOf
<1> DEFINE Goal == /\ block'[p].prev \in Live(v)'
                   /\ \A q \in Live(v)' : q < p => q <= block'[p].prev
<1>0. OwnInv /\ OlderInv /\ LooseInv
  BY DEF RangeInv, OwnInv, Types
<1>l. \A u \in VertexId : \A r \in Live(u) :
        r \in DOMAIN block /\ block[r].vid = u /\ r \in Nat
  BY <1>0, LiveFacts
<1>i. p \in Live(v) /\ block[p].prev # NULLPOINTER =>
        /\ block[p].prev \in Live(v)
        /\ \A q \in Live(v) : q < p => q <= block[p].prev
  BY DEF LinkInv, LinkOf
<1>s. \A q, r \in Live(v) : q < r => \A d \in Client : q \in Unstamped(d) => r \in Unstamped(d)
  BY DEF StampsInv, StampsOf
<1>k. ASSUME p \in Live(v), Live(v)' = Live(v), block'[p].prev = block[p].prev PROVE Goal
  BY <1>i, <1>k
<1>1. ASSUME Still PROVE Goal
  <2>1. p \in Live(v) /\ Live(v)' = Live(v)
    BY <1>1 DEF Still
  <2>2. block'[p].prev \in {block[p].prev, NULLPOINTER}
    BY <1>l, <1>1, <2>1 DEF Still
  <2> QED BY <1>k, <2>1, <2>2
<1>2. ASSUME NEW c \in Client, NEW u \in VertexId, NEW n \in Nat, Writes(c, u, n) PROVE Goal
  <2>1. /\ Live(u)' = Live(u) \cup {n} /\ \A w \in VertexId \ {u} : Live(w)' = Live(w)
        /\ pc[c] = "open" /\ c \notin ReadOnly /\ n \notin Live(u)
        /\ u \in acquired_locks[c] \/ vertex_futexes[u] = 0
    BY <1>2 DEF Writes
  <2>2. /\ n \notin DOMAIN block /\ \A r \in DOMAIN block : r \in Nat /\ r < n /\ block'[r] = block[r]
        /\ block'[n].prev = Newest(c, u)
    BY <1>2 DEF Writes, Adds
  <2>3. CASE p = n
    <3>1. v = u
      BY <1>l, <2>1, <2>2, <2>3
    <3>2. ASSUME NEW q \in Live(v), vertex_ptr_cache[c][v] # NULLPOINTER
          PROVE  q <= vertex_ptr_cache[c][v]
      <4> DEFINE m == vertex_ptr_cache[c][v]
      <4>1. /\ m \in Unstamped(c) /\ m \in Live(v)
            /\ \A r \in Unstamped(c) : block[r].vid = v => r <= m
        BY <1>0, <2>1, <3>2, LiveFacts
      <4> HIDE DEF m
      <4>2. m \in Nat /\ q \in Nat /\ block[q].vid = v
        BY <1>l, <4>1
      <4>3. m < q => q \in Unstamped(c)
        BY <1>s, <4>1
      <4>4. q <= m
        BY <4>1, <4>2, <4>3
      <4> QED BY <4>4 DEF m
    <3>3. ASSUME NEW q \in Live(v), vertex_ptr_cache[c][v] = NULLPOINTER, q > vertex_ptrs[v]
          PROVE  FALSE
      <4>1. PICK d \in Client : q \in Unstamped(d)
        BY <3>3 DEF HeadInv, HeadOf
      <4>2. block[q].vid = v
        BY <1>l
      <4>3. d = c
        BY <2>1, <3>1, <4>1, <4>2, SoleWriter
      <4> QED BY <1>0, <2>1, <3>3, <4>1, <4>2, <4>3 DEF OwnInv, CacheInv, CacheOf
    <3>4. block'[p].prev = IF vertex_ptr_cache[c][v] # NULLPOINTER
                             THEN vertex_ptr_cache[c][v] ELSE vertex_ptrs[v]
      BY <2>1, <2>2, <2>3, <3>1 DEF Newest
    <3>5. CASE vertex_ptr_cache[c][v] # NULLPOINTER
      <4>1. vertex_ptr_cache[c][v] \in Live(v)
        BY <1>0, <2>1, <3>5, LiveFacts
      <4> QED BY <2>1, <2>3, <3>1, <3>2, <3>4, <3>5, <4>1
    <3>6. CASE vertex_ptr_cache[c][v] = NULLPOINTER
      <4>1. block'[p].prev = vertex_ptrs[v] /\ vertex_ptrs[v] \in Live(v)
        BY <3>4, <3>6 DEF HeadInv, HeadOf
      <4>2. \A q \in Live(v) : q <= vertex_ptrs[v]
        <5> SUFFICES ASSUME NEW q \in Live(v) PROVE q <= vertex_ptrs[v]
          OBVIOUS
        <5>1. q \in Nat /\ vertex_ptrs[v] \in Nat
          BY <1>l, <4>1
        <5> QED BY <3>3, <3>6, <5>1
      <4> QED BY <2>1, <2>3, <3>1, <4>1, <4>2
    <3> QED BY <3>5, <3>6
  <2>4. CASE p # n
    <3>1. p \in Live(v) /\ p \in DOMAIN block
      BY <1>l, <2>1, <2>4
    <3>2. block'[p].prev = block[p].prev /\ p < n /\ p \in Nat
      BY <2>2, <3>1
    <3>3. ASSUME NEW q \in Live(v)', q < p PROVE q \in Live(v)
      BY <2>1, <3>2, <3>3
    <3>4. Live(v) \subseteq Live(v)'
      BY <2>1
    <3> QED BY <1>i, <3>1, <3>2, <3>3, <3>4
  <2> QED BY <2>3, <2>4
<1>3. ASSUME NEW G \in SUBSET Client, Grants(G) PROVE Goal
  BY <1>k, <1>3 DEF Grants
<1>4. ASSUME NEW c \in Client, NEW u \in VertexId, NEW m \in Nat, Installs(c, u, m) PROVE Goal
  BY <1>k, <1>4 DEF Installs
<1>5. ASSUME NEW c \in Client, NEW r \in Nat, StampsOne(c, r) PROVE Goal
  <2>1. p \in Live(v) /\ Live(v)' = Live(v)
    BY <1>5 DEF StampsOne
  <2>2. block'[p].prev = block[p].prev
    BY <1>l, <1>5, <2>1 DEF StampsOne
  <2> QED BY <1>k, <2>1, <2>2
<1>6. ASSUME NEW c \in Client, Aborts(c) PROVE Goal
  <2>1. Live(v)' = Live(v) \ Unstamped(c) /\ p \in Live(v) /\ p \notin Unstamped(c)
    BY <1>6 DEF Aborts
  <2>2. block'[p].prev = block[p].prev /\ p \in DOMAIN block
    BY <1>l, <1>6, <2>1 DEF Aborts
  <2>3. block[p].prev \in Live(v) /\ \A q \in Live(v) : q < p => q <= block[p].prev
    BY <1>i, <2>1, <2>2
  <2>4. block[p].prev \notin Unstamped(c)
    BY <1>0, <1>s, <2>1, <2>2, <2>3 DEF OlderInv
  <2> QED BY <2>1, <2>2, <2>3, <2>4
<1> HIDE DEF Goal
<1>7. Goal
  BY <1>1, <1>2, <1>3, <1>4, <1>5, <1>6, Effects, Zenon
<1> QED BY <1>7 DEF Goal

\* What a group commits: the newest version each of its transactions has written of a vertex.
LEMMA GrantedCommits ==
  ASSUME OwnInv, InRange, NEW G \in SUBSET Client, Grants(G), NEW x \in committed', x \notin committed
  PROVE  \E d \in G : \E v \in VertexId :
           /\ x = [vid |-> v, ptr |-> vertex_ptr_cache[d][v], epoch |-> sealed + 1, read |-> read_epoch_id[d]]
           /\ pc[d] = "registered" /\ x.ptr \in Unstamped(d) /\ x.ptr \in Live(v)
           /\ \A q \in Unstamped(d) : block[q].vid = v => q <= x.ptr
<1>1. PICK d \in G : \E v \in Versions(d) :
         x = [vid |-> v, ptr |-> vertex_ptr_cache[d][v], epoch |-> sealed + 1, read |-> read_epoch_id[d]]
  BY DEF Grants
<1>2. PICK v \in Versions(d) :
         x = [vid |-> v, ptr |-> vertex_ptr_cache[d][v], epoch |-> sealed + 1, read |-> read_epoch_id[d]]
  BY <1>1
<1>3. d \in Client /\ pc[d] = "registered"
  BY DEF Grants
<1>4. v \in VertexId /\ vertex_ptr_cache[d][v] # NULLPOINTER
  BY DEF Versions
<1>5. /\ vertex_ptr_cache[d][v] \in Unstamped(d) /\ vertex_ptr_cache[d][v] \in Live(v)
      /\ \A q \in Unstamped(d) : block[q].vid = v => q <= vertex_ptr_cache[d][v]
  BY <1>3, <1>4, LiveFacts
<1>6. x.ptr = vertex_ptr_cache[d][v]
  BY <1>2
<1> QED BY <1>2, <1>3, <1>4, <1>5, <1>6

\* A commit is the last version of its epoch.
LEMMA CommitStep ==
  ASSUME RangeInv, LockInv, StampsInv, HeadInv, CommitInv, IdsUsedOnce, InRange, InRange', [Next]_vars
  PROVE  CommitInv'
<1> SUFFICES ASSUME NEW x \in committed' PROVE CommitOf(x)'
  BY DEF CommitInv
<1> DEFINE Place(q) == \/ block'[q].creation = x.epoch
                       \/ \E d \in Client : pc'[d] = "install" /\ q \in Unstamped(d)' /\ grant'[d] = x.epoch
           Later(q) == \/ block'[q].creation > x.epoch
                       \/ \E d \in Client : q \in Unstamped(d)' /\ (pc'[d] = "install" => grant'[d] > x.epoch)
           Goal == x.ptr \in Live(x.vid)' /\ Place(x.ptr) /\ \A q \in Live(x.vid)' : q > x.ptr => Later(q)
<1>0. /\ OwnInv /\ sealed \in Nat /\ \A d \in Client : grant[d] \in Nat
      /\ DOMAIN pc = Client
      /\ \A y \in committed : y.vid \in VertexId /\ y.ptr \in Nat /\ y.epoch \in Nat /\ y.epoch <= sealed
  <2>1. OwnInv /\ Types
    BY DEF RangeInv, OwnInv
  <2>2. sealed \in Nat /\ (\A d \in Client : grant[d] \in Nat) /\ DOMAIN block \subseteq Nat
    BY <2>1, Facts DEF Types
  <2>3. /\ committed \subseteq [vid : VertexId, ptr : 1 .. Len(block), epoch : 0 .. sealed,
                              read : 0 .. visible]
        /\ DOMAIN pc = Client
    BY <2>1 DEF Types, TypeOK
  <2> QED BY <2>1, <2>2, <2>3
<1>l. \A u \in VertexId : \A r \in Live(u) :
        r \in DOMAIN block /\ block[r].vid = u /\ r \in Nat /\ block[r].creation \in Int
  BY <1>0, LiveFacts
<1>u. \A d \in Client : \A r \in Unstamped(d) : r \in DOMAIN block /\ block[r].creation < 0
  BY <1>0, LiveFacts
<1>i. x \in committed =>
        /\ x.ptr \in Live(x.vid)
        /\ \/ block[x.ptr].creation = x.epoch
           \/ \E c \in Client : pc[c] = "install" /\ x.ptr \in Unstamped(c) /\ grant[c] = x.epoch
        /\ \A q \in Live(x.vid) : q > x.ptr =>
             \/ block[q].creation > x.epoch
             \/ \E c \in Client : q \in Unstamped(c) /\ (pc[c] = "install" => grant[c] > x.epoch)
  BY DEF CommitInv, CommitOf
<1>1. ASSUME Still PROVE Goal
  <2>1. x \in committed /\ x.vid \in VertexId /\ Live(x.vid)' = Live(x.vid)
    BY <1>0, <1>1 DEF Still
  <2>2. \A q \in Live(x.vid) : block'[q].creation = block[q].creation
    BY <1>l, <1>1, <2>1 DEF Still
  <2>3. ASSUME NEW d \in Client, NEW q \in Unstamped(d)
        PROVE  /\ pc'[d] = "install" <=> pc[d] = "install"
               /\ pc[d] = "install" => grant'[d] = grant[d]
               /\ q \in Unstamped(d)'
    BY <1>1 DEF Still
  <2>4. Place(x.ptr)
    BY <1>i, <2>1, <2>2, <2>3
  <2>5. ASSUME NEW q \in Live(x.vid), q > x.ptr PROVE Later(q)
    BY <1>i, <2>1, <2>2, <2>3, <2>5
  <2> QED BY <1>i, <2>1, <2>4, <2>5
<1>2. ASSUME NEW c \in Client, NEW u \in VertexId, NEW n \in Nat, Writes(c, u, n) PROVE Goal
  <2>1. /\ Live(u)' = Live(u) \cup {n} /\ \A w \in VertexId \ {u} : Live(w)' = Live(w)
        /\ \A d \in Client : Unstamped(d)' = IF d = c THEN Unstamped(c) \cup {n} ELSE Unstamped(d)
        /\ pc[c] = "open" /\ UNCHANGED <<pc, grant, committed>>
    BY <1>2 DEF Writes
  <2>2. x \in committed /\ x.vid \in VertexId /\ x.ptr \in Live(x.vid) /\ Live(x.vid) \subseteq Live(x.vid)'
    BY <1>0, <1>i, <2>1
  <2>3. \A q \in Live(x.vid) : block'[q].creation = block[q].creation
    BY <1>l, <1>2, <2>2 DEF Writes, Adds
  <2>4. Place(x.ptr)
    BY <1>i, <2>1, <2>2, <2>3
  <2>5. ASSUME NEW q \in Live(x.vid)', q > x.ptr PROVE Later(q)
    <3>1. CASE q = n
      BY <2>1, <3>1
    <3>2. CASE q # n
      <4>1. q \in Live(x.vid)
        BY <2>1, <2>2, <3>2
      <4> QED BY <1>i, <2>1, <2>2, <2>3, <2>5, <4>1
    <3> QED BY <3>1, <3>2
  <2> QED BY <2>2, <2>4, <2>5
<1>3. ASSUME NEW G \in SUBSET Client, Grants(G) PROVE Goal
  <2>1. /\ \A d \in Client : /\ pc'[d] = IF d \in G THEN "install" ELSE pc[d]
                             /\ grant'[d] = IF d \in G THEN sealed + 1 ELSE grant[d]
                             /\ d \in G => pc[d] = "registered"
                             /\ Unstamped(d)' = Unstamped(d)
        /\ \A v \in VertexId : Live(v)' = Live(v)
        /\ UNCHANGED block
    BY <1>3 DEF Grants
  <2>2. CASE x \in committed
    <3>1. x.vid \in VertexId /\ Live(x.vid)' = Live(x.vid) /\ x.epoch \in Nat /\ x.epoch <= sealed
      BY <1>0, <2>1, <2>2
    <3>2. Place(x.ptr)
      <4>1. CASE block[x.ptr].creation = x.epoch
        BY <2>1, <4>1
      <4>2. ASSUME NEW d \in Client, pc[d] = "install", x.ptr \in Unstamped(d), grant[d] = x.epoch
            PROVE  Place(x.ptr)
        <5>1. d \notin G
          BY <2>1, <4>2
        <5> QED BY <2>1, <4>2, <5>1
      <4> QED BY <1>i, <2>2, <4>1, <4>2
    <3>3. ASSUME NEW q \in Live(x.vid), q > x.ptr PROVE Later(q)
      <4>1. CASE block[q].creation > x.epoch
        BY <2>1, <4>1
      <4>2. ASSUME NEW d \in Client, q \in Unstamped(d), pc[d] = "install" => grant[d] > x.epoch
            PROVE  Later(q)
        <5>1. sealed + 1 > x.epoch
          BY <1>0, <3>1
        <5>2. pc'[d] = "install" => grant'[d] > x.epoch
          BY <2>1, <4>2, <5>1
        <5> QED BY <2>1, <4>2, <5>2
      <4> QED BY <1>i, <2>2, <3>3, <4>1, <4>2
    <3> QED BY <1>i, <2>2, <3>1, <3>2, <3>3
  <2>3. CASE x \notin committed
    <3>1. PICK d \in G : \E v \in VertexId :
            /\ x = [vid |-> v, ptr |-> vertex_ptr_cache[d][v], epoch |-> sealed + 1, read |-> read_epoch_id[d]]
            /\ pc[d] = "registered" /\ x.ptr \in Unstamped(d) /\ x.ptr \in Live(v)
            /\ \A q \in Unstamped(d) : block[q].vid = v => q <= x.ptr
      BY <1>0, <1>3, <2>3, GrantedCommits
    <3>2. /\ d \in Client /\ x.vid \in VertexId /\ x.epoch = sealed + 1
          /\ x.ptr \in Unstamped(d) /\ x.ptr \in Live(x.vid)
          /\ \A q \in Unstamped(d) : block[q].vid = x.vid => q <= x.ptr
      BY <3>1
    <3>3. Place(x.ptr)
      BY <2>1, <3>2
    <3>4. ASSUME NEW q \in Live(x.vid), q > x.ptr PROVE FALSE
      <4>1. q \in Nat /\ x.ptr \in Nat /\ block[q].vid = x.vid
        BY <1>l, <3>2
      <4>2. q \in Unstamped(d)
        BY <3>2, <3>4, <4>1 DEF StampsInv, StampsOf
      <4> QED BY <3>2, <3>4, <4>1, <4>2
    <3> QED BY <2>1, <3>2, <3>3, <3>4
  <2> QED BY <2>2, <2>3
<1>4. ASSUME NEW c \in Client, NEW u \in VertexId, NEW m \in Nat, Installs(c, u, m) PROVE Goal
  <2>1. /\ UNCHANGED <<block, pc, grant, committed>> /\ \A d \in Client : Unstamped(d)' = Unstamped(d)
        /\ \A v \in VertexId : Live(v)' = Live(v)
    BY <1>4 DEF Installs
  <2> QED BY <1>0, <1>i, <2>1
<1>5. ASSUME NEW c \in Client, NEW r \in Nat, StampsOne(c, r) PROVE Goal
  <2>1. /\ pc[c] = "install" /\ r \in Unstamped(c) /\ block[r].creation < 0 /\ block'[r].creation = grant[c]
        /\ \A q \in DOMAIN block : q # r => block'[q].creation = block[q].creation
        /\ \A d \in Client : Unstamped(d)' = Unstamped(d) \ {r} /\ (d # c => r \notin Unstamped(d))
        /\ \A v \in VertexId : Live(v)' = Live(v)
        /\ UNCHANGED <<pc, grant, committed>>
    BY <1>5 DEF StampsOne
  <2>2. /\ x \in committed /\ x.vid \in VertexId /\ x.epoch \in Nat /\ Live(x.vid)' = Live(x.vid)
        /\ x.ptr \in Live(x.vid) /\ \A q \in Live(x.vid) : q \in DOMAIN block /\ block[q].creation \in Int
    BY <1>0, <1>i, <1>l, <2>1
  <2>3. Place(x.ptr)
    <3>1. CASE x.ptr = r
      <4>1. block[x.ptr].creation # x.epoch
        BY <2>1, <2>2, <3>1
      <4>2. PICK d \in Client : pc[d] = "install" /\ x.ptr \in Unstamped(d) /\ grant[d] = x.epoch
        BY <1>i, <2>2, <4>1
      <4>3. d = c
        BY <2>1, <3>1, <4>2
      <4> QED BY <2>1, <3>1, <4>2, <4>3
    <3>2. CASE x.ptr # r
      <4>1. block'[x.ptr].creation = block[x.ptr].creation
        BY <2>1, <2>2, <3>2
      <4>2. \A d \in Client : x.ptr \in Unstamped(d) => x.ptr \in Unstamped(d)'
        BY <2>1, <3>2
      <4> QED BY <1>i, <2>1, <2>2, <4>1, <4>2
    <3> QED BY <3>1, <3>2
  <2>4. ASSUME NEW q \in Live(x.vid), q > x.ptr PROVE Later(q)
    <3>1. CASE q = r
      <4>1. ~(block[q].creation > x.epoch)
        BY <2>1, <2>2, <3>1
      <4>2. PICK d \in Client : q \in Unstamped(d) /\ (pc[d] = "install" => grant[d] > x.epoch)
        BY <1>i, <2>2, <2>4, <4>1
      <4>3. d = c
        BY <2>1, <3>1, <4>2
      <4> QED BY <2>1, <3>1, <4>2, <4>3
    <3>2. CASE q # r
      <4>1. block'[q].creation = block[q].creation
        BY <2>1, <2>2, <3>2
      <4>2. \A d \in Client : q \in Unstamped(d) => q \in Unstamped(d)'
        BY <2>1, <3>2
      <4> QED BY <1>i, <2>1, <2>2, <2>4, <4>1, <4>2
    <3> QED BY <3>1, <3>2
  <2> QED BY <2>2, <2>3, <2>4
<1>6. ASSUME NEW c \in Client, Aborts(c) PROVE Goal
  <2>1. /\ pc[c] = "open" /\ pc' = [pc EXCEPT ![c] = "clean"]
        /\ \A q \in DOMAIN block : q \notin Unstamped(c) => block'[q].creation = block[q].creation
        /\ Unstamped(c)' = {}
        /\ \A d \in Client \ {c} : Unstamped(d)' = Unstamped(d) /\ Unstamped(d) \cap Unstamped(c) = {}
        /\ \A v \in VertexId : Live(v)' = Live(v) \ Unstamped(c)
        /\ UNCHANGED <<grant, committed>>
    BY <1>6 DEF Aborts
  <2>2. /\ x \in committed /\ x.vid \in VertexId /\ x.epoch \in Nat /\ Live(x.vid)' = Live(x.vid) \ Unstamped(c)
        /\ x.ptr \in Live(x.vid) /\ \A q \in Live(x.vid) : q \in DOMAIN block /\ block[q].creation \in Int
    BY <1>0, <1>i, <1>l, <2>1
  <2>3. x.ptr \notin Unstamped(c)
    <3> SUFFICES ASSUME x.ptr \in Unstamped(c) PROVE FALSE
      OBVIOUS
    <3>1. block[x.ptr].creation # x.epoch
      BY <1>u, <2>2
    <3>2. PICK d \in Client : pc[d] = "install" /\ x.ptr \in Unstamped(d)
      BY <1>i, <2>2, <3>1
    <3> QED BY <2>1, <3>2
  <2>4. \A d \in Client : d # c => pc'[d] = pc[d]
    BY <1>0, <2>1
  <2>5. Place(x.ptr)
    <3>1. block'[x.ptr].creation = block[x.ptr].creation
      BY <2>1, <2>2, <2>3
    <3> QED BY <1>i, <2>1, <2>2, <2>3, <2>4, <3>1
  <2>6. ASSUME NEW q \in Live(x.vid) \ Unstamped(c), q > x.ptr PROVE Later(q)
    <3>1. block'[q].creation = block[q].creation
      BY <2>1, <2>2
    <3> QED BY <1>i, <2>1, <2>2, <2>4, <2>6, <3>1
  <2> QED BY <2>2, <2>3, <2>5, <2>6
<1> HIDE DEF Goal
<1>7. Goal
  BY <1>1, <1>2, <1>3, <1>4, <1>5, <1>6, Effects, Zenon
<1> QED BY <1>7 DEF Goal, CommitOf

\* Who writes a vertex has all its commits in the snapshot.
LEMMA WriterStep ==
  ASSUME RangeInv, LockInv, HeadInv, CommitInv, WriterInv, IdsUsedOnce, InRange, InRange', [Next]_vars
  PROVE  WriterInv'
<1> SUFFICES ASSUME NEW d \in Client, pc'[d] # "install", NEW p \in Unstamped(d)', NEW x \in committed',
                    x.vid = block'[p].vid
             PROVE  x.epoch <= read_epoch_id'[d]
  BY DEF WriterInv, WriterOf
<1> DEFINE Goal == x.epoch <= read_epoch_id'[d]
<1>0. OwnInv /\ LooseInv
  BY DEF RangeInv
<1>t. /\ DOMAIN pc = Client /\ \A e \in Client : read_epoch_id[e] \in Nat /\ local_txn_id[e] \in Nat
      /\ \A y \in committed : y.vid \in VertexId /\ y.ptr \in Nat /\ y.ptr > 0 /\ y.epoch \in Nat
  <2>1. /\ committed \subseteq [vid : VertexId, ptr : 1 .. Len(block), epoch : 0 .. sealed,
                              read : 0 .. visible]
        /\ DOMAIN pc = Client /\ sealed \in Nat
    BY <1>0 DEF OwnInv, Types, TypeOK, EpochInv
  <2>2. \A e \in Client : read_epoch_id[e] \in Nat /\ local_txn_id[e] \in Nat
    BY <1>0, Facts DEF OwnInv, Types
  <2> QED BY <2>1, <2>2
<1>l. \A u \in VertexId : \A r \in Live(u) :
        r \in DOMAIN block /\ block[r].vid = u /\ r \in Nat /\ block[r].creation \in Int
  BY <1>0, LiveFacts
<1>u. \A e \in Client : \A r \in Unstamped(e) :
        r \in DOMAIN block /\ block[r].creation < 0 /\ block[r].vid \in VertexId
  BY <1>0, LiveFacts
<1>i. ASSUME pc[d] # "install", p \in Unstamped(d), x \in committed, x.vid = block[p].vid
      PROVE  x.epoch <= read_epoch_id[d]
  BY <1>i DEF WriterInv, WriterOf
<1>1. ASSUME Still PROVE Goal
  <2>1. /\ p \in Unstamped(d) /\ x \in committed /\ pc[d] # "install"
        /\ read_epoch_id'[d] = read_epoch_id[d]
    BY <1>1 DEF Still
  <2>2. block'[p].vid = block[p].vid
    BY <1>u, <1>1, <2>1 DEF Still
  <2> QED BY <1>i, <2>1, <2>2
<1>2. ASSUME NEW c \in Client, NEW u \in VertexId, NEW n \in Nat, Writes(c, u, n) PROVE Goal
  <2>1. /\ Unstamped(c)' = Unstamped(c) \cup {n} /\ \A e \in Client \ {c} : Unstamped(e)' = Unstamped(e)
        /\ pc[c] = "open" /\ c \notin ReadOnly /\ ~Conflict(c, u)
        /\ u \in acquired_locks[c] \/ vertex_futexes[u] = 0
        /\ UNCHANGED <<pc, read_epoch_id, committed>>
    BY <1>2 DEF Writes
  <2>2. block'[n].vid = u /\ \A r \in DOMAIN block : block'[r] = block[r]
    BY <1>2 DEF Writes, Adds
  <2>3. CASE p \in Unstamped(d)
    <3>1. block'[p].vid = block[p].vid
      BY <1>u, <2>2, <2>3
    <3> QED BY <1>i, <2>1, <2>3, <3>1
  <2>4. CASE p \notin Unstamped(d)
    <3>1. d = c /\ p = n /\ x.vid = u /\ x \in committed
      BY <2>1, <2>2, <2>4
    <3>2. CASE \E q \in Unstamped(c) : block[q].vid = u
      BY <2>1, <3>1, <3>2 DEF WriterInv, WriterOf
    <3>3. CASE \A q \in Unstamped(c) : block[q].vid # u
      <4>1. vertex_ptr_cache[c][u] = NULLPOINTER
        BY <1>0, <2>1, <3>3, LiveFacts, <1>l
      <4>2. x.ptr \in Live(u)
        BY <3>1 DEF CommitInv, CommitOf
      <4>3. ~(x.ptr > vertex_ptrs[u])
        <5> SUFFICES ASSUME x.ptr > vertex_ptrs[u] PROVE FALSE
          OBVIOUS
        <5>1. PICK e \in Client : x.ptr \in Unstamped(e)
          BY <4>2 DEF HeadInv, HeadOf
        <5>2. block[x.ptr].vid = u
          BY <1>l, <4>2
        <5>3. e = c
          BY <2>1, <5>1, <5>2, SoleWriter
        <5> QED BY <3>3, <5>1, <5>2, <5>3
      <4>4. vertex_ptrs[u] \in Live(u) /\ vertex_ptrs[u] \in Nat /\ vertex_ptrs[u] # NULLPOINTER
        <5>1. vertex_ptrs[u] \in Live(u) \cup {NULLPOINTER}
          BY DEF HeadInv, HeadOf
        <5>2. vertex_ptrs[u] # NULLPOINTER
          BY <1>t, <3>1, <4>3 DEF NULLPOINTER
        <5> QED BY <1>l, <5>1, <5>2
      <4>5. block[vertex_ptrs[u]].creation \in 0 .. read_epoch_id[c]
        <5>1. Newest(c, u) = vertex_ptrs[u]
          BY <4>1 DEF Newest
        <5>2. vertex_ptrs[u] \in Unstamped(c) \/ block[vertex_ptrs[u]].creation \in 0 .. read_epoch_id[c]
          BY <1>0, <2>1, <4>4, <5>1, OnTop
        <5>3. vertex_ptrs[u] \notin Unstamped(c)
          BY <1>l, <3>3, <4>4
        <5> QED BY <5>2, <5>3
      <4>6. block[vertex_ptrs[u]].creation \in Nat /\ block[vertex_ptrs[u]].creation <= read_epoch_id[c]
        BY <1>t, <4>5
      <4>7. \A e \in Client : vertex_ptrs[u] \notin Unstamped(e)
        BY <1>u, <4>6
      <4>8. x.epoch <= block[vertex_ptrs[u]].creation
        <5>1. CASE x.ptr = vertex_ptrs[u]
          <6>1. block[x.ptr].creation = x.epoch
            BY <3>1, <4>7, <5>1 DEF CommitInv, CommitOf
          <6> QED BY <1>t, <3>1, <5>1, <6>1
        <5>2. CASE vertex_ptrs[u] > x.ptr
          <6>1. block[vertex_ptrs[u]].creation > x.epoch
            BY <3>1, <4>4, <4>7, <5>2 DEF CommitInv, CommitOf
          <6> QED BY <1>t, <3>1, <4>6, <6>1
        <5> QED BY <1>t, <3>1, <4>3, <4>4, <5>1, <5>2
      <4> QED BY <1>t, <2>1, <3>1, <4>6, <4>8
    <3> QED BY <3>2, <3>3
  <2> QED BY <2>3, <2>4
<1>3. ASSUME NEW G \in SUBSET Client, Grants(G) PROVE Goal
  <2>1. /\ p \in Unstamped(d) /\ pc[d] # "install" /\ UNCHANGED <<block, read_epoch_id>>
    BY <1>3 DEF Grants
  <2>2. CASE x \in committed
    BY <1>i, <2>1, <2>2
  <2>3. CASE x \notin committed
    <3>1. PICK e \in G : \E v \in VertexId :
            /\ x = [vid |-> v, ptr |-> vertex_ptr_cache[e][v], epoch |-> sealed + 1, read |-> read_epoch_id[e]]
            /\ pc[e] = "registered" /\ x.ptr \in Unstamped(e) /\ x.ptr \in Live(v)
            /\ \A q \in Unstamped(e) : block[q].vid = v => q <= x.ptr
      BY <1>0, <1>3, <2>3, GrantedCommits
    <3>2. e \in Client /\ x.ptr \in Unstamped(e) /\ block[x.ptr].vid = x.vid
      BY <1>l, <3>1
    <3>3. e # d
      BY <1>3, <3>1 DEF Grants
    <3>4. x.vid \in acquired_locks[e] /\ x.vid \in acquired_locks[d]
      BY <2>1, <3>2 DEF LockInv, LockOf
    <3> QED BY <3>2, <3>3, <3>4 DEF LockInv, LockOf
  <2> QED BY <2>2, <2>3
<1>4. ASSUME NEW c \in Client, NEW u \in VertexId, NEW m \in Nat, Installs(c, u, m) PROVE Goal
  BY <1>i, <1>4 DEF Installs
<1>5. ASSUME NEW c \in Client, NEW r \in Nat, StampsOne(c, r) PROVE Goal
  <2>1. /\ p \in Unstamped(d) /\ pc[d] # "install" /\ x \in committed /\ read_epoch_id' = read_epoch_id
    BY <1>5 DEF StampsOne
  <2>2. block'[p].vid = block[p].vid
    BY <1>u, <1>5, <2>1 DEF StampsOne
  <2> QED BY <1>i, <2>1, <2>2
<1>6. ASSUME NEW c \in Client, Aborts(c) PROVE Goal
  <2>1. /\ d # c /\ p \in Unstamped(d) /\ x \in committed /\ read_epoch_id' = read_epoch_id
        /\ pc' = [pc EXCEPT ![c] = "clean"]
    BY <1>6 DEF Aborts
  <2>2. block'[p].vid = block[p].vid
    BY <1>u, <1>6, <2>1 DEF Aborts
  <2>3. pc[d] # "install"
    BY <1>t, <2>1
  <2> QED BY <1>i, <2>1, <2>2, <2>3
<1> HIDE DEF Goal
<1>7. Goal
  BY <1>1, <1>2, <1>3, <1>4, <1>5, <1>6, Effects, Zenon
<1> QED BY <1>7 DEF Goal

\* Of two commits of a vertex one had the other in its snapshot.
LEMMA WinsStep ==
  ASSUME RangeInv, LockInv, HeadInv, WriterInv, FirstCommitterWins, IdsUsedOnce, InRange, InRange',
         [Next]_vars
  PROVE  FirstCommitterWins'
<1> DEFINE Goal == \A x, y \in committed' :
                     x.vid = y.vid /\ x # y => x.epoch <= y.read \/ y.epoch <= x.read
<1>0. OwnInv
  BY DEF RangeInv
<1>l. \A u \in VertexId : \A r \in Live(u) : block[r].vid = u
  BY <1>0, LiveFacts
<1>k. ASSUME committed' = committed PROVE Goal
  BY <1>k DEF FirstCommitterWins
<1>1. ASSUME NEW G \in SUBSET Client, Grants(G) PROVE Goal
  <2> DEFINE New(x, d) == /\ pc[d] = "registered" /\ x.ptr \in Unstamped(d) /\ block[x.ptr].vid = x.vid
                          /\ x = [vid |-> x.vid, ptr |-> vertex_ptr_cache[d][x.vid],
                                  epoch |-> sealed + 1, read |-> read_epoch_id[d]]
  <2>1. ASSUME NEW x \in committed', x \notin committed PROVE \E d \in Client : New(x, d)
    <3>1. PICK d \in G : \E v \in VertexId :
            /\ x = [vid |-> v, ptr |-> vertex_ptr_cache[d][v], epoch |-> sealed + 1, read |-> read_epoch_id[d]]
            /\ pc[d] = "registered" /\ x.ptr \in Unstamped(d) /\ x.ptr \in Live(v)
            /\ \A q \in Unstamped(d) : block[q].vid = v => q <= x.ptr
      BY <1>0, <1>1, <2>1, GrantedCommits
    <3>2. PICK v \in VertexId :
            /\ x = [vid |-> v, ptr |-> vertex_ptr_cache[d][v], epoch |-> sealed + 1, read |-> read_epoch_id[d]]
            /\ pc[d] = "registered" /\ x.ptr \in Unstamped(d) /\ x.ptr \in Live(v)
      BY <3>1
    <3>3. x.vid = v /\ block[x.ptr].vid = v
      BY <1>l, <3>2
    <3>4. New(x, d)
      BY <3>2, <3>3
    <3> HIDE DEF New
    <3> QED BY <3>4
  <2>2. ASSUME NEW x \in committed, NEW d \in Client, NEW y \in committed', New(y, d), x.vid = y.vid
        PROVE  x.epoch <= y.read
    <3>1. x.epoch <= read_epoch_id[d]
      BY <2>2 DEF WriterInv, WriterOf
    <3>2. y.read = read_epoch_id[d]
      BY <2>2
    <3> QED BY <3>1, <3>2
  <2>3. ASSUME NEW d \in Client, NEW e \in Client, NEW x \in committed', New(x, d),
               NEW y \in committed', New(y, e), x.vid = y.vid
        PROVE  x = y
    <3>1. x.vid \in acquired_locks[d] /\ x.vid \in acquired_locks[e]
      BY <2>3 DEF LockInv, LockOf
    <3>2. d = e
      BY <3>1 DEF LockInv, LockOf
    <3> QED BY <2>3, <3>2
  <2> HIDE DEF New
  <2> SUFFICES ASSUME NEW x \in committed', NEW y \in committed', x.vid = y.vid, x # y
               PROVE  x.epoch <= y.read \/ y.epoch <= x.read
    OBVIOUS
  <2>4. CASE x \in committed /\ y \in committed
    BY <2>4 DEF FirstCommitterWins
  <2>5. CASE x \in committed /\ y \notin committed
    BY <2>1, <2>2, <2>5
  <2>6. CASE x \notin committed /\ y \in committed
    BY <2>1, <2>2, <2>6
  <2>7. CASE x \notin committed /\ y \notin committed
    BY <2>1, <2>3, <2>7
  <2> QED BY <2>4, <2>5, <2>6, <2>7
<1>2. \/ committed' = committed
      \/ \E G \in SUBSET Client : Grants(G)
  <2>1. Still => committed' = committed
    BY DEF Still
  <2>2. \A c \in Client, v \in VertexId, n \in Nat : Writes(c, v, n) => committed' = committed
    BY DEF Writes
  <2>3. \A c \in Client, v \in VertexId, m \in Nat : Installs(c, v, m) => committed' = committed
    BY DEF Installs
  <2>4. \A c \in Client, p \in Nat : StampsOne(c, p) => committed' = committed
    BY DEF StampsOne
  <2>5. \A c \in Client : Aborts(c) => committed' = committed
    BY DEF Aborts
  <2> QED BY <2>1, <2>2, <2>3, <2>4, <2>5, Effects, Zenon
<1> HIDE DEF Goal
<1>3. Goal
  BY <1>k, <1>1, <1>2, Zenon
<1> QED BY <1>3 DEF Goal, FirstCommitterWins

-----------------------------------------------------------------------------
(* When ids are used once: the tables of the vertices to compact. *)

\* A client comes to its compaction, and moves in it, only by its own steps.
LEMMA Compacts ==
  ASSUME Types, [Next]_vars, NEW d \in Client, pc'[d] = "compact"
  PROVE  Elsewhere(d) \/ Scanned(d) \/ \E v \in VertexId : CompactVertex(d, v) \/ CompactSkip(d, v)
<1>0. DOMAIN pc = Client /\ compacting \in [Client -> Compaction] /\ PlaceOf(d)
  BY DEF Types, TypeOK, PlaceInv, Compaction
<1>1. ASSUME NEW G \in SUBSET Client, d \in G, RegisterGroup(G) PROVE FALSE
  BY <1>1 DEF RegisterGroup
<1> USE DEF Goto
<1>2. ASSUME Step(d) PROVE Scanned(d)
  <2>1. compacting[d].resume \in {"idle", "open"}
    BY <1>0 DEF Compaction
  <2> QED BY <1>0, <1>2, <2>1 DEF Step, BeginLoad, BeginPublish, StartCompact, WalkOn, Return, Commit,
                Abort, PushRecycled, Stamp, StampAt, Stamped, Leave, Spin, Compact, Compacted
<1>3. ASSUME NEW v \in VertexId, StepAt(d, v) PROVE CompactVertex(d, v) \/ CompactSkip(d, v)
  BY <1>0, <1>3 DEF StepAt, GetVertex, PutVertex, Operate, Install, Unlock
<1>4. ASSUME NEW v, NEW b, DelVertex(d, v, b) \/ NewVertex(d, b) PROVE FALSE
  BY <1>0, <1>4 DEF DelVertex, NewVertex, Operate
<1>5. ASSUME NEW b \in BOOLEAN, FinishCommit(d, b) PROVE FALSE
  <2>1. CASE b
    BY <1>0, <1>5, <2>1 DEF FinishCommit
  <2>2. CASE ~b
    BY <1>0, <1>5, <2>2 DEF FinishCommit
  <2> QED BY <2>1, <2>2
<1>6. ASSUME NEW t, ScanThread(d, t) PROVE FALSE
  BY <1>0, <1>6 DEF ScanThread, ScanWith
<1> HIDE DEF Goto
<1> QED BY <1>1, <1>2, <1>3, <1>4, <1>5, <1>6, Actors, Zenon DEF By

\* Only the end of a compaction takes a vertex from a table.
LEMMA Tables ==
  ASSUME Types, [Next]_vars
  PROVE  \/ \E c \in Client : Compacted(c)
         \/ \A t \in Thread : compact_table[t] \subseteq compact_table'[t]
<1> DEFINE Grow == \A t \in Thread : compact_table[t] \subseteq compact_table'[t]
<1>0. DOMAIN compact_table = Thread /\ \A c \in Client : ThreadOf[c] \in Thread
  BY ThreadsAssumption DEF Types, TypeOK
<1>k. UNCHANGED compact_table => Grow
  OBVIOUS
<1>1. ASSUME NEW c \in Client, Step(c) PROVE Grow \/ Compacted(c)
  <2>1. UNCHANGED compact_table \/ Compacted(c)
    BY <1>1 DEF Step, BeginLoad, BeginPublish, WalkOn, Return, Commit, Abort, PushRecycled, Stamp,
                StampAt, Stamped, Leave, Spin, Compact, Scanned
  <2> QED BY <1>k, <2>1
<1>2. ASSUME NEW c \in Client, NEW v, NEW dead, AddVersion(c, v, dead) PROVE Grow
  BY <1>0, <1>2 DEF AddVersion
<1>3. NoVersion => Grow
  BY DEF NoVersion
<1>4. ASSUME NEW c \in Client, NEW v, StepAt(c, v) PROVE Grow
  <2>1. CASE PutVertex(c, v)
    BY <1>2, <1>3, <2>1, Zenon DEF PutVertex
  <2>2. CASE ~PutVertex(c, v)
    <3>1. UNCHANGED compact_table
      BY <1>4, <2>2 DEF StepAt, GetVertex, Install, Unlock, CompactVertex, CompactSkip
    <3> QED BY <1>k, <3>1
  <2> QED BY <2>1, <2>2
<1>5. ASSUME NEW c \in Client, NEW v, NEW b, DelVertex(c, v, b) PROVE Grow
  BY <1>2, <1>3, <1>5, Zenon DEF DelVertex
<1>6. ASSUME NEW c \in Client, NEW b, NewVertex(c, b) PROVE Grow
  BY <1>k, <1>6 DEF NewVertex
<1>7. ASSUME NEW c \in Client, NEW b \in BOOLEAN, FinishCommit(c, b) PROVE Grow
  BY <1>k, <1>7 DEF FinishCommit
<1>8. ASSUME NEW c \in Client, NEW t, ScanThread(c, t) PROVE Grow
  BY <1>k, <1>8 DEF ScanThread, ScanWith
<1>9. ASSUME NEW G, RegisterGroup(G) PROVE Grow
  BY <1>k, <1>9 DEF RegisterGroup
<1>10. Publish => Grow
  BY <1>k DEF Publish
<1>11. UNCHANGED vars => Grow
  BY <1>k DEF vars
<1> HIDE DEF Grow
<1>12. (\E c \in Client : Compacted(c)) \/ Grow
  BY <1>1, <1>4, <1>5, <1>6, <1>7, <1>8, <1>9, <1>10, <1>11, Steps, Zenon
<1> QED BY <1>12 DEF Grow

\* A vertex is tracked until a compaction of the thread finds nothing left to do for it.
LEMMA TracksStep ==
  ASSUME Types, [Next]_vars, NEW t \in Thread, NEW v \in VertexId, Tracks(t, v),
         \A c \in Client : CompactVertex(c, v) => NeedsFuture(v, compacting[c].bound)
  PROVE  Tracks(t, v)'
<1>0. /\ DOMAIN compact_table = Thread /\ TypeOK /\ DOMAIN pc = Client
      /\ compacting \in [Client -> Compaction]
      /\ \A c \in Client : ThreadOf[c] \in Thread
  BY ThreadsAssumption DEF Types, TypeOK, Compaction
<1>1. v \in compact_table'[t]
  <2>1. CASE \A s \in Thread : compact_table[s] \subseteq compact_table'[s]
    BY <2>1 DEF Tracks
  <2>2. ASSUME NEW c \in Client, Compacted(c) PROVE v \in compact_table'[t]
    <3>1. /\ pc[c] = "compact" /\ compacting[c].todo = {}
          /\ compact_table' = [compact_table EXCEPT ![ThreadOf[c]] = compacting[c].keep]
      BY <2>2 DEF Compacted
    <3>2. ThreadOf[c] = t => v \in compacting[c].keep
      BY <3>1 DEF Tracks
    <3> QED BY <1>0, <3>1, <3>2 DEF Tracks
  <2> QED BY <2>1, <2>2, Tables
<1>2. ASSUME NEW d \in Client, ThreadOf[d] = t, pc'[d] = "compact"
      PROVE  v \in compacting'[d].todo \cup compacting'[d].keep
  <2>1. CASE Elsewhere(d)
    BY <1>2, <2>1 DEF Elsewhere, Tracks
  <2>2. CASE Scanned(d)
    <3>1. compacting'[d].todo = compact_table[ThreadOf[d]]
      BY <1>0, <2>2, ScannedStep
    <3> QED BY <1>2, <3>1 DEF Tracks
  <2>3. ASSUME NEW u \in VertexId, CompactVertex(d, u)
        PROVE  v \in compacting'[d].todo \cup compacting'[d].keep
    <3>1. /\ pc[d] = "compact"
          /\ compacting'[d].todo = compacting[d].todo \ {u}
          /\ compacting'[d].keep =
               compacting[d].keep \cup IF NeedsFuture(u, compacting[d].bound) THEN {u} ELSE {}
      BY <2>3, CompactEffect
    <3>2. v \in compacting[d].todo \cup compacting[d].keep
      BY <1>2, <3>1 DEF Tracks
    <3>3. u = v => NeedsFuture(u, compacting[d].bound)
      BY <2>3
    <3> QED BY <3>1, <3>2, <3>3
  <2>4. ASSUME NEW u \in VertexId, CompactSkip(d, u)
        PROVE  v \in compacting'[d].todo \cup compacting'[d].keep
    <3>1. pc[d] = "compact" /\ Done(d, u, {u}) /\ {u} \in SUBSET VertexId
      BY <2>4 DEF CompactSkip
    <3>2. /\ compacting'[d].todo = compacting[d].todo \ {u}
          /\ compacting'[d].keep = compacting[d].keep \cup {u}
      BY <1>0, <3>1, DoneStep
    <3>3. v \in compacting[d].todo \cup compacting[d].keep
      BY <1>2, <3>1 DEF Tracks
    <3> QED BY <3>2, <3>3
  <2> QED BY <1>2, <2>1, <2>2, <2>3, <2>4, Compacts, Zenon
<1> QED BY <1>1, <1>2 DEF Tracks

\* A chain stays in a set of versions which its first one is in and no predecessor leaves.
LEMMA ReachWithin ==
  ASSUME NEW h, NEW S \in SUBSET DOMAIN block, h \in S \cup {NULLPOINTER},
         \A r \in S : block[r].prev \in S \cup {NULLPOINTER}
  PROVE  Reach(h) \subseteq S
<1> SUFFICES ASSUME NEW q \in Reach(h) PROVE q \in S
  OBVIOUS
<1>1. \A Behind \in SUBSET DOMAIN block :
        /\ h \in Behind \cup {NULLPOINTER}
        /\ \A r \in Behind : block[r].prev \in Behind \cup {NULLPOINTER}
        => q \in Behind
  BY Zenon DEF Reach
<1> QED BY <1>1, Zenon

\* The head of a chain is its newest version.
LEMMA HeadReach ==
  ASSUME Types, NEW h \in DOMAIN block
  PROVE  h \in Reach(h) /\ \A q \in Reach(h) : q <= h
<1>0. \A r \in DOMAIN block : r \in Nat /\ r > 0 /\ block[r].prev \in Nat /\ block[r].prev < r
  BY Facts DEF Types, OlderInv
<1>1. h \in Reach(h)
  BY <1>0 DEF Reach, NULLPOINTER
<1>2. ASSUME NEW q \in Reach(h) PROVE q <= h
  <2> DEFINE Below == {r \in DOMAIN block : r <= h}
  <2>1. DOMAIN block = 1 .. Len(block) /\ Len(block) \in Nat
    BY Facts DEF Types
  <2>2. \A r \in Below : block[r].prev \in Below \cup {NULLPOINTER}
    BY <1>0, <2>1 DEF NULLPOINTER
  <2>3. Below \in SUBSET DOMAIN block /\ h \in Below \cup {NULLPOINTER}
    BY <1>0
  <2> HIDE DEF Below
  <2>4. Reach(h) \subseteq Below
    BY <2>2, <2>3, ReachWithin
  <2> QED BY <2>4 DEF Below
<1> QED BY <1>1, <1>2

\* A head that is old enough is where compaction cuts.
LEMMA HeadCut ==
  ASSUME Types, NEW v \in VertexId, NEW bound, vertex_ptrs[v] \in DOMAIN block,
         Before(block[vertex_ptrs[v]].creation, bound)
  PROVE  vertex_ptrs[v] \in Cuts(v, bound)
BY HeadReach DEF Cuts

\* No step changes a version but for its stamp or a cut, and a new head is its writer's.
LEMMA Keeps ==
  ASSUME RangeInv, LockInv, HeadInv, IdsUsedOnce, InRange, InRange', [Next]_vars
  PROVE  /\ \A p \in DOMAIN block : /\ block'[p].vid = block[p].vid
                                    /\ block'[p].prev \in {block[p].prev, NULLPOINTER}
         /\ \A v \in VertexId :
              \/ vertex_ptrs'[v] = vertex_ptrs[v]
              \/ \E c \in Client : vertex_ptrs'[v] \in Unstamped(c) /\ block[vertex_ptrs'[v]].vid = v
<1> DEFINE Goal == /\ \A p \in DOMAIN block : /\ block'[p].vid = block[p].vid
                                              /\ block'[p].prev \in {block[p].prev, NULLPOINTER}
                   /\ \A v \in VertexId :
                        \/ vertex_ptrs'[v] = vertex_ptrs[v]
                        \/ \E c \in Client : vertex_ptrs'[v] \in Unstamped(c) /\ block[vertex_ptrs'[v]].vid = v
<1>0. OwnInv
  BY DEF RangeInv
<1>1. Still => Goal
  BY DEF Still
<1>2. ASSUME NEW c \in Client, NEW u \in VertexId, NEW n \in Nat, Writes(c, u, n) PROVE Goal
  BY <1>2 DEF Writes, Adds
<1>3. ASSUME NEW G \in SUBSET Client, Grants(G) PROVE Goal
  BY <1>3 DEF Grants
<1>4. ASSUME NEW c \in Client, NEW u \in VertexId, NEW m \in Nat, Installs(c, u, m) PROVE Goal
  <2>1. /\ UNCHANGED block /\ pc[c] = "install" /\ m = vertex_ptr_cache[c][u] /\ m # NULLPOINTER
        /\ vertex_ptrs'[u] = m /\ \A v \in VertexId \ {u} : vertex_ptrs'[v] = vertex_ptrs[v]
    BY <1>4 DEF Installs
  <2>2. m \in Unstamped(c) /\ m \in Live(u)
    BY <1>0, <2>1, LiveFacts
  <2>3. block[m].vid = u
    BY <2>2 DEF Live
  <2> QED BY <2>1, <2>2, <2>3
<1>5. ASSUME NEW c \in Client, NEW r \in Nat, StampsOne(c, r) PROVE Goal
  BY <1>5 DEF StampsOne
<1>6. ASSUME NEW c \in Client, Aborts(c) PROVE Goal
  BY <1>6 DEF Aborts
<1> HIDE DEF Goal
<1>7. Goal
  BY <1>1, <1>2, <1>3, <1>4, <1>5, <1>6, Effects, Zenon
<1> QED BY <1>7 DEF Goal

LEMMA TrackStep ==
  ASSUME RangeInv, LockInv, HeadInv, TrackInv, IdsUsedOnce, InRange, InRange', [Next]_vars
  PROVE  TrackInv'
<1>0. /\ OwnInv /\ Types /\ HoldsInv /\ \A c \in Client : ThreadOf[c] \in Thread
      /\ DOMAIN compact_table = Thread
      /\ \A v \in VertexId : vertex_ptrs[v] # NULLPOINTER => vertex_ptrs[v] \in DOMAIN block
  <2>1. OwnInv /\ Types
    BY DEF RangeInv, OwnInv
  <2>2. DOMAIN compact_table = Thread
    BY <2>1 DEF Types, TypeOK
  <2>3. \A v \in VertexId : vertex_ptrs[v] # NULLPOINTER => vertex_ptrs[v] \in DOMAIN block
    BY <2>1, Facts DEF Types, NULLPOINTER
  <2> QED BY <2>1, <2>2, <2>3, ThreadsAssumption DEF OwnInv
<1>u. \A d \in Client : \A r \in Unstamped(d) : r \in DOMAIN block /\ block[r].vid \in VertexId
  BY <1>0, LiveFacts
<1>e. /\ \A p \in DOMAIN block : /\ block'[p].vid = block[p].vid
                                 /\ block'[p].prev \in {block[p].prev, NULLPOINTER}
      /\ \A v \in VertexId :
           \/ vertex_ptrs'[v] = vertex_ptrs[v]
           \/ \E c \in Client : vertex_ptrs'[v] \in Unstamped(c) /\ block[vertex_ptrs'[v]].vid = v
  BY Keeps
<1>k. ASSUME NEW d \in Client, NEW p \in Unstamped(d), NEW v \in VertexId, v = block[p].vid
      PROVE  Tracks(ThreadOf[d], v)'
  <2>1. Tracks(ThreadOf[d], v)
    BY <1>k DEF TrackInv
  <2>2. vertex_futexes[v] # 0
    BY <1>k DEF LockInv, LockOf
  <2>3. \A c \in Client : ~CompactVertex(c, v)
    BY <2>2 DEF CompactVertex
  <2> QED BY <1>0, <2>1, <2>3, TracksStep
<1>1. ASSUME NEW d \in Client, NEW p \in Unstamped(d)', NEW v, v = block'[p].vid
      PROVE  Tracks(ThreadOf[d], v)'
  <2>1. CASE p \in Unstamped(d)
    BY <1>1, <1>e, <1>k, <1>u, <2>1
  <2>2. CASE p \notin Unstamped(d)
    <3>1. PICK u \in VertexId : \E n \in Nat :
            Write(d, u) /\ Adds(d, u, n) /\ Unstamped(d)' = Unstamped(d) \cup {n}
      BY <1>0, <2>2, UnstampedStep
    <3>2. PICK n \in Nat : Write(d, u) /\ Adds(d, u, n) /\ Unstamped(d)' = Unstamped(d) \cup {n}
      BY <3>1
    <3>3. /\ block'[n].vid = u /\ p = n
          /\ compact_table' = [compact_table EXCEPT ![ThreadOf[d]] = compact_table[ThreadOf[d]] \cup {u}]
      BY <2>2, <3>2 DEF Adds
    <3>4. pc[d] = "open" /\ ThreadFree(d) /\ pc' = pc
      BY <3>2 DEF Write
    <3>5. \A e \in Client : ThreadOf[e] = ThreadOf[d] => pc'[e] # "compact"
      BY <3>4 DEF ThreadFree
    <3>6. v = u /\ u \in compact_table'[ThreadOf[d]]
      BY <1>0, <1>1, <3>3
    <3> QED BY <3>5, <3>6 DEF Tracks
  <2> QED BY <2>1, <2>2
<1>2. ASSUME NEW v \in VertexId, vertex_ptrs'[v] # NULLPOINTER, block'[vertex_ptrs'[v]].prev # NULLPOINTER
      PROVE  \E t \in Thread : Tracks(t, v)'
  <2>1. ASSUME NEW c \in Client, vertex_ptrs'[v] \in Unstamped(c), block[vertex_ptrs'[v]].vid = v
        PROVE  \E t \in Thread : Tracks(t, v)'
    BY <1>0, <1>k, <2>1
  <2>2. ASSUME vertex_ptrs'[v] = vertex_ptrs[v] PROVE \E t \in Thread : Tracks(t, v)'
    <3> DEFINE h == vertex_ptrs[v]
    <3>1. h # NULLPOINTER /\ h \in DOMAIN block /\ block'[h].prev # NULLPOINTER
      BY <1>0, <1>2, <2>2
    <3>2. block[h].prev # NULLPOINTER
      BY <1>e, <3>1
    <3>3. PICK t \in Thread : Tracks(t, v)
      BY <3>1, <3>2 DEF TrackInv
    <3>4. ASSUME NEW c \in Client, CompactVertex(c, v) PROVE NeedsFuture(v, compacting[c].bound)
      <4> SUFFICES ASSUME Before(block[h].creation, compacting[c].bound) PROVE FALSE
        BY <3>1, <3>2 DEF NeedsFuture
      <4>1. h \in Cuts(v, compacting[c].bound)
        BY <1>0, <3>1, HeadCut
      <4>2. block'[h].prev = IF h \in Cuts(v, compacting[c].bound) THEN NULLPOINTER ELSE block[h].prev
        BY <1>0, <3>1, <3>4, CompactEffect
      <4> QED BY <3>1, <4>1, <4>2
    <3>5. Tracks(t, v)'
      BY <1>0, <3>3, <3>4, TracksStep
    <3> QED BY <3>5
  <2> QED BY <1>e, <2>1, <2>2
<1> QED BY <1>1, <1>2 DEF TrackInv

-----------------------------------------------------------------------------
(* When ids are used once: the theorems. *)

\* Before any step.
LEMMA First ==
  ASSUME Init
  PROVE  /\ DOMAIN block = 1 .. Loaded /\ Loaded \in Nat
         /\ \A p \in DOMAIN block : block[p].vid = p - 1 /\ block[p].creation = 0 /\ block[p].prev = NULLPOINTER
         /\ \A v \in VertexId : vertex_ptrs[v] = IF v < Loaded THEN v + 1 ELSE NULLPOINTER
         /\ vertex_id = Loaded /\ ROLLBACK_TOMBSTONE # 0
         /\ \A v \in VertexId : v \in Nat /\ Live(v) = {p \in DOMAIN block : p = v + 1}
         /\ \A x \in committed : x.vid \in Nat /\ x.vid < Loaded /\ x.ptr = x.vid + 1 /\ x.epoch = 0
         /\ \A c \in Client : /\ pc[c] = "idle" /\ acquired_locks[c] = {}
                              /\ recycled_vertex_cache[c] = <<>> /\ Unstamped(c) = {}
<1>1. /\ DOMAIN block = 1 .. Loaded /\ Loaded \in Nat
      /\ \A p \in DOMAIN block : block[p].vid = p - 1 /\ block[p].creation = 0 /\ block[p].prev = NULLPOINTER
  BY BoundsAssumption DEF Init, LoadedBlocks
<1>2. \A v \in VertexId : v \in Nat
  BY BoundsAssumption DEF VertexId
<1>3. \A v \in VertexId : vertex_ptrs[v] = IF v < Loaded THEN v + 1 ELSE NULLPOINTER
  BY <1>1, <1>2 DEF Init, LoadedVertices
<1>4. vertex_id = Loaded /\ ROLLBACK_TOMBSTONE # 0
  BY DEF Init, ROLLBACK_TOMBSTONE
<1>5. \A v \in VertexId : Live(v) = {p \in DOMAIN block : p = v + 1}
  BY <1>1, <1>2, <1>4 DEF Live
<1>6. \A x \in committed : x.vid \in Nat /\ x.vid < Loaded /\ x.ptr = x.vid + 1 /\ x.epoch = 0
  BY <1>1 DEF Init, LoadedVertices
<1>7. \A c \in Client : /\ pc[c] = "idle" /\ acquired_locks[c] = {}
                        /\ recycled_vertex_cache[c] = <<>> /\ Unstamped(c) = {}
  BY DEF Init, Unstamped
<1> QED BY <1>1, <1>2, <1>3, <1>4, <1>5, <1>6, <1>7

LEMMA OnceInit == Init => OnceInv
<1> SUFFICES ASSUME Init PROVE OnceInv
  OBVIOUS
<1>1. LockInv
  BY First DEF LockInv, LockOf
<1>2. StampsInv
  BY First DEF StampsInv, StampsOf
<1>3. HeadInv
  <2> SUFFICES ASSUME NEW v \in VertexId PROVE HeadOf(v)
    BY DEF HeadInv
  <2>1. v \in Nat /\ Loaded \in Nat /\ vertex_id = Loaded
    BY First
  <2>2. \A p \in Live(v) : p = v + 1 /\ v < Loaded
    BY <2>1, First
  <2>3. vertex_ptrs[v] \in Live(v) \cup {NULLPOINTER}
    BY <2>1, First
  <2>4. \A p \in Live(v) : ~(p > vertex_ptrs[v])
    BY <2>1, <2>2, First
  <2>5. v >= vertex_id => vertex_ptrs[v] = NULLPOINTER /\ \A p \in DOMAIN block : block[p].vid # v
    BY <2>1, First
  <2> QED BY <2>3, <2>4, <2>5, First DEF HeadOf
<1>4. LinkInv
  BY First DEF LinkInv, LinkOf, Live
<1>5. CommitInv
  <2> SUFFICES ASSUME NEW x \in committed PROVE CommitOf(x)
    BY DEF CommitInv
  <2>1. x.vid \in VertexId
    BY BoundsAssumption DEF Init, LoadedVertices, VertexId
  <2>2. x.ptr \in Live(x.vid) /\ block[x.ptr].creation = x.epoch
    BY <2>1, First
  <2>3. \A q \in Live(x.vid) : ~(q > x.ptr)
    BY <2>1, First
  <2> QED BY <2>2, <2>3 DEF CommitOf
<1>6. WriterInv
  BY First DEF WriterInv, WriterOf
<1>7. FirstCommitterWins
  <2>1. \A x \in committed : x.epoch = 0 /\ x.read = 0
    BY DEF Init
  <2> QED BY <2>1 DEF FirstCommitterWins
<1>8. TrackInv
  <2>1. \A v \in VertexId : vertex_ptrs[v] # NULLPOINTER => block[vertex_ptrs[v]].prev = NULLPOINTER
    BY First
  <2> QED BY <2>1, First DEF TrackInv
<1> QED BY <1>1, <1>2, <1>3, <1>4, <1>5, <1>6, <1>7, <1>8, RangeInit DEF OnceInv

LEMMA OnceStep ==
  ASSUME IdsUsedOnce, OnceInv, InRange, InRange', [Next]_vars
  PROVE  OnceInv'
<1>1. /\ RangeInv /\ LockInv /\ StampsInv /\ HeadInv /\ LinkInv /\ CommitInv /\ WriterInv
      /\ FirstCommitterWins /\ TrackInv
  BY DEF OnceInv
<1> QED BY <1>1, RangeInvStep, LockStep, StampsStep, HeadStep, LinkStep, CommitStep, WriterStep, WinsStep,
           TrackStep DEF OnceInv

\* The inductive invariant of the next theorems.
LEMMA OnceInvariance == ASSUME IdsUsedOnce PROVE Spec => [](OwnInv /\ (InRange => OnceInv))
<1> DEFINE I == OwnInv /\ (InRange => OnceInv)
<1>1. Init => I
  BY OwnInit, OnceInit
<1>2. I /\ [Next]_vars => I'
  <2> SUFFICES ASSUME I, [Next]_vars PROVE OwnInv' /\ (InRange' => OnceInv')
    OBVIOUS
  <2>1. OwnInv' /\ (InRange' => InRange)
    BY OwnStep, RangeStep DEF OwnInv
  <2> QED BY <2>1, OnceStep
<1> QED BY <1>1, <1>2, PTL DEF Spec

\* No update is lost: of two commits of a vertex one had the other in its snapshot, as long as no id is
\* used for a second vertex and the counters are in range; also when clients share threads.
THEOREM NoLostUpdate == ASSUME IdsUsedOnce PROVE Spec => [](InRange => FirstCommitterWins)
<1>1. OwnInv /\ (InRange => OnceInv) => (InRange => FirstCommitterWins)
  BY DEF OnceInv
<1> QED BY <1>1, OnceInvariance, PTL

\* A chain of two versions has a predecessor to its head.
LEMMA LongReach ==
  ASSUME Types, NEW h \in Nat, h # NULLPOINTER => h \in DOMAIN block, Cardinality(Reach(h)) > 1
  PROVE  h # NULLPOINTER /\ block[h].prev # NULLPOINTER
<1>0. NULLPOINTER = 0
  BY DEF NULLPOINTER
<1>1. h # NULLPOINTER
  <2> SUFFICES ASSUME h = NULLPOINTER PROVE FALSE
    OBVIOUS
  <2>1. Reach(h) \subseteq {}
    <3>1. {} \in SUBSET DOMAIN block /\ h \in {} \cup {NULLPOINTER}
      OBVIOUS
    <3>2. \A r \in {} : block[r].prev \in {} \cup {NULLPOINTER}
      OBVIOUS
    <3> QED BY <3>1, <3>2, ReachWithin, Zenon
  <2>2. Cardinality(Reach(h)) = 0
    BY <2>1, FS_EmptySet
  <2> QED BY <2>2
<1>2. block[h].prev # NULLPOINTER
  <2> SUFFICES ASSUME block[h].prev = NULLPOINTER PROVE FALSE
    OBVIOUS
  <2>1. Reach(h) \subseteq {h}
    <3>1. {h} \in SUBSET DOMAIN block /\ h \in {h} \cup {NULLPOINTER}
      BY <1>1
    <3>2. \A r \in {h} : block[r].prev \in {h} \cup {NULLPOINTER}
      OBVIOUS
    <3> QED BY <3>1, <3>2, ReachWithin, Zenon
  <2>2. h \in Reach(h)
    BY <1>1, HeadReach
  <2>3. Reach(h) = {h}
    BY <2>1, <2>2
  <2>4. Cardinality(Reach(h)) = 1
    BY <2>3, FS_Singleton
  <2> QED BY <2>4
<1> QED BY <1>1, <1>2

\* Garbage is not forgotten: a vertex with more than one version is in the table of some thread, under
\* the same conditions.
THEOREM Tracking == ASSUME IdsUsedOnce PROVE Spec => [](InRange => GarbageTracked)
<1>1. OwnInv /\ (InRange => OnceInv) => (InRange => GarbageTracked)
  <2> SUFFICES ASSUME OwnInv, OnceInv, NEW v \in VertexId, Cardinality(Reach(vertex_ptrs[v])) > 1
               PROVE  \E t \in Thread : v \in compact_table[t]
    BY DEF GarbageTracked
  <2>1. Types /\ vertex_ptrs[v] \in Nat /\ (vertex_ptrs[v] # NULLPOINTER => vertex_ptrs[v] \in DOMAIN block)
    BY Facts DEF OwnInv, Types, NULLPOINTER
  <2>2. vertex_ptrs[v] # NULLPOINTER /\ block[vertex_ptrs[v]].prev # NULLPOINTER
    BY <2>1, LongReach
  <2> QED BY <2>2 DEF OnceInv, TrackInv, Tracks
<1> QED BY <1>1, OnceInvariance, PTL

-----------------------------------------------------------------------------
(* When each client has its thread: the table of snapshots and the bounds of compactions. *)

LEMMA TableChange ==
  ASSUME [Next]_vars
  PROVE  read_epoch_table' = read_epoch_table \/ \E c \in Client : BeginPublish(c) \/ Leave(c)
<1> USE DEF begins
<1>1. ASSUME NEW c \in Client, Step(c)
      PROVE  read_epoch_table' = read_epoch_table \/ BeginPublish(c) \/ Leave(c)
  BY <1>1 DEF Step, BeginLoad, WalkOn, Return, Commit, Abort, PushRecycled, Stamp, StampAt, Stamped,
              Spin, Compact, Scanned, Compacted
<1>2. ASSUME NEW c \in Client, NEW v, StepAt(c, v) PROVE read_epoch_table' = read_epoch_table
  BY <1>2 DEF StepAt, GetVertex, PutVertex, Install, Unlock, CompactVertex, CompactSkip
<1>3. ASSUME NEW c \in Client, NEW v, NEW b, DelVertex(c, v, b) \/ NewVertex(c, b)
      PROVE  read_epoch_table' = read_epoch_table
  BY <1>3 DEF DelVertex, NewVertex
<1>4. ASSUME NEW c \in Client, NEW b \in BOOLEAN, FinishCommit(c, b) PROVE read_epoch_table' = read_epoch_table
  BY <1>4 DEF FinishCommit
<1>5. ASSUME NEW c \in Client, NEW t, ScanThread(c, t) PROVE read_epoch_table' = read_epoch_table
  BY <1>5 DEF ScanThread, ScanWith
<1>6. ASSUME NEW G, RegisterGroup(G) PROVE read_epoch_table' = read_epoch_table
  BY <1>6 DEF RegisterGroup
<1>7. Publish \/ UNCHANGED vars => read_epoch_table' = read_epoch_table
  BY DEF Publish, vars
<1> QED BY <1>1, <1>2, <1>3, <1>4, <1>5, <1>6, <1>7, Steps, Zenon

\* A client leaves the first step of its begin, and enters a compaction, only by its own steps.
LEMMA Publishes ==
  ASSUME Types, [Next]_vars, NEW d \in Client, pc[d] = "publish"
  PROVE  pc'[d] = "publish" \/ BeginPublish(d)
<1>0. DOMAIN pc = Client
  BY DEF Types, TypeOK
<1>1. Elsewhere(d) => pc'[d] = "publish"
  BY DEF Elsewhere
<1>2. ASSUME NEW G \in SUBSET Client, RegisterGroup(G), d \in G PROVE FALSE
  BY <1>2 DEF RegisterGroup, Grant, Queued, Types, PlaceInv, PlaceOf
<1>3. Step(d) => BeginPublish(d)
  BY DEF Step, BeginLoad, WalkOn, Return, Commit, Abort, PushRecycled, Stamp, StampAt, Stamped, Leave,
         Spin, Compact, Scanned, Compacted
<1>4. ASSUME NEW v, NEW b, StepAt(d, v) \/ DelVertex(d, v, b) \/ NewVertex(d, b) PROVE FALSE
  BY <1>4 DEF StepAt, DelVertex, NewVertex, GetVertex, PutVertex, Operate, Install, Unlock, CompactVertex,
              CompactSkip
<1>5. ASSUME NEW b, FinishCommit(d, b) PROVE FALSE
  BY <1>5 DEF FinishCommit
<1>6. ASSUME NEW t, ScanThread(d, t) PROVE FALSE
  BY <1>6 DEF ScanThread, ScanWith
<1> QED BY <1>1, <1>2, <1>3, <1>4, <1>5, <1>6, Actors, Zenon DEF By

LEMMA Scans ==
  ASSUME Types, [Next]_vars, NEW d \in Client, pc'[d] \in {"scan", "compact"}
  PROVE  \/ Elsewhere(d) \/ Scanned(d) \/ BeginPublish(d) \/ Compact(d)
         \/ \E v \in VertexId : CompactVertex(d, v) \/ CompactSkip(d, v)
         \/ \E t \in Thread : ScanThread(d, t)
<1>0. DOMAIN pc = Client /\ compacting \in [Client -> Compaction] /\ PlaceOf(d)
  BY DEF Types, TypeOK, PlaceInv, Compaction
<1>1. ASSUME NEW G \in SUBSET Client, d \in G, RegisterGroup(G) PROVE FALSE
  BY <1>1 DEF RegisterGroup
<1> USE DEF Goto
<1>2. ASSUME Step(d) PROVE Scanned(d) \/ BeginPublish(d) \/ Compact(d)
  <2>1. compacting[d].resume \in {"idle", "open"}
    BY <1>0 DEF Compaction
  <2> QED BY <1>0, <1>2, <2>1 DEF Step, BeginLoad, WalkOn, Return, Commit,
                Abort, PushRecycled, Stamp, StampAt, Stamped, Leave, Spin, Compacted
<1>3. ASSUME NEW v \in VertexId, StepAt(d, v) PROVE CompactVertex(d, v) \/ CompactSkip(d, v)
  BY <1>0, <1>3 DEF StepAt, GetVertex, PutVertex, Operate, Install, Unlock
<1>4. ASSUME NEW v, NEW b, DelVertex(d, v, b) \/ NewVertex(d, b) PROVE FALSE
  BY <1>0, <1>4 DEF DelVertex, NewVertex, Operate
<1>5. ASSUME NEW b \in BOOLEAN, FinishCommit(d, b) PROVE FALSE
  <2>1. CASE b
    BY <1>0, <1>5, <2>1 DEF FinishCommit
  <2>2. CASE ~b
    BY <1>0, <1>5, <2>2 DEF FinishCommit
  <2> QED BY <2>1, <2>2
<1> HIDE DEF Goto
<1> QED BY <1>1, <1>2, <1>3, <1>4, <1>5, Actors, Zenon DEF By

\* What begins with a snapshot has the newest one.
LEMMA Begun ==
  ASSUME Types, NEW d \in Client, BeginLoad(d)
  PROVE  read_epoch_id'[d] = visible /\ pc'[d] = "publish" /\ visible' = visible
<1>1. DOMAIN read_epoch_id = Client /\ DOMAIN pc = Client
  BY DEF Types, TypeOK
<1> QED BY <1>1 DEF BeginLoad, Goto, epoch_id, epochsVars

\* A thread's place in the table is its client's snapshot.
LEMMA TableStep ==
  ASSUME OwnThreads, Types, TableInv, [Next]_vars
  PROVE  TableInv'
<1> SUFFICES ASSUME NEW d \in Client, Active(d)', pc'[d] # "publish"
             PROVE  read_epoch_table'[ThreadOf[d]] = read_epoch_id'[d]
  BY DEF TableInv, TableOf
<1>0. /\ DOMAIN pc = Client /\ DOMAIN read_epoch_table = Thread /\ PlaceOf(d)
      /\ \A c \in Client : ThreadOf[c] \in Thread
  BY ThreadsAssumption DEF Types, TypeOK, PlaceInv
<1>1. read_epoch_id'[d] = read_epoch_id[d] /\ Active(d)
  BY Snapshots, Begun
<1>2. \A c \in Client : c # d => ThreadOf[c] # ThreadOf[d]
  BY DEF OwnThreads
<1>3. CASE pc[d] = "publish"
  <2>1. BeginPublish(d)
    BY <1>3, Publishes
  <2>2. read_epoch_table' = [read_epoch_table EXCEPT ![ThreadOf[d]] = read_epoch_id[d]]
    BY <2>1 DEF BeginPublish
  <2> QED BY <1>0, <1>1, <2>2
<1>4. CASE pc[d] # "publish"
  <2>1. read_epoch_table[ThreadOf[d]] = read_epoch_id[d]
    BY <1>1, <1>4 DEF TableInv, TableOf
  <2>2. ASSUME NEW c \in Client, BeginPublish(c) PROVE read_epoch_table'[ThreadOf[d]] = read_epoch_table[ThreadOf[d]]
    <3>1. /\ pc[c] = "publish"
          /\ read_epoch_table' = [read_epoch_table EXCEPT ![ThreadOf[c]] = read_epoch_id[c]]
      BY <2>2 DEF BeginPublish
    <3>2. c # d
      BY <1>4, <3>1
    <3> QED BY <1>0, <1>2, <3>1, <3>2
  <2>3. ASSUME NEW c \in Client, Leave(c) PROVE read_epoch_table'[ThreadOf[d]] = read_epoch_table[ThreadOf[d]]
    <3>1. /\ pc[c] = "clean" /\ pc'[c] \in {"finish", "idle"} /\ compacting' = compacting
          /\ read_epoch_table' = [read_epoch_table EXCEPT ![ThreadOf[c]] = NO_TRANSACTION]
      BY <1>0, <2>3 DEF Leave, Goto
    <3>2. c # d
      BY <1>0, <3>1 DEF Active, PlaceOf, NotCompacting
    <3> QED BY <1>0, <1>2, <3>1, <3>2
  <2> QED BY <1>1, <2>1, <2>2, <2>3, TableChange
<1> QED BY <1>3, <1>4

\* A compaction's bound is not above the snapshots it has seen.
LEMMA BoundInvStep ==
  ASSUME OwnThreads, Types, TableInv, BoundInv, [Next]_vars
  PROVE  BoundInv'
<1> SUFFICES ASSUME NEW c \in Client, pc'[c] \in {"scan", "compact"}
             PROVE  /\ Bounded(c, visible)'
                    /\ pc'[c] = "compact" => compacting'[c].threads = {}
                    /\ \A d \in Client : Active(d)' /\ ThreadOf[d] \notin compacting'[c].threads =>
                         Bounded(c, read_epoch_id[d])'
  BY DEF BoundInv, BoundOf
<1> DEFINE Bound(e) == \/ compacting'[c].bound <= e
                       \/ /\ compacting'[c].resume = "open" /\ ThreadOf[c] \in compacting'[c].threads
                          /\ read_epoch_id'[c] <= e
           Goal == /\ Bound(visible')
                   /\ pc'[c] = "compact" => compacting'[c].threads = {}
                   /\ \A d \in Client : Active(d)' /\ ThreadOf[d] \notin compacting'[c].threads =>
                        Bound(read_epoch_id'[d])
<1>0. /\ DOMAIN pc = Client /\ compacting \in [Client -> Compaction] /\ PlaceOf(c) /\ TypeOK
      /\ DOMAIN compacting = Client
      /\ \A d \in Client : ThreadOf[d] \in Thread
  BY ThreadsAssumption DEF Types, TypeOK, PlaceInv, Compaction
<1>n. /\ visible \in Nat /\ visible' \in Nat /\ visible <= visible'
      /\ \A d \in Client : read_epoch_id[d] \in Nat /\ read_epoch_id[d] <= visible
      /\ \A d \in Client : compacting[d].bound \in Nat
  <2>1. visible \in Nat /\ \A d \in Client : read_epoch_id[d] \in Nat /\ read_epoch_id[d] <= visible
    BY Facts DEF Types
  <2>2. visible' \in Nat /\ visible' >= visible
    BY EpochsStep DEF Types
  <2>3. \A d \in Client : compacting[d].bound \in Nat
    BY <1>0 DEF Compaction
  <2> QED BY <2>1, <2>2, <2>3
<1>r. read_epoch_id'[c] = read_epoch_id[c]
  BY Snapshots, Begun
<1>i. pc[c] \in {"scan", "compact"} =>
        /\ Bounded(c, visible)
        /\ pc[c] = "compact" => compacting[c].threads = {}
        /\ \A d \in Client : Active(d) /\ ThreadOf[d] \notin compacting[c].threads =>
             Bounded(c, read_epoch_id[d])
  BY DEF BoundInv, BoundOf
<1>k. ASSUME pc[c] \in {"scan", "compact"}, pc'[c] = "compact" => compacting[c].threads = {},
             compacting'[c].bound = compacting[c].bound,
             compacting'[c].threads = compacting[c].threads, compacting'[c].resume = compacting[c].resume
      PROVE  Goal
  <2>1. ASSUME NEW e \in Nat, NEW f \in Nat, e <= f, Bounded(c, e) PROVE Bound(f)
    BY <1>k, <1>n, <1>r, <2>1 DEF Bounded
  <2> HIDE DEF Bound
  <2>2. Bound(visible')
    BY <1>i, <1>k, <1>n, <2>1
  <2>3. ASSUME NEW d \in Client, Active(d)', ThreadOf[d] \notin compacting'[c].threads
        PROVE  Bound(read_epoch_id'[d])
    <3>1. CASE BeginLoad(d)
      <4>1. read_epoch_id'[d] = visible /\ visible <= visible
        BY <1>n, <3>1, Begun
      <4> QED BY <1>i, <1>k, <1>n, <2>1, <4>1
    <3>2. CASE read_epoch_id'[d] = read_epoch_id[d] /\ Active(d)
      <4>1. Bounded(c, read_epoch_id[d]) /\ read_epoch_id[d] <= read_epoch_id[d]
        BY <1>i, <1>k, <1>n, <2>3, <3>2
      <4> QED BY <1>n, <2>1, <3>2, <4>1
    <3> QED BY <2>3, <3>1, <3>2, Snapshots
  <2> QED BY <1>k, <2>2, <2>3
<1>1. ASSUME Elsewhere(c) PROVE Goal
  <2>1. pc'[c] = pc[c] /\ compacting'[c] = compacting[c]
    BY <1>1 DEF Elsewhere
  <2> HIDE DEF Goal
  <2> QED BY <1>i, <1>k, <2>1
<1>2. ASSUME Scanned(c) PROVE Goal
  <2>1. pc[c] = "scan" /\ compacting[c].threads = {}
    BY <1>2 DEF Scanned
  <2>2. /\ compacting'[c].bound = compacting[c].bound
        /\ compacting'[c].threads = compacting[c].threads /\ compacting'[c].resume = compacting[c].resume
    BY <1>0, <1>2, ScannedStep
  <2> HIDE DEF Goal
  <2> QED BY <1>k, <2>1, <2>2
<1>3. ASSUME NEW v \in VertexId, CompactVertex(c, v) \/ CompactSkip(c, v) PROVE Goal
  <2>1. pc[c] = "compact"
    BY <1>3 DEF CompactVertex, CompactSkip
  <2>2. PICK again \in SUBSET VertexId : Done(c, v, again)
    BY <1>3 DEF CompactVertex, CompactSkip
  <2>3. /\ compacting'[c].bound = compacting[c].bound
        /\ compacting'[c].threads = compacting[c].threads /\ compacting'[c].resume = compacting[c].resume
    BY <1>0, <2>2, DoneStep
  <2> HIDE DEF Goal
  <2> QED BY <1>i, <1>k, <2>1, <2>3
<1>4. ASSUME BeginPublish(c) \/ Compact(c) PROVE Goal
  <2>1. PICK bound, resume : /\ compacting'[c].bound = bound /\ compacting'[c].threads = Thread
                             /\ compacting'[c].resume = resume /\ pc'[c] = "scan"
                             /\ bound = visible \/ resume = "open"
                             /\ visible' = visible
    <3>1. ASSUME NEW bound, NEW resume, StartCompact(c, bound, resume)
          PROVE  /\ compacting'[c].bound = bound /\ compacting'[c].threads = Thread
                 /\ compacting'[c].resume = resume /\ pc'[c] = "scan"
      BY <1>0, <3>1 DEF StartCompact, Goto
    <3>2. CASE Compact(c)
      BY <3>1, <3>2 DEF Compact, epoch_id, epochsVars
    <3>3. CASE BeginPublish(c)
      <4>1. StartCompact(c, local_txn_id[c], "open") /\ visible' = visible
        BY <1>0, <3>3 DEF BeginPublish, Goto, epochsVars
      <4> QED BY <3>1, <4>1
    <3> QED BY <1>4, <3>2, <3>3
  <2> QED BY <1>0, <1>n, <1>r, <2>1
<1>5. ASSUME NEW t \in Thread, ScanThread(c, t) PROVE Goal
  <2>1. /\ compacting'[c].threads = compacting[c].threads \ {t}
        /\ compacting'[c].resume = compacting[c].resume
        /\ compacting'[c].bound =
             IF read_epoch_table[t] # NO_TRANSACTION /\ read_epoch_table[t] < compacting[c].bound
               THEN read_epoch_table[t] ELSE compacting[c].bound
        /\ \A d \in Client \ {c} : compacting'[d] = compacting[d]
    BY <1>5, BoundStep
  <2>2. /\ pc[c] = "scan" /\ UNCHANGED <<pc, visible, read_epoch_id>>
        /\ \A d \in Client : pc[d] # "publish"
    BY <1>5 DEF ScanThread, ScanWith, txn, epochsVars, OwnThreads
  <2>3. \A d \in Client : Active(d)' => Active(d)
    BY <2>1, <2>2 DEF Active
  <2>4. ASSUME NEW d \in Client, Active(d), ThreadOf[d] = t PROVE compacting'[c].bound <= read_epoch_id[d]
    <3>1. read_epoch_table[t] = read_epoch_id[d]
      BY <2>2, <2>4 DEF TableInv, TableOf
    <3>2. read_epoch_table[t] # NO_TRANSACTION
      BY <1>n, <3>1 DEF NO_TRANSACTION
    <3> QED BY <1>n, <2>1, <3>1, <3>2
  <2>5. compacting'[c].bound \in Int /\ compacting'[c].bound <= compacting[c].bound
    <3>1. read_epoch_table[t] \in Int
      BY <1>0, <1>n DEF TypeOK, NO_TRANSACTION
    <3> QED BY <1>n, <2>1, <3>1
  <2>6. ASSUME NEW e \in Nat, Bounded(c, e) PROVE Bound(e)
    <3>1. CASE compacting[c].bound <= e
      BY <1>n, <2>5, <3>1
    <3>2. CASE /\ compacting[c].resume = "open" /\ ThreadOf[c] \in compacting[c].threads
               /\ read_epoch_id[c] <= e
      <4>1. CASE ThreadOf[c] = t
        <5>1. compacting'[c].bound <= read_epoch_id[c]
          BY <2>4, <3>2, <4>1 DEF Active
        <5> QED BY <1>n, <2>5, <3>2, <5>1
      <4>2. CASE ThreadOf[c] # t
        BY <1>r, <2>1, <3>2, <4>2
      <4> QED BY <4>1, <4>2
    <3> QED BY <2>6, <3>1, <3>2 DEF Bounded
  <2>7. Bound(visible')
    BY <1>i, <1>n, <2>2, <2>6
  <2>8. ASSUME NEW d \in Client, Active(d)', ThreadOf[d] \notin compacting'[c].threads
        PROVE  Bound(read_epoch_id'[d])
    <3>1. Active(d) /\ read_epoch_id'[d] = read_epoch_id[d]
      BY <2>2, <2>3, <2>8
    <3>2. CASE ThreadOf[d] = t
      BY <2>4, <3>1, <3>2
    <3>3. CASE ThreadOf[d] # t
      <4>1. ThreadOf[d] \notin compacting[c].threads
        BY <2>1, <2>8, <3>3
      <4> QED BY <1>i, <1>n, <2>2, <2>6, <3>1, <4>1
    <3> QED BY <3>2, <3>3
  <2> HIDE DEF Bound
  <2> QED BY <2>2, <2>7, <2>8
<1> HIDE DEF Goal
<1>6. Goal
  BY <1>1, <1>2, <1>3, <1>4, <1>5, Scans, Zenon
<1> QED BY <1>6 DEF Goal, Bounded

-----------------------------------------------------------------------------
(* Snapshots: what a step leaves of the versions they need. *)

\* Only compaction cuts, and only where the walk of a reader may stop.
LEMMA Cutting ==
  ASSUME Types, HoldsInv, [Next]_vars, NEW p \in DOMAIN block, block'[p].prev # block[p].prev
  PROVE  \E c \in Client, v \in VertexId : CompactVertex(c, v) /\ p \in Cuts(v, compacting[c].bound)
<1> USE DEF blocks
<1>1. ~Calm
  BY DEF Calm, Quiet
<1>2. ASSUME NEW c \in Client, NEW b \in Reuse, NewVertex(c, b) PROVE FALSE
  BY <1>2 DEF NewVertex
<1>3. ASSUME NEW c \in Client, NEW v \in VertexId, Write(c, v) PROVE FALSE
  <2>1. ~NoVersion
    BY DEF NoVersion
  <2>2. PICK dead \in BOOLEAN : AddVersion(c, v, dead)
    BY <1>3, <2>1 DEF Write
  <2>3. pc[c] = "open" /\ c \notin ReadOnly /\ UNCHANGED <<transaction_id, epochsVars>>
    BY <1>3 DEF Write, begins
  <2>4. PICK n \in Nat : Adds(c, v, n)
    BY <2>2, <2>3, Added, Zenon
  <2> QED BY <2>4 DEF Adds
<1>4. ASSUME NEW G \in SUBSET Client, RegisterGroup(G) PROVE FALSE
  BY <1>4 DEF RegisterGroup
<1>5. ASSUME NEW c \in Client, NEW v \in VertexId, Install(c, v) \/ Unlock(c, v) PROVE FALSE
  BY <1>5 DEF Install, Unlock
<1>6. ASSUME NEW c \in Client, Stamped(c) \/ Leave(c) PROVE FALSE
  BY <1>6 DEF Stamped, Leave
<1>7. ASSUME NEW c \in Client, Stamp(c) PROVE FALSE
  BY <1>7, StampEffect
<1>8. ASSUME NEW c \in Client, Abort(c) PROVE FALSE
  BY <1>8, AbortEffect
<1>9. PICK c \in Client, v \in VertexId : CompactVertex(c, v)
  BY <1>1, <1>2, <1>3, <1>4, <1>5, <1>6, <1>7, <1>8, Kinds, Zenon
<1>10. p \in Cuts(v, compacting[c].bound)
  BY <1>9, CompactEffect
<1> QED BY <1>9, <1>10

\* Only an abort and a compaction free versions.
LEMMA Freeing ==
  ASSUME Types, HoldsInv, [Next]_vars
  PROVE  \/ freed' = freed
         \/ \E c \in Client : Abort(c)
         \/ \E c \in Client, v \in VertexId : CompactVertex(c, v)
<1> USE DEF blocks
<1>1. Calm => freed' = freed
  BY DEF Calm, Quiet
<1>2. ASSUME NEW c \in Client, NEW b \in Reuse, NewVertex(c, b) PROVE freed' = freed
  BY <1>2 DEF NewVertex
<1>3. ASSUME NEW c \in Client, NEW v \in VertexId, Write(c, v) PROVE freed' = freed
  BY <1>3 DEF Write
<1>4. ASSUME NEW G \in SUBSET Client, RegisterGroup(G) PROVE freed' = freed
  BY <1>4 DEF RegisterGroup
<1>5. ASSUME NEW c \in Client, NEW v \in VertexId, Install(c, v) \/ Unlock(c, v) PROVE freed' = freed
  BY <1>5 DEF Install, Unlock
<1>6. ASSUME NEW c \in Client, Stamped(c) \/ Leave(c) \/ Stamp(c) PROVE freed' = freed
  BY <1>6 DEF Stamped, Leave, Stamp, StampAt
<1> QED BY <1>1, <1>2, <1>3, <1>4, <1>5, <1>6, Kinds, Zenon

\* A version at the head or below it is not taken back, and the head only moves up.
LEMMA BelowHead ==
  ASSUME RangeInv, LockInv, HeadInv, IdsUsedOnce, InRange, InRange', [Next]_vars, NEW v \in VertexId
  PROVE  /\ vertex_ptrs[v] \in Nat /\ vertex_ptrs'[v] \in Nat /\ vertex_ptrs[v] <= vertex_ptrs'[v]
         /\ \A p \in Live(v) : p <= vertex_ptrs[v] => p \in Live(v)'
<1> DEFINE Goal == /\ vertex_ptrs'[v] \in Nat /\ vertex_ptrs[v] <= vertex_ptrs'[v]
                   /\ \A p \in Live(v) : p <= vertex_ptrs[v] => p \in Live(v)'
<1>0. OwnInv /\ vertex_ptrs[v] \in Nat
  BY Facts DEF RangeInv, OwnInv, Types
<1>h. \A p \in Live(v) : p <= vertex_ptrs[v] => \A c \in Client :
        p \in Unstamped(c) => pc[c] = "install" /\ vertex_ptr_cache[c][v] = NULLPOINTER
  BY DEF HeadInv, HeadOf
<1>1. Still => Goal
  BY <1>0 DEF Still
<1>2. ASSUME NEW c \in Client, NEW u \in VertexId, NEW n \in Nat, Writes(c, u, n) PROVE Goal
  <2>1. vertex_ptrs' = vertex_ptrs /\ Live(v) \subseteq Live(v)'
    BY <1>2 DEF Writes
  <2> QED BY <1>0, <2>1
<1>3. ASSUME NEW G \in SUBSET Client, Grants(G) PROVE Goal
  BY <1>0, <1>3 DEF Grants
<1>4. ASSUME NEW c \in Client, NEW u \in VertexId, NEW m \in Nat, Installs(c, u, m) PROVE Goal
  <2>1. /\ Live(v)' = Live(v) /\ pc[c] = "install" /\ m = vertex_ptr_cache[c][u] /\ m # NULLPOINTER
        /\ vertex_ptrs'[u] = m /\ \A w \in VertexId \ {u} : vertex_ptrs'[w] = vertex_ptrs[w]
    BY <1>4 DEF Installs
  <2>2. CASE u # v
    BY <1>0, <2>1, <2>2
  <2>3. CASE u = v
    <3>1. m \in Unstamped(c) /\ m \in Live(v)
      BY <1>0, <2>1, <2>3, LiveFacts
    <3>2. ~(m <= vertex_ptrs[v])
      BY <1>h, <2>1, <2>3, <3>1
    <3> QED BY <1>0, <2>1, <2>3, <3>2
  <2> QED BY <2>2, <2>3
<1>5. ASSUME NEW c \in Client, NEW r \in Nat, StampsOne(c, r) PROVE Goal
  BY <1>0, <1>5 DEF StampsOne
<1>6. ASSUME NEW c \in Client, Aborts(c) PROVE Goal
  <2>1. vertex_ptrs' = vertex_ptrs /\ Live(v)' = Live(v) \ Unstamped(c) /\ pc[c] = "open"
    BY <1>6 DEF Aborts
  <2> QED BY <1>0, <1>h, <2>1
<1> HIDE DEF Goal
<1>7. Goal
  BY <1>1, <1>2, <1>3, <1>4, <1>5, <1>6, Effects, Zenon
<1> QED BY <1>0, <1>7 DEF Goal

\* A commit stays in the history, and a new one has the epoch that was just granted.
LEMMA Histories ==
  ASSUME RangeInv, LockInv, HeadInv, IdsUsedOnce, InRange, InRange', [Next]_vars
  PROVE  /\ committed \subseteq committed'
         /\ \A x \in committed' : x \in committed \/ x.epoch = sealed + 1
<1> DEFINE Goal == /\ committed \subseteq committed'
                   /\ \A x \in committed' : x \in committed \/ x.epoch = sealed + 1
<1>k. committed' = committed => Goal
  OBVIOUS
<1>1. Still => Goal
  BY <1>k DEF Still
<1>2. ASSUME NEW c \in Client, NEW u \in VertexId, NEW n \in Nat, Writes(c, u, n) PROVE Goal
  BY <1>k, <1>2 DEF Writes
<1>3. ASSUME NEW G \in SUBSET Client, Grants(G) PROVE Goal
  BY <1>3 DEF Grants
<1>4. ASSUME NEW c \in Client, NEW u \in VertexId, NEW m \in Nat, Installs(c, u, m) PROVE Goal
  BY <1>k, <1>4 DEF Installs
<1>5. ASSUME NEW c \in Client, NEW r \in Nat, StampsOne(c, r) PROVE Goal
  BY <1>k, <1>5 DEF StampsOne
<1>6. ASSUME NEW c \in Client, Aborts(c) PROVE Goal
  BY <1>k, <1>6 DEF Aborts
<1> HIDE DEF Goal
<1>7. Goal
  BY <1>1, <1>2, <1>3, <1>4, <1>5, <1>6, Effects, Zenon
<1> QED BY <1>7 DEF Goal

\* Every epoch on a version is a commit's.
LEMMA HistoryStep ==
  ASSUME RangeInv, LockInv, HeadInv, HistoryInv, IdsUsedOnce, InRange, InRange', [Next]_vars
  PROVE  HistoryInv'
<1> SUFFICES ASSUME NEW v \in VertexId, NEW p \in Live(v)'
             PROVE  /\ block'[p].creation >= 0 => Recorded(v, p, block[p].creation)'
                    /\ \A d \in Client : pc'[d] = "install" /\ p \in Unstamped(d)' => Recorded(v, p, grant[d])'
  BY DEF HistoryInv
<1> DEFINE Rec(e) == \E x \in committed' : x.vid = v /\ x.epoch = e /\ p <= x.ptr
           Goal == /\ block'[p].creation >= 0 => Rec(block'[p].creation)
                   /\ \A d \in Client : pc'[d] = "install" /\ p \in Unstamped(d)' => Rec(grant'[d])
<1>0. /\ OwnInv /\ DOMAIN pc = Client
      /\ sealed \in Nat /\ \A d \in Client : grant[d] \in Nat /\ grant[d] <= sealed
  BY Facts DEF RangeInv, OwnInv, Types, TypeOK
<1>l. \A u \in VertexId : \A r \in Live(u) :
        /\ r \in DOMAIN block /\ block[r].vid = u /\ block[r].creation \in Int /\ r \in Nat
  BY <1>0, LiveFacts
<1>u. \A d \in Client : \A r \in Unstamped(d) : r \in DOMAIN block /\ r \in Nat /\ pc[d] # "clean"
  BY <1>0, LiveFacts
<1>m. ASSUME NEW e, Recorded(v, p, e) PROVE Rec(e)
  BY <1>m, Histories DEF Recorded
<1>i. p \in Live(v) =>
        /\ block[p].creation >= 0 => Rec(block[p].creation)
        /\ \A d \in Client : pc[d] = "install" /\ p \in Unstamped(d) => Rec(grant[d])
  BY <1>m DEF HistoryInv
<1> HIDE DEF Rec
<1>1. ASSUME Still PROVE Goal
  <2>1. p \in Live(v) /\ block'[p].creation = block[p].creation
    BY <1>l, <1>1 DEF Still
  <2>2. ASSUME NEW d \in Client, pc'[d] = "install", p \in Unstamped(d)'
        PROVE  pc[d] = "install" /\ p \in Unstamped(d) /\ grant'[d] = grant[d]
    BY <1>1, <2>2 DEF Still
  <2> QED BY <1>i, <2>1, <2>2
<1>2. ASSUME NEW c \in Client, NEW u \in VertexId, NEW n \in Nat, Writes(c, u, n) PROVE Goal
  <2>1. /\ Live(u)' = Live(u) \cup {n} /\ \A w \in VertexId \ {u} : Live(w)' = Live(w)
        /\ \A d \in Client : Unstamped(d)' = IF d = c THEN Unstamped(c) \cup {n} ELSE Unstamped(d)
        /\ pc[c] = "open" /\ UNCHANGED <<pc, grant>>
    BY <1>2 DEF Writes
  <2>2. /\ n \notin DOMAIN block /\ \A r \in DOMAIN block : block'[r] = block[r]
        /\ block'[n].creation = -local_txn_id[c] /\ local_txn_id[c] \in Nat /\ local_txn_id[c] > 0
    BY <1>2 DEF Writes, Adds
  <2>3. CASE p = n
    <3>1. ~(block'[p].creation >= 0)
      BY <2>2, <2>3
    <3>2. \A d \in Client : p \in Unstamped(d)' => pc'[d] = "open"
      BY <1>u, <2>1, <2>2, <2>3
    <3> QED BY <3>1, <3>2
  <2>4. CASE p # n
    <3>1. p \in Live(v) /\ p \in DOMAIN block
      BY <1>l, <2>1, <2>4
    <3> QED BY <1>i, <2>1, <2>2, <2>4, <3>1
  <2> QED BY <2>3, <2>4
<1>3. ASSUME NEW G \in SUBSET Client, Grants(G) PROVE Goal
  <2>1. p \in Live(v) /\ UNCHANGED block
    BY <1>3 DEF Grants
  <2>2. \A d \in Client : /\ pc'[d] = IF d \in G THEN "install" ELSE pc[d]
                          /\ grant'[d] = IF d \in G THEN sealed + 1 ELSE grant[d]
                          /\ d \in G => pc[d] = "registered"
                          /\ Unstamped(d)' = Unstamped(d)
    BY <1>3 DEF Grants
  <2>3. ASSUME NEW d \in G, p \in Unstamped(d) PROVE Rec(sealed + 1)
    <3>1. d \in Client /\ pc[d] = "registered" /\ block[p].vid = v
      BY <1>l, <2>1, <2>2
    <3>2. vertex_ptr_cache[d][v] # NULLPOINTER
      BY <1>0, <2>3, <3>1 DEF OwnInv, CacheInv, CacheOf
    <3>3. p <= vertex_ptr_cache[d][v]
      BY <1>0, <2>3, <3>1, <3>2, LiveFacts
    <3> DEFINE x == [vid |-> v, ptr |-> vertex_ptr_cache[d][v], epoch |-> sealed + 1,
                     read |-> read_epoch_id[d]]
    <3>4. x \in committed'
      BY <1>3, <3>2 DEF Grants, Versions
    <3> QED BY <3>3, <3>4 DEF Rec
  <2> QED BY <1>i, <2>1, <2>2, <2>3
<1>4. ASSUME NEW c \in Client, NEW u \in VertexId, NEW m \in Nat, Installs(c, u, m) PROVE Goal
  <2>1. /\ p \in Live(v) /\ UNCHANGED <<block, pc, grant>>
        /\ \A d \in Client : Unstamped(d)' = Unstamped(d)
    BY <1>4 DEF Installs
  <2> QED BY <1>i, <2>1
<1>5. ASSUME NEW c \in Client, NEW r \in Nat, StampsOne(c, r) PROVE Goal
  <2>1. /\ pc[c] = "install" /\ r \in Unstamped(c) /\ block'[r].creation = grant[c]
        /\ \A s \in DOMAIN block : s # r => block'[s].creation = block[s].creation
        /\ \A d \in Client : Unstamped(d)' = Unstamped(d) \ {r}
        /\ p \in Live(v) /\ UNCHANGED <<pc, grant>>
    BY <1>5 DEF StampsOne
  <2>2. block'[p].creation >= 0 => Rec(block'[p].creation)
    BY <1>i, <1>l, <2>1
  <2> QED BY <1>i, <2>1, <2>2
<1>6. ASSUME NEW c \in Client, Aborts(c) PROVE Goal
  <2>1. /\ p \in Live(v) /\ p \notin Unstamped(c)
        /\ \A s \in DOMAIN block : s \notin Unstamped(c) => block'[s].creation = block[s].creation
        /\ Unstamped(c)' = {} /\ \A d \in Client \ {c} : Unstamped(d)' = Unstamped(d)
        /\ pc' = [pc EXCEPT ![c] = "clean"] /\ UNCHANGED grant
    BY <1>6 DEF Aborts
  <2>2. block'[p].creation = block[p].creation
    BY <1>l, <2>1
  <2> QED BY <1>0, <1>i, <2>1, <2>2
<1> HIDE DEF Goal
<1>7. Goal
  BY <1>1, <1>2, <1>3, <1>4, <1>5, <1>6, Effects, Zenon
<1> QED BY <1>7 DEF Goal, Rec, Recorded

\* Compaction cuts only where every snapshot in use and to come stops.
LEMMA CutStep ==
  ASSUME RangeInv, LockInv, HeadInv, CutInv, BoundInv, IdsUsedOnce, InRange, InRange', [Next]_vars
  PROVE  CutInv'
<1> SUFFICES ASSUME NEW v \in VertexId, NEW p \in Live(v)', block'[p].prev = NULLPOINTER
             PROVE  \/ \A q \in Live(v)' : p <= q
                    \/ /\ block'[p].creation \in 0 .. visible'
                       /\ \A d \in Client : Active(d)' => block'[p].creation <= read_epoch_id'[d]
  BY DEF CutInv, CutOf
<1> DEFINE First1 == \A q \in Live(v)' : p <= q
           Seen   == /\ block'[p].creation \in 0 .. visible'
                     /\ \A d \in Client : Active(d)' => block'[p].creation <= read_epoch_id'[d]
           Goal   == First1 \/ Seen
<1>0. OwnInv /\ Types /\ HoldsInv
  BY DEF RangeInv, OwnInv
<1>n. /\ visible \in Nat /\ visible' \in Nat /\ visible <= visible'
      /\ \A d \in Client : read_epoch_id[d] \in Nat /\ read_epoch_id[d] <= visible
  <2>1. visible \in Nat /\ \A d \in Client : read_epoch_id[d] \in Nat /\ read_epoch_id[d] <= visible
    BY <1>0, Facts DEF Types
  <2>2. visible' \in Nat /\ visible' >= visible
    BY <1>0, EpochsStep DEF Types
  <2> QED BY <2>1, <2>2
<1>l. \A u \in VertexId : \A r \in Live(u) :
        r \in DOMAIN block /\ block[r].vid = u /\ r \in Nat /\ r > 0
  BY <1>0, LiveFacts
<1>u. \A d \in Client : \A r \in Unstamped(d) : block[r].creation < 0
  BY <1>0, LiveFacts
<1>r. ASSUME block'[p].creation = block[p].creation, block[p].creation \in 0 .. visible,
             \A d \in Client : Active(d) => block[p].creation <= read_epoch_id[d]
      PROVE  Seen
  <2>1. block[p].creation \in Nat /\ block[p].creation <= visible /\ block'[p].creation \in 0 .. visible'
    BY <1>n, <1>r
  <2>2. ASSUME NEW d \in Client, Active(d)' PROVE block'[p].creation <= read_epoch_id'[d]
    <3>1. CASE BeginLoad(d)
      BY <1>0, <1>r, <2>1, <3>1, Begun
    <3>2. CASE read_epoch_id'[d] = read_epoch_id[d] /\ Active(d)
      BY <1>r, <3>2
    <3> QED BY <1>0, <2>2, <3>1, <3>2, Snapshots
  <2> QED BY <2>1, <2>2
<1>i. p \in Live(v) /\ block[p].prev = NULLPOINTER =>
        \/ \A q \in Live(v) : p <= q
        \/ /\ block[p].creation \in 0 .. visible
           /\ \A d \in Client : Active(d) => block[p].creation <= read_epoch_id[d]
  BY DEF CutInv, CutOf
<1> HIDE DEF Seen
<1>c. ASSUME p \in DOMAIN block, block'[p].prev # block[p].prev PROVE Goal
  <2>1. PICK c \in Client, u \in VertexId : CompactVertex(c, u) /\ p \in Cuts(u, compacting[c].bound)
    BY <1>0, <1>c, Cutting
  <2>2. pc[c] = "compact" /\ block'[p].creation = block[p].creation
    BY <1>0, <1>c, <2>1, CompactEffect
  <2>3. /\ compacting[c].bound <= visible
        /\ \A d \in Client : Active(d) => compacting[c].bound <= read_epoch_id[d]
    BY <2>2 DEF BoundInv, BoundOf, Bounded
  <2>4. 0 <= block[p].creation /\ block[p].creation < compacting[c].bound
    BY <2>1 DEF Cuts, Before
  <2>5. compacting[c].bound \in Nat /\ block[p].creation \in Int
    BY <1>0, <1>c, Facts DEF Types, TypeOK
  <2>6. block[p].creation \in 0 .. visible
    BY <1>n, <2>3, <2>4, <2>5
  <2>7. \A d \in Client : Active(d) => block[p].creation <= read_epoch_id[d]
    BY <1>n, <2>3, <2>4, <2>5
  <2> QED BY <1>r, <2>2, <2>6, <2>7
<1> SUFFICES ASSUME p \in DOMAIN block => block[p].prev = NULLPOINTER PROVE Goal
  BY <1>c DEF Seen
<1>k. ASSUME p \in Live(v), Live(v)' \subseteq Live(v),
             block'[p].creation = block[p].creation \/ block[p].creation < 0
      PROVE  Goal
  <2>1. CASE \A q \in Live(v) : p <= q
    BY <1>k, <2>1
  <2>2. CASE /\ block[p].creation \in 0 .. visible
             /\ \A d \in Client : Active(d) => block[p].creation <= read_epoch_id[d]
    BY <1>k, <1>n, <1>r, <2>2
  <2> QED BY <1>i, <1>k, <1>l, <2>1, <2>2
<1>1. ASSUME Still PROVE Goal
  <2>1. p \in Live(v) /\ Live(v)' = Live(v)
    BY <1>1 DEF Still
  <2>2. block'[p].creation = block[p].creation
    BY <1>l, <1>1, <2>1 DEF Still
  <2> HIDE DEF Goal
  <2> QED BY <1>k, <2>1, <2>2
<1>2. ASSUME NEW c \in Client, NEW u \in VertexId, NEW n \in Nat, Writes(c, u, n) PROVE Goal
  <2>1. /\ Live(u)' = Live(u) \cup {n} /\ \A w \in VertexId \ {u} : Live(w)' = Live(w)
        /\ pc[c] = "open" /\ c \notin ReadOnly /\ n \notin Live(u)
        /\ u \in acquired_locks[c] \/ vertex_futexes[u] = 0
    BY <1>2 DEF Writes
  <2>2. /\ n \notin DOMAIN block /\ \A r \in DOMAIN block : r \in Nat /\ r < n /\ block'[r] = block[r]
        /\ block'[n].prev = Newest(c, u)
    BY <1>2 DEF Writes, Adds
  <2>3. CASE p = n
    <3>1. v = u
      BY <1>l, <2>1, <2>2, <2>3
    <3>2. vertex_ptr_cache[c][u] = NULLPOINTER /\ vertex_ptrs[u] = NULLPOINTER
      BY <2>1, <2>2, <2>3 DEF Newest
    <3>3. ASSUME NEW q \in Live(u) PROVE FALSE
      <4>1. q > vertex_ptrs[u] /\ block[q].vid = u
        BY <1>l, <3>2
      <4>2. PICK d \in Client : q \in Unstamped(d)
        BY <4>1 DEF HeadInv, HeadOf
      <4>3. d = c
        BY <2>1, <4>1, <4>2, SoleWriter
      <4> QED BY <1>0, <2>1, <3>2, <4>1, <4>2, <4>3 DEF OwnInv, CacheInv, CacheOf
    <3> QED BY <2>1, <2>3, <3>1, <3>3
  <2>4. CASE p # n
    <3>1. p \in Live(v) /\ p \in DOMAIN block
      BY <1>l, <2>1, <2>4
    <3>2. block'[p] = block[p] /\ p \in Nat /\ p < n
      BY <2>2, <3>1
    <3>3. CASE \A q \in Live(v) : p <= q
      BY <2>1, <3>2, <3>3
    <3>4. CASE /\ block[p].creation \in 0 .. visible
               /\ \A d \in Client : Active(d) => block[p].creation <= read_epoch_id[d]
      BY <1>r, <3>2, <3>4
    <3> QED BY <1>i, <3>1, <3>3, <3>4
  <2> QED BY <2>3, <2>4
<1>3. ASSUME NEW G \in SUBSET Client, Grants(G) PROVE Goal
  BY <1>k, <1>3 DEF Grants
<1>4. ASSUME NEW c \in Client, NEW u \in VertexId, NEW m \in Nat, Installs(c, u, m) PROVE Goal
  BY <1>k, <1>4 DEF Installs
<1>5. ASSUME NEW c \in Client, NEW r \in Nat, StampsOne(c, r) PROVE Goal
  <2>1. p \in Live(v) /\ Live(v)' = Live(v)
    BY <1>5 DEF StampsOne
  <2>2. block'[p].creation = block[p].creation \/ block[p].creation < 0
    BY <1>l, <1>5, <2>1 DEF StampsOne
  <2> HIDE DEF Goal
  <2> QED BY <1>k, <2>1, <2>2
<1>6. ASSUME NEW c \in Client, Aborts(c) PROVE Goal
  <2>1. p \in Live(v) /\ Live(v)' \subseteq Live(v) /\ p \notin Unstamped(c)
    BY <1>6 DEF Aborts
  <2>2. block'[p].creation = block[p].creation
    BY <1>l, <1>6, <2>1 DEF Aborts
  <2> HIDE DEF Goal
  <2> QED BY <1>k, <2>1, <2>2
<1> HIDE DEF Goal
<1> QED BY <1>1, <1>2, <1>3, <1>4, <1>5, <1>6, Effects, Zenon

\* A commit whose epoch is visible is on its version, which is at the head or below it.
LEMMA Settled ==
  ASSUME RangeInv, HeadInv, CommitInv, InRange, NEW x \in committed, x.epoch <= visible
  PROVE  /\ x.vid \in VertexId /\ x.epoch \in Nat /\ block[x.ptr].creation = x.epoch
         /\ x.ptr \in Live(x.vid) /\ x.ptr \in Nat /\ x.ptr > 0 /\ x.ptr <= vertex_ptrs[x.vid]
<1>0. OwnInv /\ Types
  BY DEF RangeInv, OwnInv
<1>1. /\ committed \subseteq [vid : VertexId, ptr : 1 .. Len(block), epoch : 0 .. sealed, read : 0 .. visible]
      /\ sealed \in Nat /\ visible \in Nat /\ \A d \in Client : grant[d] \in Nat
  BY <1>0, Facts DEF Types, TypeOK
<1>2. x.vid \in VertexId /\ x.epoch \in Nat
  BY <1>1
<1>3. x.ptr \in Live(x.vid)
  BY DEF CommitInv, CommitOf
<1>4. ASSUME NEW c \in Client, pc[c] = "install" PROVE grant[c] # x.epoch
  BY <1>0, <1>1, <1>2, <1>4 DEF Types, PlaceInv, PlaceOf, EpochInv
<1>5. block[x.ptr].creation = x.epoch
  BY <1>4 DEF CommitInv, CommitOf
<1>6. x.ptr \in Nat /\ x.ptr > 0 /\ vertex_ptrs[x.vid] \in Nat
  BY <1>0, <1>2, <1>3, LiveFacts, Facts DEF Types
<1>7. x.ptr <= vertex_ptrs[x.vid]
  <2> SUFFICES ASSUME x.ptr > vertex_ptrs[x.vid] PROVE FALSE
    BY <1>6
  <2>1. PICK d \in Client : x.ptr \in Unstamped(d)
    BY <1>2, <1>3 DEF HeadInv, HeadOf
  <2>2. block[x.ptr].creation < 0
    BY <1>0, <2>1, LiveFacts
  <2> QED BY <1>2, <1>5, <2>2
<1> QED BY <1>2, <1>3, <1>5, <1>6, <1>7

\* A reader is at the head or below it and has not gone past what it must return.
LEMMA ReadStep ==
  ASSUME RangeInv, LockInv, HeadInv, LinkInv, CommitInv, CutInv, ReadInv, IdsUsedOnce, InRange, InRange',
         [Next]_vars
  PROVE  ReadInv'
<1> SUFFICES ASSUME NEW d \in Client, NEW v, NEW p, pc'[d] = "walk",
                    v = reading'[d].vid, p = reading'[d].ptr,
                    d \in ReadOnly \/ vertex_ptr_cache'[d][v] = NULLPOINTER
             PROVE  /\ p # NULLPOINTER => p \in Live(v)' /\ p <= vertex_ptrs'[v]
                    /\ \A x \in committed' : x.vid = v /\ x.epoch <= read_epoch_id'[d] => x.ptr <= p
  BY DEF ReadInv, ReadOf, InSnapshot, Live
<1> DEFINE Goal == /\ p # NULLPOINTER => p \in Live(v)' /\ p <= vertex_ptrs'[v]
                   /\ \A x \in committed' : x.vid = v /\ x.epoch <= read_epoch_id'[d] => x.ptr <= p
<1>0. /\ OwnInv /\ Types /\ HoldsInv /\ v \in VertexId
      /\ DOMAIN reading = Client /\ reading[d] \in [vid : VertexId \cup {0}, ptr : 0 .. Len(block)]
      /\ sealed \in Nat /\ visible \in Nat /\ visible <= sealed
      /\ read_epoch_id[d] \in Nat /\ read_epoch_id[d] <= visible
  <2>1. OwnInv /\ Types /\ HoldsInv
    BY DEF RangeInv, OwnInv
  <2>2. WalkInv'
    BY <2>1, WalkStep DEF OwnInv
  <2>3. v \in VertexId
    BY <2>2 DEF WalkInv, WalkOf
  <2>4. /\ sealed \in Nat /\ visible \in Nat /\ visible <= sealed
        /\ read_epoch_id[d] \in Nat /\ read_epoch_id[d] <= visible
    BY <2>1, Facts DEF Types
  <2>5. DOMAIN reading = Client /\ reading[d] \in [vid : VertexId \cup {0}, ptr : 0 .. Len(block)]
    BY <2>1 DEF Types, TypeOK
  <2> QED BY <2>1, <2>3, <2>4, <2>5
<1>l. \A r \in Live(v) : r \in DOMAIN block /\ r \in Nat /\ r > 0 /\ block[r].creation \in Int
  BY <1>0, LiveFacts
<1>h. /\ vertex_ptrs[v] \in Live(v) \cup {NULLPOINTER}
      /\ vertex_ptrs[v] \in Nat /\ vertex_ptrs'[v] \in Nat /\ vertex_ptrs[v] <= vertex_ptrs'[v]
      /\ \A r \in Live(v) : r <= vertex_ptrs[v] => r \in Live(v)'
  BY <1>0, BelowHead DEF HeadInv, HeadOf
<1>s. ASSUME NEW x \in committed, x.vid = v, x.epoch <= read_epoch_id[d]
      PROVE  /\ block[x.ptr].creation = x.epoch /\ x.epoch \in Nat /\ x.ptr \in Live(v)
             /\ x.ptr \in Nat /\ x.ptr > 0 /\ x.ptr <= vertex_ptrs[v]
  <2>1. committed \subseteq [vid : VertexId, ptr : 1 .. Len(block), epoch : 0 .. sealed, read : 0 .. visible]
    BY <1>0 DEF Types, TypeOK
  <2>2. x.epoch <= visible
    BY <1>0, <1>s, <2>1
  <2> QED BY <1>s, <2>2, Settled
<1>i. ASSUME pc[d] = "walk", d \in ReadOnly \/ vertex_ptr_cache[d][reading[d].vid] = NULLPOINTER
      PROVE  /\ reading[d].ptr # NULLPOINTER =>
                  reading[d].ptr \in Live(reading[d].vid) /\ reading[d].ptr <= vertex_ptrs[reading[d].vid]
             /\ \A x \in committed : x.vid = reading[d].vid /\ x.epoch <= read_epoch_id[d] =>
                  x.ptr <= reading[d].ptr
  BY <1>i DEF ReadInv, ReadOf, InSnapshot
<1>1. ASSUME Elsewhere(d) PROVE Goal
  <2>1. /\ pc[d] = "walk" /\ v = reading[d].vid /\ p = reading[d].ptr
        /\ vertex_ptr_cache'[d] = vertex_ptr_cache[d] /\ read_epoch_id'[d] = read_epoch_id[d]
    BY <1>1 DEF Elsewhere
  <2>2. /\ p # NULLPOINTER => p \in Live(v) /\ p <= vertex_ptrs[v]
        /\ \A x \in committed : x.vid = v /\ x.epoch <= read_epoch_id[d] => x.ptr <= p
    BY <1>i, <2>1
  <2>3. p # NULLPOINTER => p \in Live(v)' /\ p <= vertex_ptrs'[v]
    BY <1>h, <1>l, <2>2
  <2>4. ASSUME NEW x \in committed', x.vid = v, x.epoch <= read_epoch_id[d] PROVE x.ptr <= p
    <3>1. x \in committed
      BY <1>0, <2>4, Histories
    <3> QED BY <2>2, <2>4, <3>1
  <2> QED BY <2>1, <2>3, <2>4
<1>2. ASSUME NEW u \in VertexId, GetVertex(d, u) PROVE Goal
  <2>1. /\ UNCHANGED <<block, vertex_ptrs, committed, read_epoch_id, vertex_ptr_cache>>
        /\ reading' = [reading EXCEPT ![d] = [vid |-> u, ptr |-> Newest(d, u)]]
    BY <1>2 DEF GetVertex, blocks, vertices, history, txn, caches
  <2>2. v = u /\ p = Newest(d, u)
    BY <1>0, <2>1
  <2>3. p = vertex_ptrs[v]
    BY <2>1, <2>2 DEF Newest
  <2>4. p # NULLPOINTER => p \in Live(v)' /\ p <= vertex_ptrs'[v]
    BY <1>h, <2>3
  <2> QED BY <1>s, <2>1, <2>3, <2>4
<1>3. ASSUME WalkOn(d) PROVE Goal
  <2> DEFINE r == reading[d].ptr
  <2>1. /\ UNCHANGED <<block, vertex_ptrs, committed, read_epoch_id, vertex_ptr_cache>>
        /\ pc[d] = "walk" /\ ~Arrived(d)
        /\ reading' = [reading EXCEPT ![d].ptr = block[r].prev]
    BY <1>3 DEF WalkOn, blocks, vertices, history, txn, caches
  <2>2. v = reading[d].vid /\ p = block[r].prev
    BY <1>0, <2>1
  <2>3. r # NULLPOINTER /\ ~Visible(block[r].creation, read_epoch_id[d], Id(d))
    BY <2>1 DEF Arrived
  <2>4. /\ r \in Live(v) /\ r <= vertex_ptrs[v]
        /\ \A x \in committed : x.vid = v /\ x.epoch <= read_epoch_id[d] => x.ptr <= r
    BY <1>i, <2>1, <2>2, <2>3
  <2> HIDE DEF r
  <2>5. ASSUME NEW x \in committed, x.vid = v, x.epoch <= read_epoch_id[d]
        PROVE  x.ptr \in Live(v) /\ x.ptr < r
    <3>1. x.ptr # r
      BY <1>0, <1>s, <2>3, <2>5 DEF Visible
    <3>2. x.ptr \in Live(v) /\ x.ptr \in Nat /\ r \in Nat /\ x.ptr <= r
      BY <1>l, <1>s, <2>4, <2>5
    <3> QED BY <3>1, <3>2
  <2>6. CASE p # NULLPOINTER
    <3>1. p \in Live(v) /\ \A q \in Live(v) : q < r => q <= p
      BY <1>0, <2>2, <2>4, <2>6 DEF LinkInv, LinkOf
    <3>2. p < r
      BY <1>0, <1>l, <2>2, <2>4 DEF Types, OlderInv
    <3>3. p <= vertex_ptrs[v]
      BY <1>h, <1>l, <2>4, <3>1, <3>2
    <3>4. p \in Live(v)' /\ p <= vertex_ptrs'[v]
      BY <1>h, <2>1, <3>1, <3>3
    <3>5. \A x \in committed : x.vid = v /\ x.epoch <= read_epoch_id[d] => x.ptr <= p
      BY <2>5, <3>1
    <3> QED BY <2>1, <3>4, <3>5
  <2>7. CASE p = NULLPOINTER
    <3>1. ASSUME NEW x \in committed, x.vid = v, x.epoch <= read_epoch_id[d] PROVE FALSE
      <4>1. x.ptr \in Live(v) /\ ~(r <= x.ptr)
        BY <1>l, <2>4, <2>5, <3>1
      <4>2. block[r].creation \in 0 .. visible /\ (Active(d) => block[r].creation <= read_epoch_id[d])
        BY <1>0, <2>2, <2>4, <2>7, <4>1 DEF CutInv, CutOf
      <4>3. Active(d)
        BY <2>1 DEF Active
      <4> QED BY <2>3, <4>2, <4>3 DEF Visible
    <3> QED BY <2>1, <2>7, <3>1
  <2> QED BY <2>6, <2>7
<1> HIDE DEF Goal
<1>4. Goal
  BY <1>0, <1>1, <1>2, <1>3, Walks, Zenon
<1> QED BY <1>4 DEF Goal

\* What is in the chain of a vertex, and what is behind one of its versions.
LEMMA LiveReach ==
  ASSUME RangeInv, HeadInv, LinkInv, InRange, NEW v \in VertexId
  PROVE  /\ \A p \in Reach(vertex_ptrs[v]) : p \in Live(v) /\ p <= vertex_ptrs[v]
         /\ \A p \in Live(v) : \A q \in Reach(block[p].prev) : q \in Live(v) /\ q < p
<1>0. OwnInv /\ Types
  BY DEF RangeInv, OwnInv
<1>l. \A r \in Live(v) : r \in DOMAIN block /\ r \in Nat
  BY <1>0, LiveFacts
<1>p. \A r \in Live(v) : block[r].prev < r /\ block[r].prev \in Live(v) \cup {NULLPOINTER}
  BY <1>0, <1>l DEF Types, OlderInv, LinkInv, LinkOf
<1>h. vertex_ptrs[v] \in Live(v) \cup {NULLPOINTER} /\ vertex_ptrs[v] \in Nat
  BY <1>0, Facts DEF HeadInv, HeadOf, Types
<1>1. ASSUME NEW p \in Reach(vertex_ptrs[v]) PROVE p \in Live(v) /\ p <= vertex_ptrs[v]
  <2> DEFINE S == {r \in Live(v) : r <= vertex_ptrs[v]}
  <2>1. S \in SUBSET DOMAIN block /\ vertex_ptrs[v] \in S \cup {NULLPOINTER}
    BY <1>h, <1>l
  <2>2. \A r \in S : block[r].prev \in S \cup {NULLPOINTER}
    BY <1>h, <1>l, <1>p
  <2> HIDE DEF S
  <2>3. p \in S
    BY <2>1, <2>2, ReachWithin
  <2> QED BY <2>3 DEF S
<1>2. ASSUME NEW p \in Live(v), NEW q \in Reach(block[p].prev) PROVE q \in Live(v) /\ q < p
  <2> DEFINE S == {r \in Live(v) : r < p}
  <2>1. S \in SUBSET DOMAIN block /\ block[p].prev \in S \cup {NULLPOINTER}
    BY <1>l, <1>p
  <2>2. \A r \in S : block[r].prev \in S \cup {NULLPOINTER}
    BY <1>l, <1>p
  <2> HIDE DEF S
  <2>3. q \in S
    BY <2>1, <2>2, ReachWithin
  <2> QED BY <2>3 DEF S
<1> QED BY <1>1, <1>2

\* A version with an epoch keeps it.
LEMMA StampKept ==
  ASSUME RangeInv, LockInv, HeadInv, IdsUsedOnce, InRange, InRange', [Next]_vars,
         NEW p \in DOMAIN block, block[p].creation >= 0
  PROVE  block'[p].creation = block[p].creation
<1>0. OwnInv
  BY DEF RangeInv
<1>u. \A d \in Client : p \notin Unstamped(d)
  BY <1>0, LiveFacts
<1> DEFINE Goal == block'[p].creation = block[p].creation
<1>1. Still => Goal
  BY DEF Still
<1>2. ASSUME NEW c \in Client, NEW u \in VertexId, NEW n \in Nat, Writes(c, u, n) PROVE Goal
  BY <1>2 DEF Writes, Adds
<1>3. ASSUME NEW G \in SUBSET Client, Grants(G) PROVE Goal
  BY <1>3 DEF Grants
<1>4. ASSUME NEW c \in Client, NEW u \in VertexId, NEW m \in Nat, Installs(c, u, m) PROVE Goal
  BY <1>4 DEF Installs
<1>5. ASSUME NEW c \in Client, NEW r \in Nat, StampsOne(c, r) PROVE Goal
  BY <1>5, <1>u DEF StampsOne
<1>6. ASSUME NEW c \in Client, Aborts(c) PROVE Goal
  BY <1>6, <1>u DEF Aborts
<1> HIDE DEF Goal
<1>7. Goal
  BY <1>1, <1>2, <1>3, <1>4, <1>5, <1>6, Effects, Zenon
<1> QED BY <1>7 DEF Goal

\* No step brings back a version.
LEMMA NoReturn ==
  ASSUME RangeInv, LockInv, HeadInv, IdsUsedOnce, InRange, InRange', [Next]_vars,
         NEW v \in VertexId, NEW p \in Live(v)', p \in DOMAIN block
  PROVE  p \in Live(v)
<1> DEFINE Goal == p \in Live(v)
<1>1. Still => Goal
  BY DEF Still
<1>2. ASSUME NEW c \in Client, NEW u \in VertexId, NEW n \in Nat, Writes(c, u, n) PROVE Goal
  <2>1. n \notin DOMAIN block /\ Live(u)' = Live(u) \cup {n} /\ \A w \in VertexId \ {u} : Live(w)' = Live(w)
    BY <1>2 DEF Writes, Adds
  <2> QED BY <2>1
<1>3. ASSUME NEW G \in SUBSET Client, Grants(G) PROVE Goal
  BY <1>3 DEF Grants
<1>4. ASSUME NEW c \in Client, NEW u \in VertexId, NEW m \in Nat, Installs(c, u, m) PROVE Goal
  BY <1>4 DEF Installs
<1>5. ASSUME NEW c \in Client, NEW r \in Nat, StampsOne(c, r) PROVE Goal
  BY <1>5 DEF StampsOne
<1>6. ASSUME NEW c \in Client, Aborts(c) PROVE Goal
  BY <1>6 DEF Aborts
<1> HIDE DEF Goal
<1>7. Goal
  BY <1>1, <1>2, <1>3, <1>4, <1>5, <1>6, Effects, Zenon
<1> QED BY <1>7 DEF Goal

\* A live version that was freed is below one that was cut off.
LEMMA FreedStep ==
  ASSUME RangeInv, LockInv, StampsInv, HeadInv, LinkInv, FreedInv, IdsUsedOnce, InRange, InRange', [Next]_vars
  PROVE  FreedInv'
<1> SUFFICES ASSUME NEW v \in VertexId, NEW q \in freed', q \in Live(v)'
             PROVE  /\ block'[q].creation >= 0
                    /\ \E p \in Live(v)' : q < p /\ p <= vertex_ptrs'[v] /\ block'[p].prev = NULLPOINTER
  BY DEF FreedInv, FreedOf
<1> DEFINE Goal == /\ block'[q].creation >= 0
                   /\ \E p \in Live(v)' : q < p /\ p <= vertex_ptrs'[v] /\ block'[p].prev = NULLPOINTER
<1>0. OwnInv /\ Types /\ HoldsInv /\ freed \subseteq DOMAIN block
  <2>1. OwnInv /\ Types /\ HoldsInv
    BY DEF RangeInv, OwnInv
  <2>2. DOMAIN block = 1 .. Len(block) /\ freed \subseteq 1 .. Len(block)
    BY <2>1, Facts DEF Types, TypeOK
  <2> QED BY <2>1, <2>2
<1>l. \A u \in VertexId : \A r \in Live(u) :
        /\ r \in DOMAIN block /\ r \in Nat /\ block[r].vid = u /\ block[r].creation \in Int
  BY <1>0, LiveFacts
<1>h. /\ vertex_ptrs[v] \in Nat /\ vertex_ptrs'[v] \in Nat /\ vertex_ptrs[v] <= vertex_ptrs'[v]
      /\ \A p \in Live(v) : p <= vertex_ptrs[v] => p \in Live(v)'
  BY BelowHead
<1>k. ASSUME q \in Live(v), block[q].creation >= 0, NEW p \in Live(v), q < p, p <= vertex_ptrs[v],
             block'[p].prev = NULLPOINTER
      PROVE  Goal
  <2>1. block'[q].creation >= 0
    BY <1>k, <1>l, StampKept
  <2>2. p \in Live(v)' /\ p <= vertex_ptrs'[v]
    BY <1>h, <1>k, <1>l
  <2> QED BY <1>k, <2>1, <2>2
<1>1. ASSUME q \in freed PROVE Goal
  <2>1. q \in Live(v)
    BY <1>0, <1>1, NoReturn
  <2>2. block[q].creation >= 0
    BY <1>1, <2>1 DEF FreedInv, FreedOf
  <2>3. PICK p \in Live(v) : q < p /\ p <= vertex_ptrs[v] /\ block[p].prev = NULLPOINTER
    BY <1>1, <2>1 DEF FreedInv, FreedOf
  <2>4. block'[p].prev = NULLPOINTER
    BY <1>l, <2>3, Keeps
  <2> HIDE DEF Goal
  <2> QED BY <1>k, <2>1, <2>2, <2>3, <2>4
<1>2. ASSUME NEW c \in Client, Abort(c), q \notin freed PROVE Goal
  <2>1. q \in block_cache[c]
    BY <1>2 DEF Abort
  <2>2. block'[q].creation = ROLLBACK_TOMBSTONE
    BY <1>0, <1>2, <2>1, AbortEffect
  <2> QED BY <2>2 DEF Live
<1>3. ASSUME NEW c \in Client, NEW u \in VertexId, CompactVertex(c, u), q \notin freed PROVE Goal
  <2> DEFINE bound == compacting[c].bound
  <2>1. /\ freed' = freed \cup Garbage(u, bound)
        /\ \A r \in DOMAIN block : /\ block'[r].vid = block[r].vid
                                   /\ block'[r].prev = IF r \in Cuts(u, bound) THEN NULLPOINTER ELSE block[r].prev
    BY <1>0, <1>3, CompactEffect
  <2>2. PICK p \in Cuts(u, bound) : q \in Reach(block[p].prev)
    BY <1>3, <2>1 DEF Garbage
  <2>3. p \in Reach(vertex_ptrs[u]) /\ 0 <= block[p].creation
    BY <2>2 DEF Cuts, Before
  <2> HIDE DEF bound
  <2>4. p \in Live(u) /\ p <= vertex_ptrs[u]
    BY <2>3, LiveReach
  <2>5. q \in Live(u) /\ q < p
    BY <2>2, <2>4, LiveReach
  <2>6. u = v
    <3>1. block'[q].vid = v
      BY DEF Live
    <3> QED BY <1>l, <2>1, <2>5, <3>1
  <2>7. block[q].creation >= 0
    <3> SUFFICES ASSUME block[q].creation < 0 PROVE FALSE
      BY <1>l, <2>5
    <3>1. PICK d \in Client : q \in Unstamped(d)
      BY <1>l, <2>5 DEF RangeInv, LooseInv
    <3>2. p \in Unstamped(d)
      BY <2>4, <2>5, <3>1 DEF StampsInv, StampsOf
    <3> QED BY <1>0, <1>l, <2>3, <2>4, <3>2, LiveFacts
  <2>8. block'[p].prev = NULLPOINTER
    BY <1>l, <2>1, <2>2, <2>4
  <2> HIDE DEF Goal
  <2> QED BY <1>k, <2>4, <2>5, <2>6, <2>7, <2>8
<1> HIDE DEF Goal
<1>4. Goal
  BY <1>0, <1>1, <1>2, <1>3, Freeing, Zenon
<1> QED BY <1>4 DEF Goal

LEMMA SnapInit == Init => SnapInv
<1> SUFFICES ASSUME Init PROVE SnapInv
  OBVIOUS
<1>0. \A c \in Client : pc[c] = "idle" /\ ~Active(c)
  BY DEF Init, Active, NotCompacting
<1>1. HistoryInv
  <2> SUFFICES ASSUME NEW v \in VertexId, NEW p \in Live(v)
               PROVE  Recorded(v, p, 0) /\ block[p].creation = 0
    BY <1>0 DEF HistoryInv
  <2>1. p \in DOMAIN block /\ p = v + 1 /\ DOMAIN block = 1 .. Loaded /\ v \in Nat /\ block[p].creation = 0
    BY First
  <2> DEFINE x == [vid |-> v, ptr |-> v + 1, epoch |-> 0, read |-> 0]
  <2>2. x \in committed
    <3>1. v \in 0 .. Loaded - 1
      <4>1. v + 1 \in 1 .. Loaded /\ Loaded \in Nat
        BY <2>1, BoundsAssumption
      <4> QED BY <2>1, <4>1
    <3>2. committed = {[vid |-> u, ptr |-> u + 1, epoch |-> 0, read |-> 0] : u \in LoadedVertices}
      BY DEF Init
    <3> QED BY <3>1, <3>2 DEF LoadedVertices
  <2>3. x.vid = v /\ x.epoch = 0 /\ p <= x.ptr
    BY <2>1
  <2> QED BY <2>1, <2>2, <2>3 DEF Recorded
<1>2. CutInv
  BY First DEF CutInv, CutOf
<1>3. ReadInv /\ TableInv /\ BoundInv
  BY <1>0 DEF ReadInv, ReadOf, TableInv, TableOf, BoundInv, BoundOf
<1>4. FreedInv
  BY DEF Init, FreedInv, FreedOf
<1> QED BY <1>1, <1>2, <1>3, <1>4, OnceInit DEF SnapInv

LEMMA SnapStep ==
  ASSUME IdsUsedOnce, OwnThreads, SnapInv, InRange, InRange', [Next]_vars
  PROVE  SnapInv'
<1>1. /\ OnceInv /\ RangeInv /\ LockInv /\ StampsInv /\ HeadInv /\ LinkInv /\ CommitInv
      /\ HistoryInv /\ CutInv /\ ReadInv /\ TableInv /\ BoundInv /\ FreedInv
  BY DEF SnapInv, OnceInv
<1>2. Types
  BY <1>1 DEF RangeInv, OwnInv
<1>3. OnceInv' /\ TableInv' /\ BoundInv'
  BY <1>1, <1>2, OnceStep, TableStep, BoundInvStep
<1>4. HistoryInv' /\ CutInv'
  BY <1>1, HistoryStep, CutStep
<1>5. ReadInv' /\ FreedInv'
  BY <1>1, ReadStep, FreedStep
<1> QED BY <1>3, <1>4, <1>5 DEF SnapInv

\* The inductive invariant of the last two theorems.
LEMMA SnapInvariance ==
  ASSUME IdsUsedOnce, OwnThreads
  PROVE  Spec => [](OwnInv /\ (InRange => SnapInv))
<1> DEFINE I == OwnInv /\ (InRange => SnapInv)
<1>1. Init => I
  BY OwnInit, SnapInit
<1>2. I /\ [Next]_vars => I'
  <2> SUFFICES ASSUME I, [Next]_vars PROVE OwnInv' /\ (InRange' => SnapInv')
    OBVIOUS
  <2>1. OwnInv' /\ (InRange' => InRange)
    BY OwnStep, RangeStep DEF OwnInv
  <2> QED BY <2>1, SnapStep
<1> QED BY <1>1, <1>2, PTL DEF Spec

-----------------------------------------------------------------------------
(* Snapshots: the theorems. *)

\* Of two commits of a vertex the one on the older version has the lower epoch.
LEMMA CommitOrder ==
  ASSUME RangeInv, HeadInv, CommitInv, InRange, NEW x \in committed, NEW y \in committed,
         x.vid = y.vid, x.epoch <= visible, y.epoch <= visible, x.ptr < y.ptr
  PROVE  x.epoch < y.epoch
<1>0. OwnInv
  BY DEF RangeInv
<1>1. y.ptr \in Live(x.vid) /\ block[y.ptr].creation = y.epoch /\ y.epoch \in Nat
  BY Settled
<1>2. x.ptr \in Nat /\ y.ptr \in Nat /\ x.epoch \in Nat
  BY Settled
<1>3. \A d \in Client : y.ptr \notin Unstamped(d)
  BY <1>0, <1>1, LiveFacts
<1>4. y.ptr > x.ptr
  BY <1>2
<1>5. block[y.ptr].creation > x.epoch
  BY <1>1, <1>3, <1>4 DEF CommitInv, CommitOf
<1> QED BY <1>1, <1>2, <1>5

\* A set of numbers with a bound has a greatest one.
LEMMA Greatest ==
  ASSUME NEW S, NEW n \in Nat, \A x \in S : x.epoch \in 0 .. n, S # {}
  PROVE  \E x \in S : \A y \in S : y.epoch <= x.epoch
<1> DEFINE T == {n - x.epoch : x \in S}
<1>1. T \in SUBSET Nat /\ T # {}
  OBVIOUS
<1> HIDE DEF T
<1>2. \E m \in T : \A k \in T : <<k, m>> \notin OpToRel(<, Nat)
  BY <1>1, NatLessThanWellFounded, WFMin, Zenon
<1>3. PICK m \in T : \A k \in T : ~(k < m)
  BY <1>1, <1>2 DEF OpToRel
<1>4. PICK x \in S : m = n - x.epoch
  BY DEF T
<1>5. ASSUME NEW y \in S PROVE y.epoch <= x.epoch
  <2>1. n - y.epoch \in T
    BY DEF T
  <2>2. ~(n - y.epoch < n - x.epoch)
    BY <1>3, <1>4, <2>1
  <2> QED BY <2>2
<1> QED BY <1>5

\* Without a write of its own a client must see the last commit in its snapshot.
LEMMA Expects ==
  ASSUME SnapInv, InRange, NEW c \in Client, NEW v \in VertexId,
         c \in ReadOnly \/ vertex_ptr_cache[c][v] = NULLPOINTER
  PROVE  \/ InSnapshot(c, v) = {} /\ Expected(c, v) = NULLPOINTER
         \/ \E x \in InSnapshot(c, v) :
              Expected(c, v) = x.ptr /\ \A y \in InSnapshot(c, v) : y.ptr <= x.ptr
<1>0. RangeInv /\ HeadInv /\ CommitInv /\ OwnInv /\ Types
  BY DEF SnapInv, OnceInv, RangeInv, OwnInv
<1>1. visible \in Nat /\ read_epoch_id[c] \in Nat /\ read_epoch_id[c] <= visible
  BY <1>0, Facts DEF Types
<1>2. CASE InSnapshot(c, v) = {}
  BY <1>2 DEF Expected
<1>3. CASE InSnapshot(c, v) # {}
  <2> DEFINE Best(x) == \A y \in InSnapshot(c, v) : y.epoch <= x.epoch
  <2>1. committed \subseteq [vid : VertexId, ptr : 1 .. Len(block), epoch : 0 .. sealed, read : 0 .. visible]
    BY <1>0 DEF Types, TypeOK
  <2>2. sealed \in Nat
    BY <1>0, Facts DEF Types
  <2>3. \A x \in InSnapshot(c, v) : x \in committed /\ x.vid = v /\ x.epoch \in 0 .. read_epoch_id[c]
    BY <1>1, <2>1, <2>2 DEF InSnapshot
  <2>4. \E x \in InSnapshot(c, v) : Best(x)
    BY <1>1, <1>3, <2>3, Greatest
  <2>5. PICK x : x = CHOOSE z \in InSnapshot(c, v) : Best(z)
    OBVIOUS
  <2>6. x \in InSnapshot(c, v) /\ Best(x)
    BY <2>4, <2>5
  <2>7. Expected(c, v) = x.ptr
    BY <1>3, <2>5 DEF Expected
  <2>8. ASSUME NEW y \in InSnapshot(c, v) PROVE y.ptr <= x.ptr
    <3>1. x.epoch <= visible /\ y.epoch <= visible /\ y.epoch <= x.epoch /\ x.epoch \in Nat /\ y.epoch \in Nat
      BY <1>1, <2>3, <2>6
    <3>2. ~(x.ptr < y.ptr)
      BY <1>0, <2>3, <2>6, <3>1, CommitOrder
    <3>3. x.ptr \in Nat /\ y.ptr \in Nat
      BY <1>0, <2>3, <2>6, <3>1, Settled
    <3> QED BY <3>2, <3>3
  <2> QED BY <2>6, <2>7, <2>8
<1> QED BY <1>2, <1>3

\* A transaction's own last write has not been freed.
LEMMA OwnNeeded ==
  ASSUME OwnInv, FreedInv, InRange, NEW c \in Client, Active(c), NEW v \in VertexId,
         vertex_ptr_cache[c][v] # NULLPOINTER
  PROVE  vertex_ptr_cache[c][v] \notin freed
<1>1. pc[c] # "clean"
  BY DEF Active, OwnInv, Types, PlaceInv, PlaceOf, NotCompacting
<1>2. vertex_ptr_cache[c][v] \in Unstamped(c) /\ vertex_ptr_cache[c][v] \in Live(v)
  BY <1>1, LiveFacts
<1>3. block[vertex_ptr_cache[c][v]].creation < 0 /\ block[vertex_ptr_cache[c][v]].creation \in Int
  BY <1>2, LiveFacts
<1> SUFFICES ASSUME vertex_ptr_cache[c][v] \in freed PROVE FALSE
  OBVIOUS
<1>4. block[vertex_ptr_cache[c][v]].creation >= 0
  BY <1>2 DEF FreedInv, FreedOf
<1> QED BY <1>3, <1>4

\* Nor has a version that is not under all a transaction has in its snapshot.
LEMMA StillNeeded ==
  ASSUME OwnInv, HistoryInv, CutInv, FreedInv, InRange, NEW c \in Client, Active(c),
         NEW v \in VertexId, NEW q \in Live(v), \A y \in InSnapshot(c, v) : y.ptr <= q
  PROVE  q \notin freed
<1> SUFFICES ASSUME q \in freed PROVE FALSE
  OBVIOUS
<1>l. \A r \in Live(v) : r \in Nat /\ block[r].creation \in Int
  BY LiveFacts
<1>1. PICK p \in Live(v) : q < p /\ block[p].prev = NULLPOINTER
  BY DEF FreedInv, FreedOf
<1>2. ~(p <= q)
  BY <1>l, <1>1
<1>3. CutOf(v, p)
  BY DEF CutInv
<1>4. block[p].creation \in 0 .. visible /\ block[p].creation <= read_epoch_id[c]
  BY <1>1, <1>2, <1>3 DEF CutOf
<1>5. PICK y \in committed : y.vid = v /\ y.epoch = block[p].creation /\ p <= y.ptr
  BY <1>4 DEF HistoryInv, Recorded
<1>6. y \in InSnapshot(c, v)
  BY <1>4, <1>5 DEF InSnapshot
<1>7. y.ptr \in Nat
  <2>1. Types
    BY DEF OwnInv
  <2>2. committed \subseteq [vid : VertexId, ptr : 1 .. Len(block), epoch : 0 .. sealed, read : 0 .. visible]
        /\ Len(block) \in Nat
    BY <2>1, Facts DEF Types, TypeOK
  <2> QED BY <2>2
<1> QED BY <1>l, <1>1, <1>5, <1>6, <1>7

\* What a client must see is not freed.
LEMMA ExpectedKept ==
  ASSUME SnapInv, InRange, NEW c \in Client, Active(c), NEW v \in VertexId
  PROVE  Expected(c, v) \notin freed
<1>0. /\ RangeInv /\ HeadInv /\ CommitInv /\ HistoryInv /\ CutInv /\ FreedInv
      /\ OwnInv /\ Types
  BY DEF SnapInv, OnceInv, RangeInv, OwnInv
<1>1. NULLPOINTER \notin freed /\ read_epoch_id[c] <= visible /\ read_epoch_id[c] \in Nat /\ visible \in Nat
  <2>1. read_epoch_id[c] <= visible /\ read_epoch_id[c] \in Nat /\ visible \in Nat
    BY <1>0, Facts DEF Types
  <2>2. NULLPOINTER \notin freed
    BY <1>0 DEF Types, TypeOK
  <2> QED BY <2>1, <2>2
<1>2. CASE c \notin ReadOnly /\ vertex_ptr_cache[c][v] # NULLPOINTER
  <2>1. Expected(c, v) = vertex_ptr_cache[c][v]
    BY <1>2 DEF Expected
  <2> QED BY <1>0, <1>2, <2>1, OwnNeeded
<1>3. CASE c \in ReadOnly \/ vertex_ptr_cache[c][v] = NULLPOINTER
  <2>1. CASE Expected(c, v) = NULLPOINTER
    BY <1>1, <2>1
  <2>2. ASSUME NEW x \in InSnapshot(c, v), Expected(c, v) = x.ptr,
               \A y \in InSnapshot(c, v) : y.ptr <= x.ptr
        PROVE  Expected(c, v) \notin freed
    <3>1. x \in committed /\ x.vid = v /\ x.epoch <= read_epoch_id[c]
      BY DEF InSnapshot
    <3>2. x.epoch <= visible
      <4>1. x.epoch \in Int
        <5>1. committed \subseteq [vid : VertexId, ptr : 1 .. Len(block), epoch : 0 .. sealed, read : 0 .. visible]
              /\ sealed \in Nat
          BY <1>0, Facts DEF Types, TypeOK
        <5> QED BY <3>1, <5>1
      <4> QED BY <1>1, <3>1, <4>1
    <3>3. x.ptr \in Live(v)
      BY <1>0, <3>1, <3>2, Settled
    <3>4. x.ptr \notin freed
      BY <1>0, <2>2, <3>3, StillNeeded
    <3> QED BY <2>2, <3>4
  <2> QED BY <1>3, <2>1, <2>2, Expects
<1> QED BY <1>2, <1>3

\* No freed version is in a chain.
LEMMA ChainKept ==
  ASSUME SnapInv, InRange, NEW v \in VertexId
  PROVE  Reach(vertex_ptrs[v]) \cap freed = {}
<1> SUFFICES ASSUME NEW q \in Reach(vertex_ptrs[v]), q \in freed PROVE FALSE
  OBVIOUS
<1>0. RangeInv /\ HeadInv /\ LinkInv /\ FreedInv /\ OwnInv
  BY DEF SnapInv, OnceInv, RangeInv
<1>l. \A r \in Live(v) : r \in DOMAIN block /\ r \in Nat /\ r > 0
  BY <1>0, LiveFacts
<1>1. q \in Live(v)
  BY <1>0, LiveReach
<1>2. PICK p \in Live(v) : q < p /\ p <= vertex_ptrs[v] /\ block[p].prev = NULLPOINTER
  BY <1>0, <1>1 DEF FreedInv, FreedOf
<1> DEFINE S == {r \in Live(v) : p <= r}
<1>3. vertex_ptrs[v] \in S \cup {NULLPOINTER}
  BY <1>0, <1>2 DEF HeadInv, HeadOf
<1>4. ASSUME NEW r \in S PROVE block[r].prev \in S \cup {NULLPOINTER}
  <2>1. CASE r = p
    BY <1>2, <2>1
  <2>2. CASE r # p
    <3>1. p < r
      BY <1>l, <2>2
    <3>2. LinkOf(v, r)
      BY <1>0 DEF LinkInv
    <3> QED BY <3>1, <3>2 DEF LinkOf
  <2> QED BY <2>1, <2>2
<1>5. S \in SUBSET DOMAIN block
  BY <1>l
<1> HIDE DEF S
<1>6. q \in S
  BY <1>3, <1>4, <1>5, ReachWithin
<1> QED BY <1>l, <1>1, <1>2, <1>6 DEF S

\* What a client stands on is not freed.
LEMMA ReadingKept ==
  ASSUME SnapInv, InRange, NEW c \in Client, Active(c)
  PROVE  reading[c].ptr \notin freed
<1>0. HistoryInv /\ CutInv /\ FreedInv /\ ReadInv /\ OwnInv /\ Types /\ CacheInv /\ WalkInv
  BY DEF SnapInv, OnceInv, RangeInv, OwnInv
<1>1. NULLPOINTER \notin freed
  BY <1>0, Facts DEF Types, TypeOK
<1>2. CASE pc[c] # "walk"
  BY <1>0, <1>1, <1>2 DEF Types, PlaceInv, PlaceOf, NotReading
<1>3. CASE pc[c] = "walk"
  <2> DEFINE v == reading[c].vid
  <2>0. v \in VertexId
    BY <1>0, <1>3 DEF WalkInv, WalkOf
  <2>1. CASE c \notin ReadOnly /\ vertex_ptr_cache[c][v] # NULLPOINTER
    <3>1. reading[c].ptr = vertex_ptr_cache[c][v]
      BY <1>0, <1>3, <2>1, OwnArrived
    <3> QED BY <1>0, <2>0, <2>1, <3>1, OwnNeeded
  <2>2. CASE ~(c \notin ReadOnly /\ vertex_ptr_cache[c][v] # NULLPOINTER)
    <3>1. /\ reading[c].ptr # NULLPOINTER => reading[c].ptr \in Live(v)
          /\ \A x \in InSnapshot(c, v) : x.ptr <= reading[c].ptr
      BY <1>0, <1>3, <2>2 DEF ReadInv, ReadOf
    <3> HIDE DEF v
    <3> QED BY <1>0, <1>1, <2>0, <3>1, StillNeeded
  <2> QED BY <2>1, <2>2
<1> QED BY <1>2, <1>3

\* A reader that has arrived has what it must see.
LEMMA ReadsExpected ==
  ASSUME SnapInv, InRange, NEW c \in Client, pc[c] = "walk", Arrived(c)
  PROVE  reading[c].ptr = Expected(c, reading[c].vid)
<1> DEFINE v == reading[c].vid
           p == reading[c].ptr
<1>0. /\ RangeInv /\ LooseInv /\ HeadInv /\ CommitInv /\ HistoryInv /\ ReadInv
      /\ OwnInv /\ Types /\ CacheInv /\ WalkInv
  BY DEF SnapInv, OnceInv, RangeInv, OwnInv
<1>1. v \in VertexId
  BY <1>0 DEF WalkInv, WalkOf
<1>2. CASE c \notin ReadOnly /\ vertex_ptr_cache[c][v] # NULLPOINTER
  <2>1. p = vertex_ptr_cache[c][v]
    BY <1>0, <1>2, OwnArrived
  <2> QED BY <1>2, <2>1 DEF Expected
<1>3. CASE ~(c \notin ReadOnly /\ vertex_ptr_cache[c][v] # NULLPOINTER)
  <2>1. /\ p # NULLPOINTER => p \in Live(v) /\ p <= vertex_ptrs[v]
        /\ \A x \in InSnapshot(c, v) : x.ptr <= p
    BY <1>0, <1>3 DEF ReadInv, ReadOf
  <2>a. p # NULLPOINTER => Visible(block[p].creation, read_epoch_id[c], Id(c))
    BY DEF Arrived
  <2>t. /\ visible \in Nat /\ read_epoch_id[c] \in Nat /\ read_epoch_id[c] <= visible
        /\ Len(block) \in Nat /\ sealed \in Nat /\ p \in Nat
        /\ committed \subseteq [vid : VertexId, ptr : 1 .. Len(block), epoch : 0 .. sealed, read : 0 .. visible]
    <3>1. Len(block) \in Nat /\ visible \in Nat /\ sealed \in Nat
          /\ read_epoch_id[c] \in Nat /\ read_epoch_id[c] <= visible
      BY <1>0, Facts DEF Types
    <3>2. reading \in [Client -> [vid : VertexId \cup {0}, ptr : 0 .. Len(block)]]
          /\ committed \subseteq [vid : VertexId, ptr : 1 .. Len(block), epoch : 0 .. sealed, read : 0 .. visible]
      BY <1>0 DEF Types, TypeOK
    <3> QED BY <3>1, <3>2
  <2>s. \A x \in InSnapshot(c, v) : x \in committed /\ x.vid = v /\ x.epoch <= visible /\ x.ptr \in Nat /\ x.ptr > 0
    BY <2>t DEF InSnapshot
  <2>2. ASSUME p # NULLPOINTER PROVE block[p].creation \in 0 .. read_epoch_id[c]
    <3>1. p \in Live(v) /\ p <= vertex_ptrs[v] /\ p \in DOMAIN block /\ block[p].creation \in Int
      BY <1>0, <1>1, <2>1, <2>2, LiveFacts
    <3>2. -block[p].creation # Id(c)
      <4>1. CASE c \in ReadOnly
        <5>1. block[p].creation \in Stamps /\ transaction_id \in Nat
          BY <1>0, <3>1, Facts DEF Types
        <5> QED BY <4>1, <5>1, <3>1, <2>t DEF Id, Stamps, InRange, ROLLBACK_TOMBSTONE
      <4>2. CASE c \notin ReadOnly
        <5> SUFFICES ASSUME -block[p].creation = local_txn_id[c] PROVE FALSE
          BY <4>2 DEF Id
        <5>1. local_txn_id[c] > 0
          BY <1>0, <4>2 DEF Types, PlaceInv, PlaceOf, Active
        <5>2. p \in Unstamped(c)
          BY <1>0, <3>1, <5>1, OwnStamp
        <5>3. pc[c] = "install"
          BY <1>0, <1>1, <3>1, <5>2 DEF HeadInv, HeadOf
        <5> QED BY <5>3
      <4> QED BY <4>1, <4>2
    <3> QED BY <2>2, <2>a, <2>t, <3>1, <3>2 DEF Visible
  <2>3. CASE p = NULLPOINTER
    <3>1. InSnapshot(c, v) = {}
      BY <2>1, <2>3, <2>s
    <3> QED BY <1>3, <2>3, <3>1 DEF Expected
  <2>4. CASE p # NULLPOINTER
    <3>1. PICK y \in committed : y.vid = v /\ y.epoch = block[p].creation /\ p <= y.ptr
      BY <1>0, <1>1, <2>1, <2>2, <2>4, <2>t DEF HistoryInv, Recorded
    <3>2. y \in InSnapshot(c, v)
      BY <2>2, <2>4, <2>t, <3>1 DEF InSnapshot
    <3> HIDE DEF p, v
    <3>3. PICK x \in InSnapshot(c, v) :
            Expected(c, v) = x.ptr /\ \A z \in InSnapshot(c, v) : z.ptr <= x.ptr
      <4>1. c \in ReadOnly \/ vertex_ptr_cache[c][v] = NULLPOINTER
        BY <1>3
      <4> QED BY <1>1, <3>2, <4>1, Expects
    <3>4. x.ptr = p
      <4>1. x.ptr <= p /\ y.ptr <= x.ptr /\ p <= y.ptr
        BY <2>1, <3>1, <3>2, <3>3
      <4> QED BY <2>s, <2>t, <3>2, <4>1
    <3>5. Expected(c, v) = p
      BY <3>3, <3>4
    <3> QED BY <3>5 DEF p, v
  <2> QED BY <2>3, <2>4
<1> QED BY <1>2, <1>3

\* A reader gets its own last write or the newest commit in its snapshot, whatever commits,
\* aborts and compactions do around it.
THEOREM SnapshotsSeen ==
  ASSUME IdsUsedOnce, OwnThreads
  PROVE  Spec => [](InRange => SnapshotReads)
<1>1. OwnInv /\ (InRange => SnapInv) => (InRange => SnapshotReads)
  <2> SUFFICES ASSUME SnapInv, InRange PROVE SnapshotReads
    OBVIOUS
  <2> QED BY ReadsExpected DEF SnapshotReads
<1> QED BY <1>1, SnapInvariance, PTL

\* What a client may still read is not freed, nor what it stands on, nor anything in a chain.
THEOREM VersionsKept ==
  ASSUME IdsUsedOnce, OwnThreads
  PROVE  Spec => [](InRange => ReadersKeepVersions)
<1>1. OwnInv /\ (InRange => SnapInv) => (InRange => ReadersKeepVersions)
  <2> SUFFICES ASSUME SnapInv, InRange PROVE ReadersKeepVersions
    OBVIOUS
  <2>1. \A c \in Client : Active(c) =>
          /\ \A v \in VertexId : Expected(c, v) \notin freed
          /\ reading[c].ptr \notin freed
    BY ExpectedKept, ReadingKept
  <2>2. \A v \in VertexId : Reach(vertex_ptrs[v]) \cap freed = {}
    BY ChainKept
  <2> QED BY <2>1, <2>2 DEF ReadersKeepVersions
<1> QED BY <1>1, SnapInvariance, PTL
=============================================================================
