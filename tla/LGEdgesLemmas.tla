---------------------------- MODULE LGEdgesLemmas ----------------------------
(***************************************************************************)
(* For LGEdgesProof, and for any clients, labels, bounds and loaded graph: *)
(* the parts of the invariant, lemmas about the operators of LGEdges, and  *)
(* the steps that begin, scan, lock, write edges and install them.         *)
(***************************************************************************)
EXTENDS LGEdges, SequenceTheorems, WellFoundedInduction, TLAPS

USE DEF NULLPOINTER, NoTail, NoCache, ROLLBACK_TOMBSTONE

AnyLabel == Label \cup Members(LoadedLabels)

-----------------------------------------------------------------------------
(* Types *)

EntryRec == [dst : AllDst, creation : Int, deletion : Int, data : Int]
BlockRec == [creation : Int, prev : Nat, committed : Int, num : Nat, order : Nat, entries : Seq(EntryRec)]
LabelRec == [creation : Int, prev : Nat, order : Nat, entries : Seq([label : AnyLabel, ptr : Nat])]
WordRec  == [field : {"block", "committed", "creation", "deletion", "label"}, p : Nat, i : Nat]
Writes   == UNION {[D -> Int] : D \in SUBSET AllDst}

TxnRec ==
  [id : Nat, read : Int, ops : Nat, locked : BOOLEAN, ptrs : [Label -> Nat \cup {NoCache}],
   tails : [Pointer -> Nat \cup {NoTail}], stamps : Seq(WordRec), own : SUBSET Nat, epoch : Nat,
   mine : [Label -> Writes]]
IsScan(r) ==
  /\ r = [x \in {"l", "want", "one", "reverse", "lb", "ptr", "num", "cursor", "found"} |-> r[x]]
  /\ r.lb \in Nat /\ r.ptr \in Nat
CompactionRec == [bound : Nat, todo : SUBSET Nat, again : BOOLEAN, resume : {"idle", "open"}]

\* Blocks are chained to earlier ones.
Older(chained) ==
  /\ Len(chained) \in Nat /\ DOMAIN chained = 1 .. Len(chained)
  /\ \A p \in DOMAIN chained : chained[p].prev \in 0 .. p - 1

Place == {"idle", "open", "label", "walk", "tail", "entries", "read", "registered", "install", "clean",
          "leave", "finish", "spin", "scan", "lock", "compact"}

EpochInv == sealed \in Nat /\ visible \in 0 .. sealed

Types ==
  /\ EpochInv
  /\ stage \in [Client -> {"idle", "queued", "granted"}]
  /\ transaction_id \in Nat
  /\ blocks \in Seq(BlockRec) /\ Len(blocks) <= MaxBlock
  /\ labels \in Seq(LabelRec) /\ edge_label_ptr \in 0 .. Len(labels)
  /\ pc \in [Client -> Place] /\ txn \in [Client -> TxnRec]
  /\ scan = [c \in Client |-> scan[c]] /\ \A c \in Client : IsScan(scan[c])
  /\ compaction \in [Client -> CompactionRec]
  /\ committed \subseteq [label : AnyLabel, epoch : Nat, read : Int, writes : Writes]

OlderInv == Older(blocks) /\ Older(labels)

-----------------------------------------------------------------------------
(* Places, the vertex lock and what a transaction refers to *)

\* A client in a transaction, up to where it gives up what it has written or the lock.
InScan        == {"label", "walk", "tail", "entries"}
Open(c)       == pc[c] \in InScan \cup {"open", "read", "registered"}
Writer(c)     == Open(c) \/ pc[c] = "install"
Holds(c)      == ((Writer(c) \/ pc[c] = "clean") /\ txn[c].locked) \/ pc[c] = "compact"
Installing(c) == pc[c] = "install" /\ txn[c].locked

\* A transaction without the lock has written nothing.
Bare(t) ==
  /\ \A l \in Label : t.ptrs[l] = NoCache /\ DOMAIN t.mine[l] = {}
  /\ \A p \in Pointer : t.tails[p] = NoTail
  /\ t.stamps = <<>> /\ t.own = {}

PlaceOf(c) ==
  /\ stage[c] = "queued" => pc[c] = "registered"
  /\ c \in ReadOnly => pc[c] \notin {"registered", "install"}
  /\ txn[c].read \in -1 .. visible
  /\ Open(c) \/ pc[c] \in {"install", "clean", "leave"} => txn[c].read >= 0
  /\ pc[c] \in {"scan", "lock", "compact"} /\ compaction[c].resume = "open" => txn[c].read >= 0
  /\ c \notin ReadOnly /\ txn[c].read # -1 => txn[c].id \in 1 .. transaction_id
  /\ txn[c].locked => c \notin ReadOnly /\ (Writer(c) \/ pc[c] \in {"clean", "leave"})
  /\ ~txn[c].locked => Bare(txn[c])
  /\ pc[c] = "install" => txn[c].epoch \in 1 .. sealed

LockInv ==
  /\ vertex_futex \in {0, 1}
  /\ \A c \in Client : Holds(c) => vertex_futex = 1
  /\ \A c, d \in Client : Holds(c) /\ Holds(d) => c = d

\* Labels are different and point to blocks.
LabelsInv ==
  \A q \in DOMAIN labels : \A i \in DOMAIN labels[q].entries :
    /\ labels[q].entries[i].ptr \in DOMAIN blocks
    /\ \A j \in DOMAIN labels[q].entries : labels[q].entries[i].label = labels[q].entries[j].label => i = j

\* Blocks have the entries their tails count, and transactions and scans refer to blocks there are.
TailInv == \A p \in DOMAIN blocks : blocks[p].num <= Len(blocks[p].entries)
RefsOf(c) ==
  /\ Writer(c) =>
       /\ \A l \in Label : txn[c].ptrs[l] <= Len(blocks)
       /\ \A p \in Pointer : txn[c].tails[p] # NoTail =>
            p \in DOMAIN blocks /\ txn[c].tails[p] <= Len(blocks[p].entries)
       /\ txn[c].own \subseteq DOMAIN blocks
       /\ \A w \in Members(txn[c].stamps) :
            /\ w.field = "label" => w.p \in DOMAIN labels
            /\ w.field # "label" => w.p \in DOMAIN blocks
            /\ w.field \in {"creation", "deletion"} => w.i \in DOMAIN blocks[w.p].entries
            /\ w.field = "block" => w.p \in txn[c].own
            /\ w.field = "committed" => pc[c] = "install"
  /\ scan[c].ptr <= Len(blocks) /\ scan[c].lb <= Len(labels)
  /\ pc[c] = "compact" =>
       compaction[c].todo \subseteq (IF edge_label_ptr = NULLPOINTER THEN {} ELSE DOMAIN labels[edge_label_ptr].entries)

PlaceInv == \A c \in Client : PlaceOf(c)
RefsInv  == \A c \in Client : RefsOf(c)

Basic == Types /\ OlderInv /\ PlaceInv /\ LockInv /\ LabelsInv /\ TailInv /\ RefsInv

-----------------------------------------------------------------------------
(* No update is lost *)

HeadOf(l) == Pointed(edge_label_ptr, l)

\* The block that is newest for c under l once c has committed.
TopOf(c, l) == IF l \in Label /\ txn[c].ptrs[l] # NoCache THEN txn[c].ptrs[l] ELSE HeadOf(l)

\* The blocks a transaction has made are newer than all there are to see, and so are its tops.
TopsOf(c) ==
  /\ Open(c) =>
       /\ \A q \in txn[c].own, l \in AnyLabel : HeadOf(l) < q
       /\ \A l \in Label : txn[c].ptrs[l] # NoCache => txn[c].ptrs[l] = HeadOf(l) \/ txn[c].ptrs[l] \in txn[c].own
  /\ pc[c] = "install" => \A l \in Label : txn[c].ptrs[l] # NoCache => HeadOf(l) <= txn[c].ptrs[l]

Active(c) == txn[c].read # -1
Old(e)    == e <= visible /\ \A d \in Client : Active(d) => e <= txn[d].read
Steady(p) == blocks[p].creation >= 0 /\ (blocks[p].creation <= blocks[p].committed \/ Old(blocks[p].creation))

CommittedInv == \A p \in DOMAIN blocks : blocks[p].committed <= sealed

SettledInv ==
  (\A c \in Client : ~Installing(c)) => \A l \in AnyLabel : HeadOf(l) # NULLPOINTER => Steady(HeadOf(l))

PendOf(c) ==
  Open(c) => \A l \in Label :
    /\ txn[c].ptrs[l] \notin {NoCache, NULLPOINTER} =>
         /\ txn[c].ptrs[l] \in txn[c].own => Word("block", txn[c].ptrs[l], 0) \in Members(txn[c].stamps)
         /\ txn[c].tails[txn[c].ptrs[l]] # NoTail
    /\ DOMAIN txn[c].mine[l] # {} => txn[c].ptrs[l] \notin {NoCache, NULLPOINTER}
    /\ txn[c].ptrs[l] # NoCache => \A x \in committed : x.label = l => x.epoch <= txn[c].read

\* A transaction's tails are past the blocks' and past all it has written.
TailsOf(c) ==
  Open(c) =>
    /\ \A p \in Pointer : txn[c].tails[p] # NoTail => blocks[p].num <= txn[c].tails[p]
    /\ \A w \in Members(txn[c].stamps) : w.field \in {"creation", "deletion"} =>
         txn[c].tails[w.p] # NoTail /\ w.i \in 1 .. txn[c].tails[w.p]

Timed(c, p) ==
  \/ p \in Tails(txn[c]) \/ Word("committed", p, 0) \in Members(txn[c].stamps)
  \/ blocks[p].committed = txn[c].epoch
InstallOf(c) ==
  Installing(c) => \A l \in AnyLabel :
    LET p == TopOf(c, l) IN
    p # NULLPOINTER =>
      /\ Word("block", p, 0) \in Members(txn[c].stamps) \/ blocks[p].creation \in 0 .. txn[c].epoch
      /\ Timed(c, p) \/ (Steady(p) /\ p = HeadOf(l) /\ p \notin txn[c].own)

CommitOf(x) ==
  /\ x.epoch <= sealed
  /\ \A c \in Client : Installing(c) => x.epoch <= txn[c].epoch
  /\ \/ HeadOf(x.label) # NULLPOINTER /\ x.epoch <= blocks[HeadOf(x.label)].committed
     \/ \E c \in Client : Installing(c) /\ TopOf(c, x.label) # NULLPOINTER /\ Timed(c, TopOf(c, x.label))

\* A compaction's bound is in every snapshot there is and will be.
BoundOf(c) ==
  /\ pc[c] = "scan" => compaction[c].bound <= visible \/ Active(c)
  /\ pc[c] \in {"lock", "compact"} => Old(compaction[c].bound)

TopsInv    == \A c \in Client : TopsOf(c)
PendInv    == \A c \in Client : PendOf(c)
TailsInv   == \A c \in Client : TailsOf(c)
InstallInv == \A c \in Client : InstallOf(c)
CommitInv  == \A x \in committed : CommitOf(x)
BoundInv   == \A c \in Client : BoundOf(c)

CommitsInv == TopsInv /\ CommittedInv /\ SettledInv /\ PendInv /\ TailsInv /\ InstallInv /\ CommitInv /\ BoundInv

-----------------------------------------------------------------------------
(* What a step leaves alone *)

Same(d)  == pc'[d] = pc[d] /\ txn'[d] = txn[d] /\ scan'[d] = scan[d] /\ compaction'[d] = compaction[d]
Alone(c) == \A d \in Client \ {c} : Same(d) /\ stage'[d] = stage[d]

\* The transaction of c is what it was, but for the calls it has made.
Keeps(c) ==
  /\ txn'[c].id = txn[c].id /\ txn'[c].read = txn[c].read /\ txn'[c].locked = txn[c].locked
  /\ txn'[c].ptrs = txn[c].ptrs /\ txn'[c].tails = txn[c].tails /\ txn'[c].stamps = txn[c].stamps
  /\ txn'[c].own = txn[c].own /\ txn'[c].epoch = txn[c].epoch /\ txn'[c].mine = txn[c].mine

\* A step of a scan: only the scan goes on.
ScanStep(c) ==
  /\ Alone(c)
  /\ UNCHANGED <<epochsVars, transaction_id, vertex_futex, store, compaction, committed>>
  /\ pc' \in [Client -> Place] /\ txn' \in [Client -> TxnRec]
  /\ scan' = [d \in Client |-> scan'[d]] /\ IsScan(scan'[c])
  /\ pc[c] \in InScan \cup {"open", "read"} /\ pc'[c] \in InScan \cup {"open", "read"}
  /\ Keeps(c)
  /\ scan'[c].ptr <= Len(blocks) /\ scan'[c].lb <= Len(labels)

\* For d a step that does not touch the blocks and commits nothing.
QuietFor(d) ==
  /\ Installing(d)' <=> Installing(d)
  /\ pc'[d] = "install" => pc[d] = "install" /\ Keeps(d)
  /\ Open(d)' => (Open(d) /\ Keeps(d)) \/ Bare(txn'[d])
  /\ txn'[d].read \in {txn[d].read, visible, -1}

QuietStep(c) ==
  /\ Alone(c)
  /\ UNCHANGED <<store, sealed, visible, committed>>
  /\ transaction_id' \in Nat /\ transaction_id <= transaction_id' /\ stage' \in [Client -> {"idle", "queued", "granted"}]
  /\ pc' \in [Client -> Place] /\ txn' \in [Client -> TxnRec]
  /\ scan' = [d \in Client |-> scan'[d]] /\ IsScan(scan'[c])
  /\ compaction' \in [Client -> CompactionRec]
  /\ PlaceOf(c)' /\ RefsOf(c)' /\ LockInv' /\ QuietFor(c)

\* What a call that writes under label l does: block p, which is new unless there is a p already, has the entries e,
\* of which m count for the transaction, and the words ws are to be stamped.
Edited(c, l, p, e, m, ws, chained) ==
  /\ UNCHANGED <<visible, sealed, stage, transaction_id, edge_label_ptr, labels, freed, freedLabels, scan, pc,
                 compaction, committed>>
  /\ vertex_futex' = 1
  /\ txn' \in [Client -> TxnRec] /\ \A d \in Client \ {c} : txn'[d] = txn[d]
  /\ txn'[c].id = txn[c].id /\ txn'[c].read = txn[c].read /\ txn'[c].epoch = txn[c].epoch /\ txn'[c].locked
  /\ txn'[c].ptrs = [txn[c].ptrs EXCEPT ![l] = p] /\ txn'[c].tails = [txn[c].tails EXCEPT ![p] = m]
  /\ Members(txn'[c].stamps) = Members(txn[c].stamps) \cup Members(ws)
  /\ txn'[c].own = txn[c].own \cup ({p} \ DOMAIN blocks)
  /\ \A k \in Label \ {l} : txn'[c].mine[k] = txn[c].mine[k]
  /\ chained \in Seq(BlockRec) /\ Len(chained) <= MaxBlock /\ Len(blocks) <= Len(chained)
  /\ \A o \in DOMAIN blocks : chained[o] = blocks[o]
  /\ \A o \in DOMAIN chained : o \in DOMAIN blocks \/ o = p
  /\ p \in DOMAIN chained /\ p \in Pointer
  /\ p \in DOMAIN blocks =>
       /\ p = TopOf(c, l) /\ (p = HeadOf(l) \/ p \in txn[c].own)
       /\ p \in txn[c].own => Word("block", p, 0) \in Members(txn[c].stamps)
       /\ txn[c].tails[p] # NoTail => txn[c].tails[p] <= m
  /\ p \notin DOMAIN blocks =>
       /\ p = Len(blocks) + 1 /\ chained[p].prev \in 0 .. p - 1 /\ chained[p].committed <= sealed
       /\ chained[p].prev = TopOf(c, l) /\ chained[p].creation = -txn[c].id
       /\ Word("block", p, 0) \in Members(ws)
  /\ \A x \in committed : x.label = l => x.epoch <= txn[c].read
  /\ e \in Seq(EntryRec) /\ m \in Nat /\ chained[p].num <= m /\ m <= Len(e)
  /\ blocks' = [chained EXCEPT ![p].entries = e]
  /\ \A w \in Members(ws) :
       \/ w = Word("block", p, 0) /\ p \notin DOMAIN blocks
       \/ w.field \in {"creation", "deletion"} /\ w.p = p /\ w.i \in 1 .. m

\* What a call that writes nothing does: it has the lock, and may know that there is no block for l.
Looked(c, l) ==
  /\ UNCHANGED <<visible, sealed, stage, transaction_id, edge_label_ptr, labels, blocks, freed, freedLabels, scan, pc,
                 compaction, committed>>
  /\ vertex_futex' = 1
  /\ txn' \in [Client -> TxnRec] /\ \A d \in Client \ {c} : txn'[d] = txn[d]
  /\ txn'[c].id = txn[c].id /\ txn'[c].read = txn[c].read /\ txn'[c].epoch = txn[c].epoch /\ txn'[c].locked
  /\ txn'[c].tails = txn[c].tails /\ txn'[c].stamps = txn[c].stamps /\ txn'[c].own = txn[c].own
  /\ txn'[c].mine = txn[c].mine
  /\ \A k \in Label \ {l} : txn'[c].ptrs[k] = txn[c].ptrs[k]
  /\ \/ txn'[c].ptrs[l] = txn[c].ptrs[l]
     \/ /\ txn'[c].ptrs[l] = NULLPOINTER /\ HeadOf(l) = NULLPOINTER /\ txn[c].ptrs[l] \in {NoCache, NULLPOINTER}
        /\ \A x \in committed : x.label = l => x.epoch <= txn[c].read

-----------------------------------------------------------------------------
(* The operators of LGEdges *)

\* A set of numbers with a member has a least one.
LEMMA Least ==
  ASSUME NEW S, S \subseteq Nat, NEW e \in S
  PROVE  \E x \in S : \A y \in S : x <= y
PROOF
<1>1. IsWellFoundedOn(OpToRel(<, Nat), Nat)
  BY NatLessThanWellFounded
<1>2. \E x \in S : \A y \in S : ~(<<y, x>> \in OpToRel(<, Nat))
  BY <1>1, WFMin, Zenon
<1>3. PICK x \in S : \A y \in S : ~(<<y, x>> \in OpToRel(<, Nat))
  BY <1>2
<1>4. \A y \in S : ~(y < x)
  BY <1>3 DEF OpToRel
<1>5. \A y \in S : x <= y
  BY <1>4
<1> QED BY <1>5

\* The sizes of blocks are powers of two.
LEMMA BytesRec ==
  /\ Bytes[0] = 1
  /\ \A n \in Nat \ {0} : Bytes[n] = 2 * Bytes[n - 1]
PROOF
<1> DEFINE B(n) == {g \in [0 .. n -> Nat] : g[0] = 1 /\ \A m \in 1 .. n : g[m] = 2 * g[m - 1]}
           f == [n \in Nat |-> (CHOOSE g \in B(n) : TRUE)[n]]
<1>1. \A n \in Nat : B(n) # {}
  <2> DEFINE S == {n \in Nat : B(n) = {}}
  <2> SUFFICES ASSUME S # {} PROVE FALSE
    OBVIOUS
  <2>1. PICK n \in S : \A m \in S : n <= m
    <3>1. S \subseteq Nat
      OBVIOUS
    <3> HIDE DEF S
    <3> QED BY <3>1, Least
  <2>2. CASE n = 0
    <3>1. [m \in 0 .. 0 |-> 1] \in B(0)
      OBVIOUS
    <3> QED BY <2>2, <3>1
  <2>3. CASE n # 0
    <3>1. n - 1 \in Nat /\ n \in Nat
      BY <2>3
    <3>2. B(n - 1) # {}
      <4>0. ~(n <= n - 1)
        BY <3>1
      <4>1. n - 1 \notin S
        <5> HIDE DEF S
        <5> QED BY <2>1, <4>0
      <4> HIDE DEF B
      <4> QED BY <3>1, <4>1
    <3>3. PICK g : g \in B(n - 1)
      BY <3>2
    <3> DEFINE h == [m \in 0 .. n |-> IF m = n THEN 2 * g[n - 1] ELSE g[m]]
    <3>4. g \in [0 .. n - 1 -> Nat] /\ g[0] = 1 /\ \A m \in 1 .. n - 1 : g[m] = 2 * g[m - 1]
      BY <3>3
    <3>5. h \in [0 .. n -> Nat] /\ h[0] = 1
      BY <3>1, <3>4, <2>3
    <3>6. ASSUME NEW m \in 1 .. n PROVE h[m] = 2 * h[m - 1]
      <4>1. m - 1 \in 0 .. n - 1 /\ m \in 0 .. n /\ m - 1 \in 0 .. n /\ m - 1 # n
        BY <3>1
      <4>2. h[m - 1] = g[m - 1]
        BY <4>1
      <4>3. CASE m = n
        BY <4>2, <4>3
      <4>4. CASE m # n
        BY <3>1, <3>4, <4>1, <4>2, <4>4
      <4> QED BY <4>3, <4>4
    <3> HIDE DEF h
    <3>7. h \in B(n)
      BY <3>5, <3>6
    <3> QED BY <2>1, <3>7
  <2> QED BY <2>2, <2>3
<1>2. ASSUME NEW n \in Nat, NEW g \in B(n), NEW k \in Nat, NEW h \in B(k), NEW j \in Nat, j <= n, j <= k
      PROVE  g[j] = h[j]
  <2> DEFINE S == {m \in Nat : m <= n /\ m <= k /\ g[m] # h[m]}
  <2>0. S = {} => g[j] = h[j]
    <3> HIDE DEF B
    <3> QED BY <1>2
  <2> SUFFICES ASSUME S # {} PROVE FALSE
    BY <2>0
  <2>1. PICK m \in S : \A i \in S : m <= i
    <3>1. S \subseteq Nat
      OBVIOUS
    <3> HIDE DEF S
    <3> QED BY <3>1, Least
  <2>2. m \in Nat /\ m # 0 /\ m <= n /\ m <= k
    OBVIOUS
  <2>3. m - 1 \in Nat /\ m - 1 <= n /\ m - 1 <= k /\ m - 1 < m /\ m \in 1 .. n /\ m \in 1 .. k
    BY <2>2
  <2>4. m - 1 \notin S
    BY <2>1, <2>2, <2>3
  <2>5. g[m - 1] = h[m - 1]
    BY <2>3, <2>4
  <2>6. g[m] = 2 * g[m - 1] /\ h[m] = 2 * h[m - 1]
    BY <2>3
  <2> QED BY <2>1, <2>5, <2>6
<1>21. \A n \in Nat : \A g \in B(n) : g[0] = 1 /\ \A m \in 1 .. n : g[m] = 2 * g[m - 1]
  OBVIOUS
<1> HIDE DEF B
<1>3. ASSUME NEW n \in Nat PROVE (CHOOSE g \in B(n) : TRUE) \in B(n)
  BY <1>1
<1>4. f = [n \in Nat |-> IF n = 0 THEN 1 ELSE 2 * f[n - 1]]
  <2>1. ASSUME NEW n \in Nat PROVE f[n] = IF n = 0 THEN 1 ELSE 2 * f[n - 1]
    <3>1. PICK g : g = CHOOSE x \in B(n) : TRUE
      OBVIOUS
    <3>2. g \in B(n) /\ f[n] = g[n]
      BY <3>1, <1>3
    <3>3. CASE n = 0
      BY <3>2, <3>3, <1>21
    <3>4. CASE n # 0
      <4>1. n - 1 \in Nat /\ n - 1 <= n /\ n \in 1 .. n /\ n - 1 <= n - 1
        BY <3>4
      <4>2. PICK h : h = CHOOSE x \in B(n - 1) : TRUE
        OBVIOUS
      <4>3. h \in B(n - 1) /\ f[n - 1] = h[n - 1]
        BY <4>1, <4>2, <1>3
      <4>4. g[n - 1] = h[n - 1]
        BY <3>2, <4>1, <4>3, <1>2
      <4>5. g[n] = 2 * g[n - 1]
        BY <3>2, <4>1, <1>21
      <4> QED BY <3>2, <3>4, <4>3, <4>4, <4>5
    <3> QED BY <3>3, <3>4
  <2> QED BY <2>1
<1> HIDE DEF f
<1>5. Bytes = [n \in Nat |-> IF n = 0 THEN 1 ELSE 2 * Bytes[n - 1]]
  BY <1>4 DEF Bytes
<1> QED BY <1>5

\* They are positive, and each is twice the one before.
LEMMA BytesType ==
  \A n \in Nat : Bytes[n] \in Nat /\ Bytes[n] > n
PROOF
<1> DEFINE S == {n \in Nat : ~(Bytes[n] \in Nat /\ Bytes[n] > n)}
<1> SUFFICES ASSUME S # {} PROVE FALSE
  OBVIOUS
<1>1. PICK n \in S : \A m \in S : n <= m
  <2>1. S \subseteq Nat
    OBVIOUS
  <2> HIDE DEF S
  <2> QED BY <2>1, Least
<1>2. n \in Nat /\ n # 0
  BY BytesRec
<1>3. n - 1 \in Nat /\ ~(n <= n - 1)
  BY <1>2
<1>4. n - 1 \notin S
  <2> HIDE DEF S
  <2> QED BY <1>1, <1>3
<1>5. Bytes[n - 1] \in Nat /\ Bytes[n - 1] > n - 1
  BY <1>3, <1>4
<1>6. Bytes[n] = 2 * Bytes[n - 1]
  BY <1>2, BytesRec
<1>7. Bytes[n] \in Nat /\ Bytes[n] > n
  BY <1>2, <1>5, <1>6
<1> QED BY <1>7

LEMMA BytesOrder ==
  \A n, k \in Nat : n <= k => Bytes[n] <= Bytes[k]
PROOF
<1> SUFFICES ASSUME NEW n \in Nat PROVE \A k \in Nat : n <= k => Bytes[n] <= Bytes[k]
  OBVIOUS
<1> DEFINE S == {k \in Nat : n <= k /\ ~(Bytes[n] <= Bytes[k])}
<1> SUFFICES ASSUME S # {} PROVE FALSE
  OBVIOUS
<1>1. PICK k \in S : \A m \in S : k <= m
  <2>1. S \subseteq Nat
    OBVIOUS
  <2> HIDE DEF S
  <2> QED BY <2>1, Least
<1>2. k \in Nat /\ n < k
  BY BytesType
<1>3. k - 1 \in Nat /\ ~(k <= k - 1) /\ n <= k - 1
  BY <1>2
<1>4. k - 1 \notin S
  <2> HIDE DEF S
  <2> QED BY <1>1, <1>3
<1>5. Bytes[n] <= Bytes[k - 1]
  BY <1>3, <1>4
<1>6. Bytes[k] = 2 * Bytes[k - 1]
  BY <1>2, BytesRec
<1>7. Bytes[n] <= Bytes[k]
  BY <1>2, <1>3, <1>5, <1>6, BytesType
<1> QED BY <1>7

\* size_to_order gives the least order with room for size bytes.
LEMMA SizeToOrderFits ==
  ASSUME NEW size \in Nat
  PROVE  /\ SizeToOrder(size) \in Nat /\ Bytes[SizeToOrder(size)] >= size
         /\ SizeToOrder(size) > 0 => Bytes[SizeToOrder(size) - 1] < size
PROOF
<1> DEFINE S == {n \in Nat : Bytes[n] >= size}
           Fits(o) == Bytes[o] >= size /\ (o > 0 => Bytes[o - 1] < size)
<1>1. PICK o \in S : \A m \in S : o <= m
  <2>1. S \subseteq Nat /\ size \in S
    BY BytesType
  <2> HIDE DEF S
  <2> QED BY <2>1, Least
<1>2. o \in 0 .. size
  <2>1. size \in S
    BY BytesType
  <2> QED BY <1>1, <2>1
<1>3. ASSUME o > 0 PROVE Bytes[o - 1] < size
  <2>1. o - 1 \in Nat /\ ~(o <= o - 1)
    BY <1>2, <1>3
  <2>2. o - 1 \notin S
    <3> HIDE DEF S
    <3> QED BY <1>1, <2>1
  <2> QED BY <2>1, <2>2, BytesType
<1>4. Fits(o)
  BY <1>1, <1>3
<1> HIDE DEF Fits
<1>5. \E x \in 0 .. size : Fits(x)
  BY <1>2, <1>4
<1>6. SizeToOrder(size) = CHOOSE x \in 0 .. size : Fits(x)
  BY DEF SizeToOrder, Fits
<1>7. SizeToOrder(size) \in 0 .. size /\ Fits(SizeToOrder(size))
  BY <1>5, <1>6
<1> QED BY <1>7 DEF Fits

\* The members of s at the places in S: a sequence of members of s, as short as the range of the places.
LEMMA PickedType ==
  ASSUME NEW T, NEW s \in Seq(T), NEW S
  PROVE  /\ Picked(s, S) \in Seq(T) /\ Len(Picked(s, S)) <= Len(s)
         /\ \A n \in Nat : S \subseteq 1 .. n => Len(Picked(s, S)) <= n
         /\ \A i \in DOMAIN Picked(s, S) : \E j \in DOMAIN s : j \in S /\ Picked(s, S)[i] = s[j]
PROOF
<1> DEFINE L == Len(s)
           Step(g, m) == IF m = 0 THEN <<>> ELSE IF m \in S THEN Append(g[m - 1], s[m]) ELSE g[m - 1]
           B(n) == {g \in [0 .. n -> Seq(T)] : \A m \in 0 .. n : g[m] = Step(g, m)}
           Good(n, q) == /\ Len(q) <= n
                         /\ \A k \in Nat : S \subseteq 1 .. k => Len(q) <= k
                         /\ \A i \in DOMAIN q : \E j \in 1 .. n : j \in S /\ q[i] = s[j]
<1>0. L \in Nat /\ DOMAIN s = 1 .. L
  OBVIOUS
<1>1. ASSUME NEW n \in Nat, n <= L PROVE B(n) # {}
  <2> DEFINE F == {k \in Nat : k <= L /\ B(k) = {}}
  <2> SUFFICES ASSUME B(n) = {} PROVE FALSE
    OBVIOUS
  <2>0. F # {}
    <3>1. n \in F
      BY <1>1, Zenon
    <3> HIDE DEF F
    <3> QED BY <3>1
  <2>1. PICK k \in F : \A m \in F : k <= m
    <3>1. F \subseteq Nat
      OBVIOUS
    <3> HIDE DEF F
    <3> QED BY <2>0, <3>1, Least
  <2>2. k \in Nat /\ k <= L /\ B(k) = {}
    OBVIOUS
  <2>3. CASE k = 0
    <3>1. [m \in 0 .. 0 |-> <<>>] \in B(0)
      OBVIOUS
    <3> QED BY <2>2, <2>3, <3>1
  <2>4. CASE k # 0
    <3>1. k - 1 \in Nat /\ k - 1 <= L /\ ~(k <= k - 1) /\ k \in 1 .. L
      BY <1>0, <2>2, <2>4
    <3>2. B(k - 1) # {}
      <4>1. k - 1 \notin F
        <5> HIDE DEF F
        <5> QED BY <2>1, <3>1
      <4> HIDE DEF B
      <4> QED BY <3>1, <4>1
    <3>3. PICK g : g \in B(k - 1)
      BY <3>2
    <3>4. g \in [0 .. k - 1 -> Seq(T)] /\ \A m \in 0 .. k - 1 : g[m] = Step(g, m)
      BY <3>3
    <3> DEFINE h == [m \in 0 .. k |-> IF m = k THEN (IF k \in S THEN Append(g[k - 1], s[k]) ELSE g[k - 1]) ELSE g[m]]
    <3>5. h \in [0 .. k -> Seq(T)]
      <4>1. s[k] \in T /\ g[k - 1] \in Seq(T)
        BY <3>1, <3>4, <1>0
      <4>2. Append(g[k - 1], s[k]) \in Seq(T)
        BY <4>1
      <4>3. \A m \in 0 .. k : m # k => g[m] \in Seq(T)
        BY <3>1, <3>4
      <4> QED BY <4>1, <4>2, <4>3
    <3>6. ASSUME NEW m \in 0 .. k PROVE h[m] = Step(h, m)
      <4>1. m # 0 => m - 1 \in 0 .. k /\ m - 1 # k /\ h[m - 1] = g[m - 1]
        BY <3>1
      <4>2. CASE m = k
        BY <2>4, <4>1, <4>2
      <4>3. CASE m # k
        <5>1. m \in 0 .. k - 1 /\ h[m] = g[m]
          BY <3>1, <4>3
        <5> QED BY <3>4, <4>1, <5>1
      <4> QED BY <4>2, <4>3
    <3> HIDE DEF h, Step
    <3>7. h \in B(k)
      BY <3>5, <3>6
    <3> QED BY <2>2, <3>7
  <2> QED BY <2>3, <2>4
<1>11. L <= L
  BY <1>0
<1>2. PICK g : g \in B(L)
  <2> HIDE DEF B
  <2>1. B(L) # {}
    BY <1>0, <1>1, <1>11
  <2> QED BY <2>1
<1>3. g \in [0 .. L -> Seq(T)] /\ \A m \in 0 .. L : g[m] = Step(g, m)
  BY <1>2
<1>4. ASSUME NEW n \in 0 .. L PROVE Good(n, g[n])
  <2> DEFINE F == {k \in 0 .. L : ~Good(k, g[k])}
  <2>0. F = {} => Good(n, g[n])
    <3> HIDE DEF Good
    <3> QED OBVIOUS
  <2> SUFFICES ASSUME F # {} PROVE FALSE
    BY <2>0
  <2>1. PICK k \in F : \A m \in F : k <= m
    <3>1. F \subseteq Nat
      OBVIOUS
    <3> HIDE DEF F
    <3> QED BY <3>1, Least
  <2>2. k \in 0 .. L /\ ~Good(k, g[k]) /\ g[k] = Step(g, k)
    <3> HIDE DEF Good, Step
    <3> QED BY <1>3
  <2>3. CASE k = 0
    <3>1. g[0] = <<>>
      BY <1>3, <1>0
    <3> QED BY <3>1, <2>3, <2>2
  <2>4. CASE k # 0
    <3>1. k - 1 \in 0 .. L /\ ~(k <= k - 1) /\ k \in 1 .. L /\ k - 1 \in Nat
      BY <1>0, <2>2, <2>4
    <3>2. Good(k - 1, g[k - 1])
      <4>1. k - 1 \notin F
        <5> HIDE DEF F
        <5> QED BY <2>1, <3>1
      <4> HIDE DEF Good
      <4> QED BY <3>1, <4>1
    <3>3. PICK q : q = g[k - 1]
      OBVIOUS
    <3>4. q \in Seq(T) /\ Len(q) \in Nat /\ DOMAIN q = 1 .. Len(q)
      BY <1>3, <3>1, <3>3
    <3>5. Good(k - 1, q)
      BY <3>2, <3>3
    <3>6. CASE k \notin S
      <4>1. g[k] = q
        BY <2>2, <2>4, <3>3, <3>6
      <4>2. Good(k, q)
        BY <3>1, <3>4, <3>5
      <4> QED BY <2>2, <4>1, <4>2
    <3>7. CASE k \in S
      <4>1. g[k] = Append(q, s[k])
        BY <2>2, <2>4, <3>3, <3>7
      <4>2. PICK r : r = Append(q, s[k])
        OBVIOUS
      <4>3. /\ r \in Seq(T) /\ Len(r) = Len(q) + 1 /\ DOMAIN r = 1 .. Len(q) + 1 /\ r[Len(q) + 1] = s[k]
            /\ \A i \in 1 .. Len(q) : r[i] = q[i]
        BY <3>1, <3>4, <4>2, <1>0
      <4>4. ASSUME NEW x \in Nat, S \subseteq 1 .. x PROVE Len(r) <= x
        <5>1. k \in 1 .. x
          BY <3>7, <4>4
        <5>2. Len(q) <= k - 1
          BY <3>5
        <5> QED BY <3>1, <3>4, <4>3, <5>1, <5>2
      <4>5. ASSUME NEW i \in DOMAIN r PROVE \E j \in 1 .. k : j \in S /\ r[i] = s[j]
        <5>1. CASE i = Len(q) + 1
          BY <3>1, <3>7, <4>3, <5>1
        <5>2. CASE i # Len(q) + 1
          <6>1. i \in 1 .. Len(q) /\ r[i] = q[i]
            BY <3>4, <4>3, <5>2
          <6>2. PICK j \in 1 .. k - 1 : j \in S /\ q[i] = s[j]
            BY <3>4, <3>5, <6>1
          <6> QED BY <6>1, <6>2, <3>1
        <5> QED BY <5>1, <5>2
      <4>6. Len(r) <= k
        BY <3>1, <3>4, <3>5, <4>3
      <4>7. Good(k, r)
        BY <4>4, <4>5, <4>6
      <4> HIDE DEF Good
      <4> QED BY <2>2, <4>1, <4>2, <4>7
    <3> QED BY <3>6, <3>7
  <2> QED BY <2>3, <2>4
<1> DEFINE P == CHOOSE pick : pick = [n \in 0 .. L |-> IF n = 0 THEN <<>> ELSE IF n \in S THEN Append(pick[n - 1], s[n]) ELSE pick[n - 1]]
<1>5. Picked(s, S) = P[L]
  BY DEF Picked
<1>6. P = [n \in 0 .. L |-> Step(P, n)]
  <2>1. g = [n \in 0 .. L |-> Step(g, n)]
    <3> HIDE DEF Step
    <3> QED BY <1>3
  <2> QED BY <2>1
<1> HIDE DEF P
<1>7. ASSUME NEW n \in 0 .. L PROVE P[n] = g[n]
  <2> DEFINE F == {k \in 0 .. L : P[k] # g[k]}
  <2> SUFFICES ASSUME F # {} PROVE FALSE
    OBVIOUS
  <2>1. PICK k \in F : \A m \in F : k <= m
    <3>1. F \subseteq Nat
      OBVIOUS
    <3> HIDE DEF F
    <3> QED BY <3>1, Least
  <2>2. k \in 0 .. L /\ P[k] # g[k] /\ P[k] = Step(P, k) /\ g[k] = Step(g, k)
    <3> HIDE DEF Step
    <3> QED BY <1>3, <1>6
  <2>3. k # 0
    BY <2>2
  <2>4. k - 1 \in 0 .. L /\ ~(k <= k - 1)
    BY <1>0, <2>2, <2>3
  <2>5. k - 1 \notin F
    <3> HIDE DEF F
    <3> QED BY <2>1, <2>4
  <2>6. P[k - 1] = g[k - 1]
    BY <2>4, <2>5
  <2> QED BY <2>2, <2>6
<1>8. Picked(s, S) = g[L] /\ g[L] \in Seq(T)
  BY <1>0, <1>3, <1>5, <1>7
<1>9. Good(L, g[L])
  BY <1>0, <1>4
<1> HIDE DEF B
<1> QED BY <1>0, <1>8, <1>9

-----------------------------------------------------------------------------
(* Chains *)

\* A chain is its first block and the chain of the block before.
LEMMA ChainRec ==
  ASSUME NEW chained, Older(chained)
  PROVE  /\ Chain(chained, NULLPOINTER) = {}
         /\ \A p \in DOMAIN chained : Chain(chained, p) = {p} \cup Chain(chained, chained[p].prev)
PROOF
<1> DEFINE L == Len(chained)
           Step(g, m) == IF m = 0 THEN {} ELSE {m} \cup g[chained[m].prev]
           B(n) == {g \in [0 .. n -> SUBSET Nat] : \A m \in 0 .. n : g[m] = Step(g, m)}
<1>0. L \in Nat /\ DOMAIN chained = 1 .. L /\ \A m \in 1 .. L : chained[m].prev \in 0 .. m - 1
  BY DEF Older
<1> HIDE DEF L
<1>1. ASSUME NEW n \in Nat, n <= L PROVE B(n) # {}
  <2> DEFINE F == {k \in Nat : k <= L /\ B(k) = {}}
  <2> SUFFICES ASSUME B(n) = {} PROVE FALSE
    OBVIOUS
  <2>0. F # {}
    <3>1. n \in F
      BY <1>1, Zenon
    <3> HIDE DEF F
    <3> QED BY <3>1
  <2>1. PICK k \in F : \A m \in F : k <= m
    <3>1. F \subseteq Nat
      OBVIOUS
    <3> HIDE DEF F
    <3> QED BY <2>0, <3>1, Least
  <2>2. k \in Nat /\ k <= L /\ B(k) = {}
    OBVIOUS
  <2>3. CASE k = 0
    <3>1. [m \in 0 .. 0 |-> {}] \in B(0)
      OBVIOUS
    <3> QED BY <2>2, <2>3, <3>1
  <2>4. CASE k # 0
    <3>1. k - 1 \in Nat /\ k - 1 <= L /\ ~(k <= k - 1) /\ k \in 1 .. L /\ chained[k].prev \in 0 .. k - 1
      BY <1>0, <2>2, <2>4
    <3>2. B(k - 1) # {}
      <4>1. k - 1 \notin F
        <5> HIDE DEF F
        <5> QED BY <2>1, <3>1
      <4> HIDE DEF B
      <4> QED BY <3>1, <4>1
    <3>3. PICK g : g \in B(k - 1)
      <4> HIDE DEF B
      <4> QED BY <3>2
    <3>4. g \in [0 .. k - 1 -> SUBSET Nat] /\ \A m \in 0 .. k - 1 : g[m] = Step(g, m)
      BY <3>3
    <3> DEFINE h == [m \in 0 .. k |-> IF m = k THEN {k} \cup g[chained[k].prev] ELSE g[m]]
    <3>5. h \in [0 .. k -> SUBSET Nat]
      <4>1. g[chained[k].prev] \in SUBSET Nat
        BY <3>1, <3>4
      <4>2. \A m \in 0 .. k : m # k => g[m] \in SUBSET Nat
        BY <3>1, <3>4
      <4> QED BY <2>2, <4>1, <4>2
    <3>6. ASSUME NEW m \in 0 .. k PROVE h[m] = Step(h, m)
      <4>1. m # 0 => chained[m].prev \in 0 .. k /\ chained[m].prev # k /\ h[chained[m].prev] = g[chained[m].prev]
        BY <1>0, <3>1
      <4>2. CASE m = k
        BY <2>4, <4>1, <4>2
      <4>3. CASE m # k
        <5>1. m \in 0 .. k - 1 /\ h[m] = g[m]
          BY <3>1, <4>3
        <5> QED BY <3>4, <4>1, <5>1
      <4> QED BY <4>2, <4>3
    <3> HIDE DEF h, Step
    <3>7. h \in B(k)
      BY <3>5, <3>6
    <3> QED BY <2>2, <3>7
  <2> QED BY <2>3, <2>4
<1>11. L <= L
  BY <1>0
<1>2. PICK g : g \in B(L)
  <2> HIDE DEF B
  <2>1. B(L) # {}
    BY <1>0, <1>1, <1>11
  <2> QED BY <2>1
<1>3. g = [n \in 0 .. L |-> Step(g, n)]
  <2> HIDE DEF Step
  <2> QED BY <1>2
<1> DEFINE C == CHOOSE chain : chain = [q \in 0 .. L |-> IF q = 0 THEN {} ELSE {q} \cup chain[chained[q].prev]]
<1>4. C = [n \in 0 .. L |-> Step(C, n)]
  BY <1>3
<1>5. \A p : Chain(chained, p) = C[p]
  BY DEF Chain, L
<1> HIDE DEF C
<1>6. \A n \in 0 .. L : C[n] = Step(C, n)
  <2> HIDE DEF Step
  <2> QED BY <1>4
<1>7. C[0] = {} /\ \A p \in 1 .. L : C[p] = {p} \cup C[chained[p].prev]
  <2>1. 0 \in 0 .. L /\ \A p \in 1 .. L : p \in 0 .. L /\ p # 0
    BY <1>0
  <2>2. C[0] = Step(C, 0)
    BY <1>6, <2>1
  <2>3. ASSUME NEW p \in 1 .. L PROVE C[p] = {p} \cup C[chained[p].prev]
    <3>1. C[p] = Step(C, p) /\ p # 0
      BY <1>6, <2>1
    <3> QED BY <3>1
  <2> QED BY <2>2, <2>3
<1> QED BY <1>0, <1>5, <1>7

\* The blocks of a chain: the first is the newest, and with a block comes the one before.
LEMMA ChainFacts ==
  ASSUME NEW chained, Older(chained), NEW p \in 0 .. Len(chained)
  PROVE  /\ Chain(chained, p) \subseteq 1 .. p /\ Chain(chained, p) \subseteq DOMAIN chained
         /\ p # NULLPOINTER => p \in Chain(chained, p)
         /\ \A q \in Chain(chained, p) : chained[q].prev \in Chain(chained, p) \cup {NULLPOINTER}
PROOF
<1> DEFINE Good(n) == /\ Chain(chained, n) \subseteq 1 .. n
                      /\ \A q \in Chain(chained, n) : chained[q].prev \in Chain(chained, n) \cup {0}
           F == {n \in 0 .. Len(chained) : ~Good(n)}
<1>0. Len(chained) \in Nat /\ DOMAIN chained = 1 .. Len(chained) /\ \A m \in 1 .. Len(chained) : chained[m].prev \in 0 .. m - 1
  BY DEF Older
<1>1. F = {}
  <2> SUFFICES ASSUME F # {} PROVE FALSE
    OBVIOUS
  <2>1. PICK n \in F : \A m \in F : n <= m
    <3>1. F \subseteq Nat
      OBVIOUS
    <3> HIDE DEF F
    <3> QED BY <3>1, Least
  <2>2. n \in 0 .. Len(chained) /\ ~Good(n)
    OBVIOUS
  <2>3. n # 0
    BY <2>2, ChainRec
  <2> DEFINE o == chained[n].prev
  <2>4. o \in 0 .. Len(chained) /\ o < n /\ ~(n <= o) /\ n \in 1 .. Len(chained) /\ o \in Nat
    BY <1>0, <2>2, <2>3
  <2>5. Good(o)
    <3>1. o \notin F
      <4> HIDE DEF F, o
      <4> QED BY <2>1, <2>4
    <3> HIDE DEF Good, o
    <3> QED BY <2>4, <3>1
  <2>6. Chain(chained, n) = {n} \cup Chain(chained, o)
    BY <1>0, <2>4, ChainRec
  <2>7. o # 0 => o \in Chain(chained, o)
    BY <1>0, <2>4, ChainRec
  <2>8. Good(n)
    <3> HIDE DEF o
    <3>1. chained[n].prev = o
      BY DEF o
    <3>2. Chain(chained, n) \subseteq 1 .. n
      BY <2>4, <2>5, <2>6
    <3>3. \A q \in Chain(chained, n) : chained[q].prev \in Chain(chained, n) \cup {0}
      BY <2>5, <2>6, <2>7, <3>1
    <3> QED BY <3>2, <3>3
  <2> QED BY <2>2, <2>8
<1>2. Good(p)
  <2> HIDE DEF Good
  <2> QED BY <1>1
<1>3. p # 0 => p \in Chain(chained, p)
  BY <1>0, ChainRec
<1>4. 1 .. p \subseteq 1 .. Len(chained)
  BY <1>0
<1> QED BY <1>0, <1>2, <1>3, <1>4

\* Whatever has the first block and the block before each of its own has the chain.
LEMMA ChainLeast ==
  ASSUME NEW chained, Older(chained), NEW p \in 0 .. Len(chained), NEW S,
         p \in S \cup {NULLPOINTER},
         \A q \in S : q \in DOMAIN chained => chained[q].prev \in S \cup {NULLPOINTER}
  PROVE  Chain(chained, p) \subseteq S
PROOF
<1> DEFINE F == {n \in 0 .. Len(chained) : n \in S \cup {0} /\ ~(Chain(chained, n) \subseteq S)}
<1>0. Len(chained) \in Nat /\ DOMAIN chained = 1 .. Len(chained) /\ \A m \in 1 .. Len(chained) : chained[m].prev \in 0 .. m - 1
  BY DEF Older
<1> SUFFICES ASSUME F # {} PROVE FALSE
  OBVIOUS
<1>1. PICK n \in F : \A m \in F : n <= m
  <2>1. F \subseteq Nat
    OBVIOUS
  <2> HIDE DEF F
  <2> QED BY <2>1, Least
<1>2. n \in 0 .. Len(chained) /\ n \in S \cup {0} /\ ~(Chain(chained, n) \subseteq S)
  OBVIOUS
<1>3. n # 0
  BY <1>2, ChainRec
<1> DEFINE o == chained[n].prev
<1>4. o \in 0 .. Len(chained) /\ ~(n <= o) /\ n \in 1 .. Len(chained) /\ n \in S
  BY <1>0, <1>2, <1>3
<1>5. o \in S \cup {0}
  BY <1>0, <1>4
<1>6. Chain(chained, o) \subseteq S
  <2>1. o \notin F
    <3> HIDE DEF F, o
    <3> QED BY <1>1, <1>4
  <2> HIDE DEF o
  <2> QED BY <1>4, <1>5, <2>1
<1>7. Chain(chained, n) = {n} \cup Chain(chained, o)
  BY <1>0, <1>4, ChainRec
<1> QED BY <1>2, <1>4, <1>6, <1>7

\* The newest of some blocks.
LEMMA NewestOf ==
  ASSUME NEW n \in Nat, NEW S, S \subseteq 1 .. n
  PROVE  /\ S = {} => Newest(S) = NULLPOINTER
         /\ S # {} => Newest(S) \in S
         /\ \A q \in S : q <= Newest(S)
         /\ Newest(S) \in 0 .. n
PROOF
<1>1. CASE S = {}
  BY <1>1 DEF Newest
<1>2. CASE S # {}
  <2> DEFINE T == {n - x : x \in S}
             Top(p) == \A q \in S : q <= p
  <2>1. T \subseteq Nat /\ \E m \in T : TRUE
    <3>1. T \subseteq Nat
      OBVIOUS
    <3>2. PICK q \in S : TRUE
      BY <1>2
    <3>3. n - q \in T
      BY <3>2
    <3> QED BY <3>1, <3>3
  <2>2. PICK m \in T : \A k \in T : m <= k
    <3> HIDE DEF T
    <3> QED BY <2>1, Least
  <2>3. PICK y \in S : m = n - y
    OBVIOUS
  <2>4. ASSUME NEW q \in S PROVE q <= y
    <3>1. n - q \in T
      OBVIOUS
    <3> HIDE DEF T
    <3>2. n - y <= n - q
      BY <2>2, <2>3, <3>1
    <3> QED BY <3>2
  <2>5. Top(y)
    BY <2>4
  <2>6. Newest(S) = CHOOSE p \in S : Top(p)
    BY <1>2 DEF Newest
  <2> HIDE DEF Top
  <2>7. Newest(S) \in S /\ Top(Newest(S))
    BY <2>5, <2>6
  <2>8. PICK x \in S : x = Newest(S)
    BY <2>7
  <2>9. \A q \in S : q <= x
    BY <2>7, <2>8 DEF Top
  <2>10. x \in 0 .. n
    OBVIOUS
  <2> QED BY <1>2, <2>8, <2>9, <2>10
<1> QED BY <1>1, <1>2

\* A chain whose links stay, or are cut, is the same chain, or has fewer blocks.
LEMMA ChainShrinks ==
  ASSUME NEW chained, Older(chained), NEW chained2, Older(chained2),
         NEW p \in 0 .. Len(chained), p \in 0 .. Len(chained2),
         \A q \in Chain(chained, p) : q \in DOMAIN chained2 => chained2[q].prev \in {chained[q].prev, NULLPOINTER}
  PROVE  Chain(chained2, p) \subseteq Chain(chained, p)
PROOF
<1>1. p \in Chain(chained, p) \cup {0}
  BY ChainFacts
<1>2. \A q \in Chain(chained, p) : chained[q].prev \in Chain(chained, p) \cup {0}
  BY ChainFacts
<1>3. \A q \in Chain(chained, p) : q \in DOMAIN chained2 => chained2[q].prev \in Chain(chained, p) \cup {0}
  BY <1>2
<1> QED BY <1>1, <1>3, ChainLeast

LEMMA ChainSame ==
  ASSUME NEW chained, Older(chained), NEW chained2, Older(chained2),
         NEW p \in 0 .. Len(chained), p \in 0 .. Len(chained2),
         \A q \in Chain(chained, p) : q \in DOMAIN chained2 => chained2[q].prev = chained[q].prev
  PROVE  Chain(chained2, p) = Chain(chained, p)
PROOF
<1>1. Chain(chained2, p) \subseteq Chain(chained, p)
  BY ChainShrinks
<1>2. Chain(chained2, p) \subseteq DOMAIN chained2
  BY ChainFacts
<1>3. \A q \in Chain(chained2, p) : q \in DOMAIN chained => chained[q].prev \in {chained2[q].prev, NULLPOINTER}
  BY <1>1, <1>2
<1>4. Chain(chained, p) \subseteq Chain(chained2, p)
  BY <1>3, ChainShrinks
<1> QED BY <1>1, <1>4

\* The chain of a block in a chain is what comes from there on.
LEMMA ChainWithin ==
  ASSUME NEW chained, Older(chained), NEW p \in 0 .. Len(chained), NEW q \in Chain(chained, p)
  PROVE  /\ Chain(chained, q) \subseteq Chain(chained, p)
         /\ Chain(chained, chained[q].prev) \subseteq Chain(chained, p)
         /\ \A o \in Chain(chained, p) : q < o => chained[o].prev >= q
PROOF
<1>0. /\ Len(chained) \in Nat /\ DOMAIN chained = 1 .. Len(chained)
      /\ \A m \in 1 .. Len(chained) : chained[m].prev \in 0 .. m - 1
  BY DEF Older
<1>1. Chain(chained, p) \subseteq 1 .. p /\ Chain(chained, p) \subseteq DOMAIN chained
  BY ChainFacts
<1>2. \A x \in Chain(chained, p) : chained[x].prev \in Chain(chained, p) \cup {0}
  BY ChainFacts
<1>3. q \in 1 .. Len(chained) /\ q \in 0 .. Len(chained) /\ chained[q].prev \in 0 .. Len(chained)
  BY <1>0, <1>1
<1>4. Chain(chained, q) \subseteq Chain(chained, p)
  BY <1>2, <1>3, ChainLeast
<1>5. Chain(chained, q) = {q} \cup Chain(chained, chained[q].prev)
  BY <1>0, <1>3, ChainRec
<1> DEFINE S == {o \in Chain(chained, p) : q <= o => q \in Chain(chained, o)}
<1>6. p \in S
  <2>1. p # 0
    BY <1>1
  <2>2. p \in Chain(chained, p)
    BY <2>1, ChainFacts
  <2> QED BY <2>2
<1>7. ASSUME NEW o \in S PROVE chained[o].prev \in S \cup {0} /\ (q < o => chained[o].prev >= q)
  <2>1. o \in 1 .. Len(chained) /\ o \in Chain(chained, p) /\ chained[o].prev \in 0 .. Len(chained)
        /\ chained[o].prev < o
    BY <1>0, <1>1
  <2>2. Chain(chained, o) = {o} \cup Chain(chained, chained[o].prev)
    BY <1>0, <2>1, ChainRec
  <2>3. chained[o].prev \in Chain(chained, p) \cup {0}
    BY <1>2, <2>1
  <2>4. q < o => q \in Chain(chained, chained[o].prev)
    BY <2>1, <2>2, <1>3
  <2>5. Chain(chained, chained[o].prev) \subseteq 1 .. chained[o].prev
    BY <2>1, ChainFacts
  <2>6. q < o => q <= chained[o].prev
    BY <2>1, <2>4, <2>5
  <2>7. chained[o].prev # 0 => chained[o].prev \in S
    BY <2>1, <2>3, <2>4, <1>3
  <2> QED BY <2>1, <2>6, <2>7, <1>3
<1> HIDE DEF S
<1>8. Chain(chained, p) \subseteq S
  BY <1>6, <1>7, ChainLeast
<1> QED BY <1>4, <1>5, <1>7, <1>8

\* What is left of a chain when it is cut under its newest block from before the bound.
LEMMA CutChain ==
  ASSUME NEW chained, Older(chained), NEW chained2, Older(chained2), NEW p \in 0 .. Len(chained),
         Len(chained) <= Len(chained2), NEW bound,
         \A q \in DOMAIN chained :
           chained2[q].prev = IF q = Cut(chained, p, bound) THEN NULLPOINTER ELSE chained[q].prev
  PROVE  /\ Cut(chained, p, bound) \in Chain(chained, p) \cup {NULLPOINTER}
         /\ Cut(chained, p, bound) # NULLPOINTER => Before(chained[Cut(chained, p, bound)].creation, bound)
         /\ Chain(chained2, p) \subseteq Chain(chained, p)
         /\ Chain(chained2, p) \cap Garbage(chained, p, bound) = {}
         /\ Garbage(chained, p, bound) \subseteq Chain(chained, p)
         /\ \A q \in Chain(chained, p) : Cut(chained, p, bound) <= q => q \in Chain(chained2, p)
         /\ \A r \in 0 .. Len(chained) : Chain(chained, r) \cap Chain(chained, p) = {} =>
              Chain(chained2, r) = Chain(chained, r)
PROOF
<1> DEFINE cut == Cut(chained, p, bound)
           S == {q \in Chain(chained, p) : Before(chained[q].creation, bound)}
<1>0. /\ Len(chained) \in Nat /\ DOMAIN chained = 1 .. Len(chained) /\ Len(chained2) \in Nat
      /\ \A m \in 1 .. Len(chained) : chained[m].prev \in 0 .. m - 1
  BY DEF Older
<1>1. Chain(chained, p) \subseteq 1 .. p /\ Chain(chained, p) \subseteq DOMAIN chained
  BY ChainFacts
<1>2. cut = Newest(S)
  BY DEF Cut
<1>3. S \subseteq 1 .. p /\ p \in Nat
  BY <1>0, <1>1
<1>4. (S = {} => cut = 0) /\ (S # {} => cut \in S)
  <2> HIDE DEF S, cut
  <2> QED BY <1>2, <1>3, NewestOf
<1>5. cut \in Chain(chained, p) \cup {0} /\ (cut # 0 => cut \in Chain(chained, p) /\ Before(chained[cut].creation, bound))
  <2> HIDE DEF cut
  <2> QED BY <1>4
<1> HIDE DEF S
<1>6. p \in 0 .. Len(chained2)
  BY <1>0
<1>7. \A q \in Chain(chained, p) : chained2[q].prev \in {chained[q].prev, 0}
  BY <1>1
<1>8. Chain(chained2, p) \subseteq Chain(chained, p)
  BY <1>6, <1>7, ChainShrinks
<1>9. ASSUME NEW r \in 0 .. Len(chained), Chain(chained, r) \cap Chain(chained, p) = {}
      PROVE  Chain(chained2, r) = Chain(chained, r)
  <2>1. Chain(chained, r) \subseteq DOMAIN chained
    BY ChainFacts
  <2>2. \A q \in Chain(chained, r) : q # cut
    <3> HIDE DEF cut
    <3> QED BY <1>0, <1>5, <1>9, <2>1
  <2>3. \A q \in Chain(chained, r) : chained2[q].prev = chained[q].prev
    BY <2>1, <2>2
  <2>4. r \in 0 .. Len(chained2)
    BY <1>0
  <2> QED BY <2>3, <2>4, ChainSame
<1>10. CASE cut = 0
  <2>1. Garbage(chained, p, bound) = {}
    BY <1>10 DEF Garbage
  <2>2. \A q \in Chain(chained, p) : chained2[q].prev = chained[q].prev
    BY <1>0, <1>1, <1>10
  <2>3. Chain(chained2, p) = Chain(chained, p)
    BY <1>6, <2>2, ChainSame
  <2> QED BY <1>5, <1>8, <1>9, <2>1, <2>3
<1>11. CASE cut # 0
  <2>1. cut \in Chain(chained, p) /\ cut \in 1 .. Len(chained)
    BY <1>0, <1>1, <1>5, <1>11
  <2>2. Garbage(chained, p, bound) = Chain(chained, chained[cut].prev)
    BY <1>11 DEF Garbage
  <2> DEFINE G == Chain(chained, chained[cut].prev)
  <2> HIDE DEF cut
  <2>21. chained[cut].prev \in 0 .. Len(chained) /\ chained[cut].prev < cut
    BY <1>0, <2>1
  <2>3. G \subseteq Chain(chained, p) /\ G \subseteq 1 .. chained[cut].prev
    BY <2>1, <2>21, ChainWithin, ChainFacts
  <2>4. \A o \in Chain(chained, p) : cut < o => chained[o].prev >= cut
    BY <2>1, ChainWithin
  <2> DEFINE U == {o \in Chain(chained, p) : cut <= o}
             W == Chain(chained2, p) \cup {o \in 1 .. Len(chained) : o < cut}
  <2>5. \A q \in DOMAIN chained : chained2[q].prev = IF q = cut THEN 0 ELSE chained[q].prev
    BY DEF cut
  <2>6. \A q \in Chain(chained, p) : chained[q].prev \in Chain(chained, p) \cup {0}
    BY ChainFacts
  <2>7. p \in U
    <3>1. p # 0
      BY <1>1, <2>1
    <3>2. p \in Chain(chained, p) /\ cut <= p
      BY <3>1, <1>1, <2>1, ChainFacts
    <3> QED BY <3>2
  <2>8. ASSUME NEW q \in U PROVE chained2[q].prev \in U \cup {0}
    <3>1. q \in Chain(chained, p) /\ q \in DOMAIN chained /\ cut <= q /\ q \in 1 .. Len(chained)
      BY <1>0, <1>1
    <3>2. CASE q = cut
      BY <2>5, <3>1, <3>2
    <3>3. CASE q # cut
      <4>1. chained2[q].prev = chained[q].prev /\ chained[q].prev >= cut
        BY <2>1, <2>4, <2>5, <3>1, <3>3
      <4> QED BY <2>6, <3>1, <4>1
    <3> QED BY <3>2, <3>3
  <2> HIDE DEF U
  <2>9. Chain(chained2, p) \subseteq U
    BY <1>6, <2>7, <2>8, ChainLeast
  <2>10. Chain(chained2, p) \cap G = {}
    <3>1. \A x \in G : x < cut
      BY <1>0, <2>1, <2>3
    <3>2. \A x \in U : ~(x < cut)
      BY <1>0, <1>1, <2>1 DEF U
    <3> HIDE DEF G
    <3> QED BY <2>9, <3>1, <3>2
  <2>11. p \in W
    <3>1. p # 0
      BY <1>1, <2>1
    <3> QED BY <1>6, <3>1, ChainFacts
  <2>12. ASSUME NEW q \in W, q \in DOMAIN chained PROVE chained[q].prev \in W \cup {0}
    <3>1. chained[q].prev \in 0 .. q - 1 /\ q \in 1 .. Len(chained)
      BY <1>0, <2>12
    <3>2. CASE q <= cut
      BY <1>0, <2>1, <3>1, <3>2
    <3>3. CASE ~(q <= cut)
      <4>1. q \in Chain(chained2, p) /\ q # cut
        BY <2>1, <3>1, <3>3
      <4>2. chained2[q].prev = chained[q].prev
        BY <2>5, <2>12, <4>1
      <4>3. chained2[q].prev \in Chain(chained2, p) \cup {0}
        BY <1>6, <4>1, ChainFacts
      <4> QED BY <4>2, <4>3
    <3> QED BY <3>2, <3>3
  <2>13. Chain(chained, p) \subseteq W
    <3> HIDE DEF W
    <3> QED BY <2>11, <2>12, ChainLeast
  <2>14. \A q \in Chain(chained, p) : cut <= q => q \in Chain(chained2, p)
    BY <1>0, <1>1, <2>1, <2>13
  <2> HIDE DEF G, W
  <2>15. Garbage(chained, p, bound) = G
    BY <2>2 DEF G, cut
  <2> QED BY <1>5, <1>8, <1>9, <2>3, <2>10, <2>14, <2>15, <1>11 DEF cut
<1> QED BY <1>10, <1>11

-----------------------------------------------------------------------------
(* Sequences and blocks *)

\* A sequence is a function, and stays one when a member is replaced or one is added.
LEMMA SeqIn ==
  ASSUME NEW T, NEW n \in Nat, NEW s \in [1 .. n -> T]
  PROVE  s \in Seq(T) /\ Len(s) = n /\ DOMAIN s = 1 .. n
PROOF
<1>1. s \in Seq(T)
  BY SeqDef
<1> QED BY <1>1

LEMMA SeqOut ==
  ASSUME NEW T, NEW s \in Seq(T)
  PROVE  s \in [1 .. Len(s) -> T] /\ Len(s) \in Nat /\ DOMAIN s = 1 .. Len(s)
OBVIOUS

LEMMA SeqPut ==
  ASSUME NEW T, NEW s \in Seq(T), NEW i \in DOMAIN s, NEW x \in T
  PROVE  /\ [s EXCEPT ![i] = x] \in Seq(T) /\ Len([s EXCEPT ![i] = x]) = Len(s)
         /\ DOMAIN [s EXCEPT ![i] = x] = DOMAIN s
         /\ [s EXCEPT ![i] = x][i] = x
         /\ \A j \in DOMAIN s : j # i => [s EXCEPT ![i] = x][j] = s[j]
PROOF
<1>1. s \in [1 .. Len(s) -> T] /\ Len(s) \in Nat
  BY SeqOut
<1>2. [s EXCEPT ![i] = x] \in [1 .. Len(s) -> T]
  BY <1>1
<1> QED BY <1>1, <1>2, SeqIn

LEMMA SeqAdd ==
  ASSUME NEW T, NEW s \in Seq(T), NEW x \in T
  PROVE  /\ Append(s, x) \in Seq(T) /\ Len(Append(s, x)) = Len(s) + 1
         /\ DOMAIN Append(s, x) = 1 .. Len(s) + 1 /\ DOMAIN s = 1 .. Len(s) /\ Len(s) \in Nat
         /\ Append(s, x)[Len(s) + 1] = x
         /\ \A j \in DOMAIN s : j \in DOMAIN Append(s, x) /\ Append(s, x)[j] = s[j]
OBVIOUS

\* The members of sequences put together.
LEMMA MembersCat ==
  ASSUME NEW T, NEW s \in Seq(T), NEW u \in Seq(T)
  PROVE  Members(s \o u) = Members(s) \cup Members(u)
PROOF
<1>2. /\ s \o u \in Seq(T) /\ Len(s \o u) = Len(s) + Len(u) /\ DOMAIN s = 1 .. Len(s) /\ DOMAIN u = 1 .. Len(u)
      /\ DOMAIN (s \o u) = 1 .. Len(s) + Len(u) /\ Len(s) \in Nat /\ Len(u) \in Nat
      /\ \A i \in 1 .. Len(s) + Len(u) : (s \o u)[i] = IF i <= Len(s) THEN s[i] ELSE u[i - Len(s)]
  OBVIOUS
<1>3. Members(s \o u) \subseteq Members(s) \cup Members(u)
  <2>1. ASSUME NEW i \in DOMAIN (s \o u) PROVE (s \o u)[i] \in Members(s) \cup Members(u)
    <3>1. CASE i <= Len(s)
      BY <1>2, <3>1 DEF Members
    <3>2. CASE ~(i <= Len(s))
      <4>1. i - Len(s) \in DOMAIN u /\ (s \o u)[i] = u[i - Len(s)]
        BY <1>2, <3>2
      <4> QED BY <4>1 DEF Members
    <3> QED BY <3>1, <3>2
  <2> QED BY <2>1 DEF Members
<1>4. Members(s) \cup Members(u) \subseteq Members(s \o u)
  <2>1. ASSUME NEW i \in DOMAIN s PROVE s[i] \in Members(s \o u)
    <3>1. i \in DOMAIN (s \o u) /\ (s \o u)[i] = s[i]
      BY <1>2
    <3> QED BY <3>1 DEF Members
  <2>2. ASSUME NEW i \in DOMAIN u PROVE u[i] \in Members(s \o u)
    <3>1. i + Len(s) \in DOMAIN (s \o u) /\ ~(i + Len(s) <= Len(s)) /\ i + Len(s) - Len(s) = i
      BY <1>2
    <3>2. (s \o u)[i + Len(s)] = u[i]
      BY <1>2, <3>1
    <3> QED BY <3>1, <3>2 DEF Members
  <2> QED BY <2>1, <2>2 DEF Members
<1> QED BY <1>3, <1>4

LEMMA MembersAdd ==
  ASSUME NEW T, NEW s \in Seq(T), NEW x \in T
  PROVE  Members(Append(s, x)) = Members(s) \cup {x}
PROOF
<1>2. DOMAIN s = 1 .. Len(s) /\ Len(s) \in Nat
  OBVIOUS
<1>5. /\ Append(s, x) \in Seq(T) /\ DOMAIN Append(s, x) = 1 .. Len(s) + 1
      /\ Append(s, x)[Len(s) + 1] = x /\ \A i \in 1 .. Len(s) : Append(s, x)[i] = s[i]
  OBVIOUS
<1>6. Members(Append(s, x)) = Members(s) \cup {x}
  <2>1. ASSUME NEW i \in 1 .. Len(s) + 1 PROVE Append(s, x)[i] \in Members(s) \cup {x}
    <3>1. CASE i = Len(s) + 1
      BY <1>5, <3>1
    <3>2. CASE i # Len(s) + 1
      <4>1. i \in 1 .. Len(s)
        BY <1>2, <3>2
      <4> QED BY <1>2, <1>5, <4>1 DEF Members
    <3> QED BY <3>1, <3>2
  <2>2. ASSUME NEW i \in 1 .. Len(s) PROVE s[i] \in Members(Append(s, x))
    <3>1. i \in 1 .. Len(s) + 1 /\ Append(s, x)[i] = s[i]
      BY <1>2, <1>5
    <3> QED BY <1>5, <3>1 DEF Members
  <2>3. x \in Members(Append(s, x))
    <3>1. Len(s) + 1 \in 1 .. Len(s) + 1
      BY <1>2
    <3> QED BY <1>5, <3>1 DEF Members
  <2> QED BY <1>2, <1>5, <2>1, <2>2, <2>3 DEF Members
<1> QED BY <1>6

LEMMA MembersFew ==
  /\ Members(<<>>) = {}
  /\ \A x : Members(<<x>>) = {x}
BY DEF Members

\* Without its first member a sequence has all the others.
LEMMA TailOf ==
  ASSUME NEW T, NEW s \in Seq(T), s # <<>>
  PROVE  /\ Head(s) \in T /\ Tail(s) \in Seq(T) /\ Head(s) \in Members(s)
         /\ Members(s) = {Head(s)} \cup Members(Tail(s))
PROOF
<1>1. /\ Len(s) \in Nat \ {0} /\ DOMAIN s = 1 .. Len(s) /\ Head(s) = s[1]
      /\ Tail(s) \in Seq(T) /\ DOMAIN Tail(s) = 1 .. Len(s) - 1 /\ \A i \in 1 .. Len(s) - 1 : Tail(s)[i] = s[i + 1]
  OBVIOUS
<1>2. ASSUME NEW i \in DOMAIN s PROVE s[i] \in {Head(s)} \cup Members(Tail(s))
  <2>1. CASE i = 1
    BY <1>1, <2>1
  <2>2. CASE i # 1
    <3>1. i - 1 \in 1 .. Len(s) - 1 /\ Tail(s)[i - 1] = s[i]
      BY <1>1, <2>2
    <3> QED BY <1>1, <3>1 DEF Members
  <2> QED BY <2>1, <2>2
<1>3. ASSUME NEW i \in DOMAIN Tail(s) PROVE Tail(s)[i] \in Members(s)
  <2>1. i + 1 \in DOMAIN s /\ Tail(s)[i] = s[i + 1]
    BY <1>1
  <2> QED BY <2>1 DEF Members
<1>4. Head(s) \in Members(s) /\ Head(s) \in T
  BY <1>1 DEF Members
<1> QED BY <1>1, <1>2, <1>3, <1>4 DEF Members

-----------------------------------------------------------------------------
(* What the operations compute *)

\* find_edge gives a place among the entries it looks at.
LEMMA FindEdgeType ==
  ASSUME NEW entries, NEW n \in Nat, NEW d, NEW t
  PROVE  FindEdge(entries, n, d, t) \in 0 .. n
PROOF
<1> DEFINE S == {i \in 1 .. n : entries[i].dst = d /\ Live(entries[i], t)}
<1>1. FindEdge(entries, n, d, t) = Newest(S)
  BY DEF FindEdge, Newest
<1>2. S \subseteq 1 .. n
  OBVIOUS
<1> HIDE DEF S
<1> QED BY <1>1, <1>2, NewestOf

\* Orders are numbers, and a new block's is large enough for its entries and its filter.
LEMMA BlockOrderFits ==
  ASSUME NEW n \in Nat
  PROVE  /\ BlockOrder(n) \in Nat
         /\ 48 + n * EntrySize + Filter(BlockOrder(n)) <= Bytes[BlockOrder(n)]
PROOF
<1> DEFINE size == 48 + n * EntrySize
           s == SizeToOrder(size)
           filter == Bytes[s - 4]
           total == IF size + filter >= Bytes[10] THEN size + filter ELSE size
           o == SizeToOrder(total)
<1>0. EntrySize \in Nat
  BY EdgesAssumption
<1>1. n * EntrySize \in Nat
  BY <1>0
<1>2. size \in Nat /\ size >= 48
  BY <1>1
<1>3. /\ Bytes[0] = 1 /\ Bytes[1] = 2 /\ Bytes[2] = 4 /\ Bytes[3] = 8 /\ Bytes[4] = 16 /\ Bytes[5] = 32
      /\ Bytes[6] = 64 /\ Bytes[7] = 128 /\ Bytes[8] = 256 /\ Bytes[9] = 512 /\ Bytes[10] = 1024
  <2>1. Bytes[0] = 1 /\ Bytes[1] = 2 * Bytes[0] /\ Bytes[2] = 2 * Bytes[1] /\ Bytes[3] = 2 * Bytes[2]
    BY BytesRec
  <2>2. Bytes[4] = 2 * Bytes[3] /\ Bytes[5] = 2 * Bytes[4] /\ Bytes[6] = 2 * Bytes[5]
    BY BytesRec
  <2>3. Bytes[7] = 2 * Bytes[6] /\ Bytes[8] = 2 * Bytes[7] /\ Bytes[9] = 2 * Bytes[8] /\ Bytes[10] = 2 * Bytes[9]
    BY BytesRec
  <2> QED BY <2>1, <2>2, <2>3
<1>4. s \in Nat /\ Bytes[s] >= size /\ (s > 0 => Bytes[s - 1] < size)
  BY <1>2, SizeToOrderFits
<1> HIDE DEF size, s
<1>5. s >= 6
  <2> SUFFICES ASSUME s <= 5 PROVE FALSE
    BY <1>4
  <2>1. Bytes[s] <= Bytes[5]
    BY <1>4, BytesOrder
  <2> QED BY <1>2, <1>3, <1>4, <2>1, BytesType
<1>6. s - 4 \in Nat /\ s - 3 \in Nat /\ s - 2 \in Nat /\ s - 1 \in Nat /\ s + 1 \in Nat
  BY <1>4, <1>5
<1>7. /\ Bytes[s - 3] = 2 * Bytes[s - 4] /\ Bytes[s - 2] = 2 * Bytes[s - 3] /\ Bytes[s - 1] = 2 * Bytes[s - 2]
      /\ Bytes[s] = 2 * Bytes[s - 1] /\ Bytes[s + 1] = 2 * Bytes[s]
  <2>1. s - 3 # 0 /\ s - 2 # 0 /\ s - 1 # 0 /\ s # 0 /\ s + 1 # 0 /\ s - 3 - 1 = s - 4 /\ s - 2 - 1 = s - 3
        /\ s - 1 - 1 = s - 2 /\ s + 1 - 1 = s
    BY <1>4, <1>5
  <2> QED BY <1>4, <1>6, <2>1, BytesRec
<1>8. filter \in Nat
  BY <1>6, BytesType
<1> HIDE DEF filter
<1>9. total \in Nat /\ total >= size /\ (total = size + filter \/ (total = size /\ size + filter < 1024))
  BY <1>2, <1>3, <1>8
<1> HIDE DEF total
<1>10. o \in Nat /\ Bytes[o] >= total /\ (o > 0 => Bytes[o - 1] < total)
  BY <1>9, SizeToOrderFits
<1> HIDE DEF o
<1>11. filter = Bytes[s - 4]
  BY DEF filter
<1>12. Bytes[s] \in Nat /\ Bytes[o] \in Nat /\ Bytes[s - 4] \in Nat /\ Bytes[s + 1] \in Nat
  BY <1>4, <1>6, <1>10, BytesType
<1>13. o <= s + 1
  <2> SUFFICES ASSUME o > s + 1 PROVE FALSE
    BY <1>4, <1>10
  <2>1. o - 1 \in Nat /\ s + 1 <= o - 1
    BY <1>4, <1>10
  <2>2. Bytes[s + 1] <= Bytes[o - 1] /\ Bytes[o - 1] < total /\ Bytes[o - 1] \in Nat
    BY <1>6, <1>10, <2>1, BytesOrder, BytesType
  <2>3. total <= size + filter
    BY <1>2, <1>8, <1>9
  <2>4. size <= Bytes[s] /\ filter <= Bytes[s] /\ Bytes[s + 1] = 2 * Bytes[s]
    BY <1>4, <1>7, <1>11, <1>12
  <2> QED BY <1>2, <1>8, <1>9, <1>12, <2>2, <2>3, <2>4
<1>14. o >= s
  <2> SUFFICES ASSUME o < s PROVE FALSE
    BY <1>4, <1>10
  <2>1. o <= s - 1
    BY <1>4, <1>10
  <2>2. Bytes[o] <= Bytes[s - 1] /\ Bytes[s - 1] < size /\ Bytes[s - 1] \in Nat
    BY <1>4, <1>5, <1>6, <1>10, <2>1, BytesOrder, BytesType
  <2> QED BY <1>2, <1>9, <1>10, <1>12, <2>2
<1>15. size + Filter(o) <= Bytes[o]
  <2>1. CASE o < 10
    <3>1. Filter(o) = 0
      BY <2>1 DEF Filter
    <3> QED BY <1>2, <1>9, <1>10, <1>12, <3>1
  <2>2. CASE ~(o < 10)
    <3>1. Filter(o) = Bytes[o - 4]
      BY <2>2 DEF Filter
    <3>2. CASE o = s
      <4>1. CASE total = size + filter
        BY <1>10, <1>11, <3>1, <3>2, <4>1
      <4>2. CASE total = size /\ size + filter < 1024
        <5>1. Bytes[10] <= Bytes[o]
          BY <1>10, <2>2, BytesOrder
        <5> QED BY <1>2, <1>3, <1>8, <1>11, <1>12, <3>1, <3>2, <4>2, <5>1
      <4> QED BY <1>9, <4>1, <4>2
    <3>3. CASE o = s + 1
      <4>1. Filter(o) = Bytes[s - 3]
        <5>1. o - 4 = s - 3
          BY <1>4, <3>3
        <5> QED BY <3>1, <5>1
      <4>2. size <= Bytes[s] /\ Bytes[s - 3] <= Bytes[s] /\ Bytes[o] = 2 * Bytes[s]
        BY <1>4, <1>7, <1>12, <3>3
      <4> QED BY <1>2, <1>12, <4>1, <4>2, <1>7
    <3> QED BY <1>4, <1>10, <1>13, <1>14, <3>2, <3>3
  <2> QED BY <2>1, <2>2
<1>16. BlockOrder(n) = o
  BY DEF BlockOrder, o, total, filter, s, size
<1> QED BY <1>10, <1>15, <1>16 DEF size

LEMMA LabelOrderFits ==
  ASSUME NEW n \in Nat
  PROVE  LabelOrder(n) \in Nat /\ 32 + n * 16 <= Bytes[LabelOrder(n)]
PROOF
<1>1. 32 + 16 * n \in Nat /\ 32 + n * 16 = 32 + 16 * n
  OBVIOUS
<1>2. LabelOrder(n) \in Nat /\ Bytes[LabelOrder(n)] >= 32 + 16 * n /\ Bytes[LabelOrder(n)] \in Nat
  BY <1>1, SizeToOrderFits, BytesType DEF LabelOrder
<1> QED BY <1>1, <1>2

\* The newest block of a label is one of the blocks, and every label has the block its entry points to.
LEMMA PointedType ==
  ASSUME Types, LabelsInv, NEW lb \in 0 .. Len(labels), NEW l
  PROVE  /\ Pointed(lb, l) \in 0 .. Len(blocks)
         /\ lb # NULLPOINTER => \A i \in DOMAIN labels[lb].entries :
              labels[lb].entries[i].label = l => Pointed(lb, l) = labels[lb].entries[i].ptr
         /\ LabelAt(lb, l) = {} <=> Pointed(lb, l) = NULLPOINTER
         /\ LabelAt(lb, l) # {} => (CHOOSE i \in LabelAt(lb, l) : TRUE) \in LabelAt(lb, l)
PROOF
<1>0. Len(blocks) \in Nat /\ DOMAIN blocks = 1 .. Len(blocks) /\ DOMAIN labels = 1 .. Len(labels) /\ Len(labels) \in Nat
  BY DEF Types
<1>1. CASE lb = 0
  BY <1>0, <1>1 DEF Pointed, LabelAt
<1>2. CASE lb # 0
  <2>1. lb \in DOMAIN labels
    BY <1>0, <1>2
  <2> DEFINE e == labels[lb].entries
             S == {i \in DOMAIN labels[lb].entries : labels[lb].entries[i].label = l}
  <2>2. \A i \in DOMAIN e : e[i].ptr \in 1 .. Len(blocks) /\ \A j \in DOMAIN e : e[i].label = e[j].label => i = j
    BY <1>0, <2>1 DEF LabelsInv
  <2>3. Pointed(lb, l) = IF S = {} THEN 0 ELSE e[CHOOSE i \in S : TRUE].ptr
    BY <1>2 DEF Pointed
  <2>4. LabelAt(lb, l) = S
    BY <1>2 DEF LabelAt
  <2>5. CASE S = {}
    BY <1>0, <2>3, <2>4, <2>5
  <2>6. CASE S # {}
    <3>1. PICK k : k = CHOOSE i \in S : TRUE
      OBVIOUS
    <3>2. k \in S
      BY <2>6, <3>1
    <3>3. Pointed(lb, l) = e[k].ptr
      BY <2>3, <2>6, <3>1
    <3>4. \A i \in S : i = k
      BY <2>2, <3>2
    <3>5. e[k].ptr \in 1 .. Len(blocks)
      BY <2>2, <3>2
    <3>6. Pointed(lb, l) \in 0 .. Len(blocks) /\ Pointed(lb, l) # 0
      BY <1>0, <3>3, <3>5
    <3>7. ASSUME NEW i \in DOMAIN labels[lb].entries, labels[lb].entries[i].label = l
          PROVE  Pointed(lb, l) = labels[lb].entries[i].ptr
      BY <3>3, <3>4, <3>7
    <3>8. LabelAt(lb, l) # {} /\ (CHOOSE i \in LabelAt(lb, l) : TRUE) \in LabelAt(lb, l)
      BY <2>4, <2>6, <3>1, <3>2
    <3> HIDE DEF S, e
    <3> QED BY <3>6, <3>7, <3>8
  <2> QED BY <2>5, <2>6
<1> QED BY <1>1, <1>2

\* locate_edge_block finds a block of the chain, and the newest of all if the transaction sees it.
LEMMA LocateFacts ==
  ASSUME Types, OlderInv, LabelsInv, NEW l, NEW t
  PROVE  /\ HeadOf(l) \in 0 .. Len(blocks) /\ Locate(l, t) \in 0 .. HeadOf(l) /\ Locate(l, t) \in 0 .. Len(blocks)
         /\ HeadOf(l) # NULLPOINTER /\ Visible(blocks[HeadOf(l)].creation, t) => Locate(l, t) = HeadOf(l)
PROOF
<1> DEFINE h == HeadOf(l)
           S == {p \in Chain(blocks, h) : Visible(blocks[p].creation, t)}
<1>0. Len(blocks) \in Nat /\ edge_label_ptr \in 0 .. Len(labels)
  BY DEF Types
<1>1. h \in 0 .. Len(blocks)
  BY <1>0, PointedType DEF HeadOf
<1>2. Locate(l, t) = Newest(S)
  BY DEF Locate, HeadOf
<1>3. Older(blocks)
  BY DEF OlderInv
<1> HIDE DEF h
<1>4. Chain(blocks, h) \subseteq 1 .. h /\ (h # 0 => h \in Chain(blocks, h))
  BY <1>1, <1>3, ChainFacts
<1>5. S \subseteq 1 .. h /\ h \in Nat
  BY <1>0, <1>1, <1>4
<1>6. Newest(S) \in 0 .. h /\ \A q \in S : q <= Newest(S)
  <2> HIDE DEF S
  <2> QED BY <1>5, NewestOf
<1>7. ASSUME h # 0, Visible(blocks[h].creation, t) PROVE Newest(S) = h
  <2>1. h \in S
    BY <1>4, <1>7
  <2> HIDE DEF S
  <2>2. h <= Newest(S)
    BY <1>6, <2>1
  <2> QED BY <1>5, <1>6, <2>2
<1> HIDE DEF S
<1>8. Locate(l, t) \in 0 .. Len(blocks)
  BY <1>0, <1>1, <1>2, <1>5, <1>6
<1> QED BY <1>1, <1>2, <1>6, <1>7, <1>8 DEF h

\* The fields of a block, of a label block and of a transaction.
LEMMA BlockFields ==
  ASSUME Types, NEW p \in DOMAIN blocks
  PROVE  /\ blocks[p] \in BlockRec
         /\ blocks[p].creation \in Int /\ blocks[p].prev \in Nat /\ blocks[p].committed \in Int
         /\ blocks[p].num \in Nat /\ blocks[p].order \in Nat /\ blocks[p].entries \in Seq(EntryRec)
         /\ DOMAIN blocks = 1 .. Len(blocks) /\ Len(blocks) \in Nat /\ p \in 1 .. Len(blocks) /\ p \in Pointer
PROOF
<1>1. blocks \in Seq(BlockRec) /\ Len(blocks) <= MaxBlock
  BY DEF Types
<1>2. blocks[p] \in BlockRec /\ DOMAIN blocks = 1 .. Len(blocks) /\ Len(blocks) \in Nat
  BY <1>1
<1>3. p \in Pointer
  BY <1>1, <1>2, EdgesAssumption DEF Pointer
<1> QED BY <1>2, <1>3 DEF BlockRec

LEMMA LabelFields ==
  ASSUME Types, NEW q \in DOMAIN labels
  PROVE  /\ labels[q] \in LabelRec
         /\ labels[q].creation \in Int /\ labels[q].prev \in Nat /\ labels[q].order \in Nat
         /\ labels[q].entries \in Seq([label : AnyLabel, ptr : Nat])
         /\ DOMAIN labels = 1 .. Len(labels) /\ Len(labels) \in Nat /\ q \in 1 .. Len(labels)
PROOF
<1>1. labels \in Seq(LabelRec)
  BY DEF Types
<1>2. labels[q] \in LabelRec /\ DOMAIN labels = 1 .. Len(labels) /\ Len(labels) \in Nat
  BY <1>1
<1> QED BY <1>2 DEF LabelRec

LEMMA TxnFields ==
  ASSUME Types, NEW c \in Client
  PROVE  /\ txn[c] \in TxnRec /\ txn[c].id \in Nat /\ txn[c].read \in Int /\ txn[c].ops \in Nat
         /\ txn[c].locked \in BOOLEAN /\ txn[c].ptrs \in [Label -> Nat \cup {NoCache}]
         /\ txn[c].tails \in [Pointer -> Nat \cup {NoTail}] /\ txn[c].stamps \in Seq(WordRec)
         /\ txn[c].own \subseteq Nat /\ txn[c].epoch \in Nat /\ txn[c].mine \in [Label -> Writes]
PROOF
<1>1. txn[c] \in TxnRec
  BY DEF Types
<1> QED BY <1>1 DEF TxnRec

\* What is carried into a larger or a compacted block, and the words of it to be stamped.
LEMMA KeptType ==
  ASSUME Types, TailInv, NEW p \in 0 .. Len(blocks), NEW n \in Nat,
         NEW t
  PROVE  Kept(p, n, t) \in Seq(EntryRec) /\ Len(Kept(p, n, t)) <= n
PROOF
<1>1. CASE p = 0
  BY <1>1 DEF Kept
<1>2. CASE p # 0
  <2>1. p \in DOMAIN blocks
    BY <1>2 DEF Types
  <2>2. PICK e : e = blocks[p].entries /\ e \in Seq(EntryRec)
    BY <2>1, BlockFields
  <2> DEFINE S == {i \in 1 .. n : ~Visible(e[i].deletion, t)}
  <2>3. Kept(p, n, t) = Picked(e, S)
    BY <1>2, <2>2 DEF Kept
  <2>4. S \subseteq 1 .. n
    OBVIOUS
  <2> HIDE DEF S
  <2>5. Picked(e, S) \in Seq(EntryRec) /\ \A m \in Nat : S \subseteq 1 .. m => Len(Picked(e, S)) <= m
    BY <2>2, PickedType
  <2> QED BY <2>3, <2>4, <2>5
<1> QED BY <1>1, <1>2

LEMMA SurvivorsType ==
  ASSUME Types, NEW p \in DOMAIN blocks, NEW bound
  PROVE  Survivors(p, bound) \in Seq(EntryRec) /\ Len(Survivors(p, bound)) <= blocks[p].num
PROOF
<1>0. blocks[p].num \in Nat
  BY BlockFields
<1>1. PICK e : e = blocks[p].entries /\ e \in Seq(EntryRec)
  BY BlockFields
<1> DEFINE S == {i \in 1 .. blocks[p].num : ~Until(e[i].deletion, bound)}
<1>2. Survivors(p, bound) = Picked(e, S)
  BY <1>1 DEF Survivors
<1>3. S \subseteq 1 .. blocks[p].num
  OBVIOUS
<1> HIDE DEF S
<1>4. Picked(e, S) \in Seq(EntryRec) /\ \A m \in Nat : S \subseteq 1 .. m => Len(Picked(e, S)) <= m
  BY <1>1, PickedType
<1> QED BY <1>0, <1>2, <1>3, <1>4

LEMMA OwnWordsType ==
  ASSUME NEW p \in Nat, NEW e \in Seq(EntryRec), NEW t
  PROVE  /\ OwnWords(p, e, t) \in Seq(WordRec)
         /\ \A w \in Members(OwnWords(p, e, t)) : \E i \in DOMAIN e : w = Word("creation", p, i)
PROOF
<1> DEFINE u == [i \in DOMAIN e |-> Word("creation", p, i)]
           S == {i \in DOMAIN e : e[i].creation = -t.id}
<1>1. Len(e) \in Nat /\ DOMAIN e = 1 .. Len(e)
  OBVIOUS
<1>2. \A i \in DOMAIN e : Word("creation", p, i) \in WordRec
  BY <1>1 DEF Word, WordRec
<1>3. u \in [1 .. Len(e) -> WordRec]
  BY <1>1, <1>2
<1>4. u \in Seq(WordRec) /\ DOMAIN u = DOMAIN e
  BY <1>1, <1>3, SeqIn
<1>5. \A i \in DOMAIN u : u[i] = Word("creation", p, i)
  OBVIOUS
<1>6. OwnWords(p, e, t) = Picked(u, S)
  BY DEF OwnWords
<1> HIDE DEF u, S
<1>7. Picked(u, S) \in Seq(WordRec) /\ \A i \in DOMAIN Picked(u, S) : \E j \in DOMAIN u : j \in S /\ Picked(u, S)[i] = u[j]
  BY <1>4, PickedType
<1>8. ASSUME NEW w \in Members(Picked(u, S)) PROVE \E i \in DOMAIN e : w = Word("creation", p, i)
  <2>1. PICK k \in DOMAIN Picked(u, S) : w = Picked(u, S)[k]
    BY DEF Members
  <2>2. PICK j \in DOMAIN u : Picked(u, S)[k] = u[j]
    BY <1>7, <2>1
  <2> QED BY <1>4, <1>5, <2>1, <2>2
<1> QED BY <1>6, <1>7, <1>8

-----------------------------------------------------------------------------
(* Scans *)

\* A scan whose label changes is a scan.
LEMMA ScanPut_l ==
  ASSUME NEW r, IsScan(r), NEW x
  PROVE  /\ IsScan([r EXCEPT !.l = x])
         /\ [r EXCEPT !.l = x].l = x
         /\ [r EXCEPT !.l = x].lb = r.lb
         /\ [r EXCEPT !.l = x].ptr = r.ptr
         /\ [r EXCEPT !.l = x].cursor = r.cursor
         /\ [r EXCEPT !.l = x].found = r.found
         /\ [r EXCEPT !.l = x].want = r.want
         /\ [r EXCEPT !.l = x].one = r.one
         /\ [r EXCEPT !.l = x].reverse = r.reverse
         /\ [r EXCEPT !.l = x].num = r.num
BY DEF IsScan

\* A scan whose want changes is a scan.
LEMMA ScanPut_want ==
  ASSUME NEW r, IsScan(r), NEW x
  PROVE  /\ IsScan([r EXCEPT !.want = x])
         /\ [r EXCEPT !.want = x].want = x
         /\ [r EXCEPT !.want = x].l = r.l
         /\ [r EXCEPT !.want = x].lb = r.lb
         /\ [r EXCEPT !.want = x].ptr = r.ptr
         /\ [r EXCEPT !.want = x].cursor = r.cursor
         /\ [r EXCEPT !.want = x].found = r.found
         /\ [r EXCEPT !.want = x].one = r.one
         /\ [r EXCEPT !.want = x].reverse = r.reverse
         /\ [r EXCEPT !.want = x].num = r.num
BY DEF IsScan

\* A scan whose one changes is a scan.
LEMMA ScanPut_one ==
  ASSUME NEW r, IsScan(r), NEW x
  PROVE  /\ IsScan([r EXCEPT !.one = x])
         /\ [r EXCEPT !.one = x].one = x
         /\ [r EXCEPT !.one = x].l = r.l
         /\ [r EXCEPT !.one = x].lb = r.lb
         /\ [r EXCEPT !.one = x].ptr = r.ptr
         /\ [r EXCEPT !.one = x].cursor = r.cursor
         /\ [r EXCEPT !.one = x].found = r.found
         /\ [r EXCEPT !.one = x].want = r.want
         /\ [r EXCEPT !.one = x].reverse = r.reverse
         /\ [r EXCEPT !.one = x].num = r.num
BY DEF IsScan

\* A scan whose reverse changes is a scan.
LEMMA ScanPut_reverse ==
  ASSUME NEW r, IsScan(r), NEW x
  PROVE  /\ IsScan([r EXCEPT !.reverse = x])
         /\ [r EXCEPT !.reverse = x].reverse = x
         /\ [r EXCEPT !.reverse = x].l = r.l
         /\ [r EXCEPT !.reverse = x].lb = r.lb
         /\ [r EXCEPT !.reverse = x].ptr = r.ptr
         /\ [r EXCEPT !.reverse = x].cursor = r.cursor
         /\ [r EXCEPT !.reverse = x].found = r.found
         /\ [r EXCEPT !.reverse = x].want = r.want
         /\ [r EXCEPT !.reverse = x].one = r.one
         /\ [r EXCEPT !.reverse = x].num = r.num
BY DEF IsScan

\* A scan whose label block changes is a scan.
LEMMA ScanPut_lb ==
  ASSUME NEW r, IsScan(r), NEW x
  PROVE  /\ x \in Nat => IsScan([r EXCEPT !.lb = x])
         /\ [r EXCEPT !.lb = x].lb = x
         /\ [r EXCEPT !.lb = x].l = r.l
         /\ [r EXCEPT !.lb = x].ptr = r.ptr
         /\ [r EXCEPT !.lb = x].cursor = r.cursor
         /\ [r EXCEPT !.lb = x].found = r.found
         /\ [r EXCEPT !.lb = x].want = r.want
         /\ [r EXCEPT !.lb = x].one = r.one
         /\ [r EXCEPT !.lb = x].reverse = r.reverse
         /\ [r EXCEPT !.lb = x].num = r.num
BY DEF IsScan

\* A scan whose block changes is a scan.
LEMMA ScanPut_ptr ==
  ASSUME NEW r, IsScan(r), NEW x
  PROVE  /\ x \in Nat => IsScan([r EXCEPT !.ptr = x])
         /\ [r EXCEPT !.ptr = x].ptr = x
         /\ [r EXCEPT !.ptr = x].l = r.l
         /\ [r EXCEPT !.ptr = x].lb = r.lb
         /\ [r EXCEPT !.ptr = x].cursor = r.cursor
         /\ [r EXCEPT !.ptr = x].found = r.found
         /\ [r EXCEPT !.ptr = x].want = r.want
         /\ [r EXCEPT !.ptr = x].one = r.one
         /\ [r EXCEPT !.ptr = x].reverse = r.reverse
         /\ [r EXCEPT !.ptr = x].num = r.num
BY DEF IsScan

\* A scan whose number of entries changes is a scan.
LEMMA ScanPut_num ==
  ASSUME NEW r, IsScan(r), NEW x
  PROVE  /\ IsScan([r EXCEPT !.num = x])
         /\ [r EXCEPT !.num = x].num = x
         /\ [r EXCEPT !.num = x].l = r.l
         /\ [r EXCEPT !.num = x].lb = r.lb
         /\ [r EXCEPT !.num = x].ptr = r.ptr
         /\ [r EXCEPT !.num = x].cursor = r.cursor
         /\ [r EXCEPT !.num = x].found = r.found
         /\ [r EXCEPT !.num = x].want = r.want
         /\ [r EXCEPT !.num = x].one = r.one
         /\ [r EXCEPT !.num = x].reverse = r.reverse
BY DEF IsScan

\* A scan whose cursor changes is a scan.
LEMMA ScanPut_cursor ==
  ASSUME NEW r, IsScan(r), NEW x
  PROVE  /\ IsScan([r EXCEPT !.cursor = x])
         /\ [r EXCEPT !.cursor = x].cursor = x
         /\ [r EXCEPT !.cursor = x].l = r.l
         /\ [r EXCEPT !.cursor = x].lb = r.lb
         /\ [r EXCEPT !.cursor = x].ptr = r.ptr
         /\ [r EXCEPT !.cursor = x].found = r.found
         /\ [r EXCEPT !.cursor = x].want = r.want
         /\ [r EXCEPT !.cursor = x].one = r.one
         /\ [r EXCEPT !.cursor = x].reverse = r.reverse
         /\ [r EXCEPT !.cursor = x].num = r.num
BY DEF IsScan

\* A scan whose found changes is a scan.
LEMMA ScanPut_found ==
  ASSUME NEW r, IsScan(r), NEW x
  PROVE  /\ IsScan([r EXCEPT !.found = x])
         /\ [r EXCEPT !.found = x].found = x
         /\ [r EXCEPT !.found = x].l = r.l
         /\ [r EXCEPT !.found = x].lb = r.lb
         /\ [r EXCEPT !.found = x].ptr = r.ptr
         /\ [r EXCEPT !.found = x].cursor = r.cursor
         /\ [r EXCEPT !.found = x].want = r.want
         /\ [r EXCEPT !.found = x].one = r.one
         /\ [r EXCEPT !.found = x].reverse = r.reverse
         /\ [r EXCEPT !.found = x].num = r.num
BY DEF IsScan

LEMMA NoScanIs == IsScan(NoScan) /\ NoScan.ptr = NULLPOINTER /\ NoScan.lb = NULLPOINTER
BY DEF IsScan, NoScan

LEMMA ScanFields ==
  ASSUME Types, NEW c \in Client, NEW place \in Place, NEW r, Scanning(c, place, r), IsScan(r)
  PROVE  /\ UNCHANGED <<epochsVars, transaction_id, vertex_futex, store, compaction, committed>>
         /\ pc' \in [Client -> Place] /\ pc'[c] = place /\ scan'[c] = r
         /\ scan' = [d \in Client |-> scan'[d]]
         /\ \A d \in Client \ {c} : pc'[d] = pc[d] /\ scan'[d] = scan[d]
PROOF
<1>1. pc \in [Client -> Place] /\ scan = [d \in Client |-> scan[d]]
  BY DEF Types
<1>2. pc' = [pc EXCEPT ![c] = place] /\ scan' = [scan EXCEPT ![c] = r]
  BY DEF Scanning, Goto
<1>3. UNCHANGED <<epochsVars, transaction_id, vertex_futex, store, compaction, committed>>
  BY DEF Scanning
<1> QED BY <1>1, <1>2, <1>3

\* A step of a scan that changes nothing else.
LEMMA ScanOn ==
  ASSUME Types, NEW c \in Client, NEW place \in InScan \cup {"open", "read"}, NEW r, Scanning(c, place, r), IsScan(r),
         pc[c] \in InScan \cup {"open", "read"}, txn' = txn, r.ptr <= Len(blocks), r.lb <= Len(labels)
  PROVE  ScanStep(c) /\ scan'[c] = r /\ pc'[c] = place
PROOF
<1>1. place \in Place
  BY DEF Place, InScan
<1>2. /\ UNCHANGED <<epochsVars, transaction_id, vertex_futex, store, compaction, committed>>
      /\ pc' \in [Client -> Place] /\ pc'[c] = place /\ scan'[c] = r
      /\ scan' = [d \in Client |-> scan'[d]]
      /\ \A d \in Client \ {c} : pc'[d] = pc[d] /\ scan'[d] = scan[d]
  BY <1>1, ScanFields
<1>3. Alone(c)
  BY <1>2 DEF Alone, Same, epochsVars
<1>4. Keeps(c)
  BY DEF Keeps
<1>5. txn' \in [Client -> TxnRec]
  BY DEF Types
<1> QED BY <1>2, <1>3, <1>4, <1>5 DEF ScanStep

\* Where a client's scan stands.
LEMMA ScanAt ==
  ASSUME Basic, NEW c \in Client
  PROVE  /\ Types /\ IsScan(scan[c]) /\ scan[c].ptr \in 0 .. Len(blocks) /\ scan[c].lb \in 0 .. Len(labels)
         /\ Len(blocks) \in Nat /\ Len(labels) \in Nat
PROOF
<1>1. Types /\ RefsOf(c)
  BY DEF Basic, RefsInv
<1>2. IsScan(scan[c]) /\ Len(blocks) \in Nat /\ Len(labels) \in Nat
  BY <1>1 DEF Types
<1>3. scan[c].ptr \in Nat /\ scan[c].lb \in Nat
  BY <1>2 DEF IsScan
<1>4. scan[c].ptr <= Len(blocks) /\ scan[c].lb <= Len(labels)
  BY <1>1 DEF RefsOf
<1> QED BY <1>1, <1>2, <1>3, <1>4

LEMMA ReadLabelStep ==
  ASSUME Basic, NEW c \in Client, ReadLabel(c)
  PROVE  /\ ScanStep(c) /\ pc'[c] = "walk" /\ scan'[c].lb = NULLPOINTER /\ scan'[c].l = scan[c].l
         /\ scan'[c].ptr = Pointed(scan[c].lb, scan[c].l)
PROOF
<1> DEFINE p == Pointed(scan[c].lb, scan[c].l)
           r1 == [scan[c] EXCEPT !.ptr = p]
           r == [r1 EXCEPT !.lb = NULLPOINTER]
<1>0. Types /\ LabelsInv
  BY DEF Basic
<1>1. /\ IsScan(scan[c]) /\ scan[c].ptr \in 0 .. Len(blocks) /\ scan[c].lb \in 0 .. Len(labels)
      /\ Len(blocks) \in Nat /\ Len(labels) \in Nat
  BY ScanAt
<1>2. p \in 0 .. Len(blocks)
  BY <1>0, <1>1, PointedType
<1>3. Scanning(c, "walk", r) /\ pc[c] = "label" /\ txn' = txn
  BY DEF ReadLabel
<1> HIDE DEF p
<1>4. IsScan(r1) /\ r1.ptr = p /\ r1.l = scan[c].l
  BY <1>1, <1>2, ScanPut_ptr
<1> HIDE DEF r1
<1>5. IsScan(r) /\ r.ptr = p /\ r.lb = 0 /\ r.l = scan[c].l
  BY <1>4, ScanPut_lb
<1> HIDE DEF r
<1>6. r.ptr <= Len(blocks) /\ r.lb <= Len(labels)
  BY <1>1, <1>2, <1>5
<1>7. "walk" \in InScan \cup {"open", "read"} /\ pc[c] \in InScan \cup {"open", "read"}
  BY <1>3 DEF InScan
<1>8. ScanStep(c) /\ scan'[c] = r /\ pc'[c] = "walk"
  BY <1>0, <1>3, <1>5, <1>6, <1>7, ScanOn
<1> QED BY <1>5, <1>8 DEF p

LEMMA WalkStep ==
  ASSUME Basic, NEW c \in Client, Walk(c)
  PROVE  /\ ScanStep(c) /\ pc[c] = "walk" /\ scan'[c].l = scan[c].l /\ scan'[c].lb = scan[c].lb
         /\ \/ /\ pc'[c] = "tail" /\ scan'[c].ptr = scan[c].ptr
               /\ scan[c].ptr # NULLPOINTER => Visible(blocks[scan[c].ptr].creation, txn[c])
            \/ /\ pc'[c] = "walk" /\ scan[c].ptr # NULLPOINTER /\ scan'[c].ptr = blocks[scan[c].ptr].prev
               /\ ~Visible(blocks[scan[c].ptr].creation, txn[c])
PROOF
<1> DEFINE p == scan[c].ptr
           r == [scan[c] EXCEPT !.ptr = blocks[p].prev]
<1>0. Types /\ OlderInv /\ txn' = txn /\ pc[c] = "walk"
  BY DEF Basic, Walk
<1>1. /\ IsScan(scan[c]) /\ scan[c].ptr \in 0 .. Len(blocks) /\ scan[c].lb \in 0 .. Len(labels)
      /\ Len(blocks) \in Nat /\ Len(labels) \in Nat
  BY ScanAt
<1>2. "walk" \in InScan \cup {"open", "read"} /\ "tail" \in InScan \cup {"open", "read"}
      /\ pc[c] \in InScan \cup {"open", "read"}
  BY <1>0 DEF InScan
<1>3. scan[c].ptr <= Len(blocks) /\ scan[c].lb <= Len(labels)
  BY <1>1
<1>4. CASE p = NULLPOINTER \/ Visible(blocks[p].creation, txn[c])
  <2>1. Scanning(c, "tail", scan[c])
    BY <1>4 DEF Walk
  <2>2. ScanStep(c) /\ scan'[c] = scan[c] /\ pc'[c] = "tail"
    BY <1>0, <1>1, <1>2, <1>3, <2>1, ScanOn
  <2> QED BY <1>0, <1>4, <2>2
<1>5. CASE p # NULLPOINTER /\ ~Visible(blocks[p].creation, txn[c])
  <2>1. Scanning(c, "walk", r)
    BY <1>5 DEF Walk
  <2>2. blocks[p].prev \in 0 .. Len(blocks)
    <3>1. p \in DOMAIN blocks
      BY <1>0, <1>1, <1>5 DEF Types
    <3>2. blocks[p].prev \in 0 .. p - 1
      BY <1>0, <3>1 DEF OlderInv, Older
    <3> QED BY <1>1, <3>2
  <2> HIDE DEF p
  <2>3. IsScan(r) /\ r.ptr = blocks[p].prev /\ r.l = scan[c].l /\ r.lb = scan[c].lb
    BY <1>1, <2>2, ScanPut_ptr
  <2> HIDE DEF r
  <2>4. r.ptr <= Len(blocks) /\ r.lb <= Len(labels)
    BY <1>1, <2>2, <2>3
  <2>5. ScanStep(c) /\ scan'[c] = r /\ pc'[c] = "walk"
    BY <1>0, <1>2, <2>1, <2>3, <2>4, ScanOn
  <2> QED BY <1>0, <1>5, <2>3, <2>5 DEF p
<1> QED BY <1>4, <1>5

LEMMA LoadTailStep ==
  ASSUME Basic, NEW c \in Client, LoadTail(c)
  PROVE  /\ ScanStep(c) /\ pc[c] = "tail" /\ scan'[c].l = scan[c].l /\ scan'[c].lb = scan[c].lb
         /\ scan'[c].ptr = scan[c].ptr /\ pc'[c] \in {"read", "entries"}
PROOF
<1> DEFINE p == scan[c].ptr
           r == [scan[c] EXCEPT !.num = NumEntries(txn[c], p)]
<1>0. Types /\ txn' = txn /\ pc[c] = "tail"
  BY DEF Basic, LoadTail
<1>1. /\ IsScan(scan[c]) /\ scan[c].ptr \in 0 .. Len(blocks) /\ scan[c].lb \in 0 .. Len(labels)
      /\ Len(blocks) \in Nat /\ Len(labels) \in Nat
  BY ScanAt
<1>2. "read" \in InScan \cup {"open", "read"} /\ "entries" \in InScan \cup {"open", "read"}
      /\ pc[c] \in InScan \cup {"open", "read"}
  BY <1>0 DEF InScan
<1>3. scan[c].ptr <= Len(blocks) /\ scan[c].lb <= Len(labels)
  BY <1>1
<1>4. CASE p = NULLPOINTER
  <2>1. Scanning(c, "read", scan[c])
    BY <1>4 DEF LoadTail
  <2>2. ScanStep(c) /\ scan'[c] = scan[c] /\ pc'[c] = "read"
    BY <1>0, <1>1, <1>2, <1>3, <2>1, ScanOn
  <2> QED BY <1>0, <2>2
<1>5. CASE p # NULLPOINTER
  <2>1. Scanning(c, "entries", r)
    BY <1>5 DEF LoadTail
  <2>3. IsScan(r) /\ r.ptr = scan[c].ptr /\ r.l = scan[c].l /\ r.lb = scan[c].lb
    BY <1>1, ScanPut_num
  <2> HIDE DEF r
  <2>4. r.ptr <= Len(blocks) /\ r.lb <= Len(labels)
    BY <1>3, <2>3
  <2>5. ScanStep(c) /\ scan'[c] = r /\ pc'[c] = "entries"
    BY <1>0, <1>2, <2>1, <2>3, <2>4, ScanOn
  <2> QED BY <1>0, <2>3, <2>5
<1> QED BY <1>4, <1>5

LEMMA NextEntryStep ==
  ASSUME Basic, NEW c \in Client, NextEntry(c)
  PROVE  /\ ScanStep(c) /\ pc[c] = "entries" /\ scan'[c].l = scan[c].l /\ scan'[c].lb = scan[c].lb
         /\ scan'[c].ptr = scan[c].ptr /\ pc'[c] \in {"read", "entries"}
PROOF
<1> DEFINE r   == scan[c]
           e   == blocks[r.ptr].entries[IF r.reverse THEN r.cursor + 1 ELSE r.num - r.cursor]
           hit == Live(e, txn[c]) /\ e.dst \in r.want
           r1  == [r EXCEPT !.cursor = r.cursor + 1]
           f   == IF hit THEN Append(r1.found, <<e.dst, e.data>>) ELSE r1.found
           r2  == [r1 EXCEPT !.found = f]
<1>0. Types /\ txn' = txn /\ pc[c] = "entries"
  BY DEF Basic, NextEntry
<1>1. /\ IsScan(scan[c]) /\ scan[c].ptr \in 0 .. Len(blocks) /\ scan[c].lb \in 0 .. Len(labels)
      /\ Len(blocks) \in Nat /\ Len(labels) \in Nat
  BY ScanAt
<1>2. "read" \in InScan \cup {"open", "read"} /\ "entries" \in InScan \cup {"open", "read"}
      /\ pc[c] \in InScan \cup {"open", "read"}
  BY <1>0 DEF InScan
<1>3. scan[c].ptr <= Len(blocks) /\ scan[c].lb <= Len(labels)
  BY <1>1
<1>4. CASE r.cursor = r.num
  <2>1. Scanning(c, "read", scan[c])
    BY <1>4 DEF NextEntry
  <2>2. ScanStep(c) /\ scan'[c] = scan[c] /\ pc'[c] = "read"
    BY <1>0, <1>1, <1>2, <1>3, <2>1, ScanOn
  <2> QED BY <1>0, <2>2
<1>5. CASE r.cursor # r.num
  <2>1. \E place \in {"read", "entries"} : Scanning(c, place, r2)
    BY <1>5 DEF NextEntry
  <2>2. PICK place \in {"read", "entries"} : Scanning(c, place, r2)
    BY <2>1
  <2> HIDE DEF f
  <2>3. IsScan(r1) /\ r1.ptr = scan[c].ptr /\ r1.l = scan[c].l /\ r1.lb = scan[c].lb
    BY <1>1, ScanPut_cursor
  <2> HIDE DEF r1
  <2>4. IsScan(r2) /\ r2.ptr = scan[c].ptr /\ r2.l = scan[c].l /\ r2.lb = scan[c].lb
    BY <2>3, ScanPut_found
  <2> HIDE DEF r2
  <2>5. r2.ptr <= Len(blocks) /\ r2.lb <= Len(labels)
    BY <1>3, <2>4
  <2>6. place \in InScan \cup {"open", "read"}
    BY <1>2
  <2>7. ScanStep(c) /\ scan'[c] = r2 /\ pc'[c] = place
    BY <1>0, <1>2, <2>2, <2>4, <2>5, <2>6, ScanOn
  <2> QED BY <1>0, <2>4, <2>7
<1> QED BY <1>4, <1>5

LEMMA ReturnStep ==
  ASSUME Basic, NEW c \in Client, Return(c)
  PROVE  ScanStep(c) /\ pc[c] = "read" /\ pc'[c] = "open"
PROOF
<1>0. Types /\ txn' = txn /\ pc[c] = "read" /\ Scanning(c, "open", NoScan)
  BY DEF Basic, Return
<1>1. Len(blocks) \in Nat /\ Len(labels) \in Nat
  BY ScanAt
<1>2. NoScan.ptr <= Len(blocks) /\ NoScan.lb <= Len(labels)
  BY <1>1, NoScanIs
<1>3. "open" \in InScan \cup {"open", "read"} /\ pc[c] \in InScan \cup {"open", "read"}
  BY <1>0
<1> QED BY <1>0, <1>2, <1>3, NoScanIs, ScanOn

LEMMA GetEdgesStep ==
  ASSUME Basic, NEW c \in Client, NEW l \in Label, NEW want, NEW one, NEW reverse, GetEdges(c, l, want, one, reverse)
  PROVE  /\ ScanStep(c) /\ pc[c] = "open" /\ scan'[c].l = l
         /\ \/ /\ pc'[c] = "label" /\ txn[c].ptrs[l] = NoCache
               /\ scan'[c].lb = edge_label_ptr /\ scan'[c].ptr = NULLPOINTER
            \/ /\ pc'[c] = "tail" /\ txn[c].ptrs[l] # NoCache
               /\ scan'[c].lb = NULLPOINTER /\ scan'[c].ptr = txn[c].ptrs[l]
PROOF
<1> DEFINE r1 == [NoScan EXCEPT !.l = l]
           r2 == [r1 EXCEPT !.want = want]
           r3 == [r2 EXCEPT !.one = one]
           r4 == [r3 EXCEPT !.reverse = reverse]
           p  == txn[c].ptrs[l]
           ra == [r4 EXCEPT !.lb = edge_label_ptr]
           rb == [r4 EXCEPT !.ptr = p]
<1>0. Types /\ RefsOf(c) /\ pc[c] = "open" /\ txn' = [txn EXCEPT ![c] = [txn[c] EXCEPT !.ops = txn[c].ops + 1]]
  BY DEF Basic, RefsInv, GetEdges, SetTxn
<1>1. Len(blocks) \in Nat /\ Len(labels) \in Nat /\ edge_label_ptr \in 0 .. Len(labels)
  BY <1>0 DEF Types
<1>2. IF p = NoCache THEN Scanning(c, "label", ra) ELSE Scanning(c, "tail", rb)
  BY DEF GetEdges
<1>3. p \in Nat \cup {NoCache} /\ p <= Len(blocks)
  <2>1. p \in Nat \cup {NoCache}
    BY <1>0, TxnFields
  <2>2. Writer(c)
    BY <1>0 DEF Writer, Open
  <2> QED BY <1>0, <2>1, <2>2 DEF RefsOf
<1>4. [txn[c] EXCEPT !.ops = txn[c].ops + 1] \in TxnRec
  BY <1>0, TxnFields DEF TxnRec
<1>5. txn' \in [Client -> TxnRec]
  BY <1>0, <1>4 DEF Types
<1>6. Keeps(c)
  <2>1. txn[c] \in TxnRec /\ txn'[c] = [txn[c] EXCEPT !.ops = txn[c].ops + 1]
    BY <1>0 DEF Types
  <2> QED BY <2>1 DEF Keeps, TxnRec
<1>7. \A d \in Client \ {c} : txn'[d] = txn[d]
  BY <1>0
<1>8. "label" \in Place /\ "tail" \in Place /\ "label" \in InScan \cup {"open", "read"}
      /\ "tail" \in InScan \cup {"open", "read"}
  BY DEF Place, InScan
<1> HIDE DEF p
<1>9. IsScan(r1) /\ r1.l = l /\ r1.lb = 0 /\ r1.ptr = 0
  BY NoScanIs, ScanPut_l
<1> HIDE DEF r1
<1>10. IsScan(r2) /\ r2.l = l /\ r2.lb = 0 /\ r2.ptr = 0
  BY <1>9, ScanPut_want
<1> HIDE DEF r2
<1>11. IsScan(r3) /\ r3.l = l /\ r3.lb = 0 /\ r3.ptr = 0
  BY <1>10, ScanPut_one
<1> HIDE DEF r3
<1>12. IsScan(r4) /\ r4.l = l /\ r4.lb = 0 /\ r4.ptr = 0
  BY <1>11, ScanPut_reverse
<1> HIDE DEF r4
<1>13. ASSUME NEW place \in {"label", "tail"}, NEW r, Scanning(c, place, r), IsScan(r),
              r.ptr <= Len(blocks), r.lb <= Len(labels)
       PROVE  ScanStep(c) /\ scan'[c] = r /\ pc'[c] = place
  <2>1. place \in Place /\ place \in InScan \cup {"open", "read"}
    BY <1>8
  <2>2. /\ UNCHANGED <<epochsVars, transaction_id, vertex_futex, store, compaction, committed>>
        /\ pc' \in [Client -> Place] /\ pc'[c] = place /\ scan'[c] = r
        /\ scan' = [d \in Client |-> scan'[d]]
        /\ \A d \in Client \ {c} : pc'[d] = pc[d] /\ scan'[d] = scan[d]
    BY <1>0, <1>13, <2>1, ScanFields
  <2>3. Alone(c)
    BY <1>7, <2>2 DEF Alone, Same, epochsVars
  <2> QED BY <1>0, <1>5, <1>6, <1>13, <2>1, <2>2, <2>3 DEF ScanStep
<1>14. CASE p = NoCache
  <2>1. Scanning(c, "label", ra)
    BY <1>2, <1>14
  <2>2. IsScan(ra) /\ ra.l = l /\ ra.lb = edge_label_ptr /\ ra.ptr = 0
    BY <1>1, <1>12, ScanPut_lb
  <2> HIDE DEF ra
  <2>3. ra.ptr <= Len(blocks) /\ ra.lb <= Len(labels)
    BY <1>1, <2>2
  <2>4. ScanStep(c) /\ scan'[c] = ra /\ pc'[c] = "label"
    BY <1>13, <2>1, <2>2, <2>3
  <2> QED BY <1>0, <1>14, <2>2, <2>4 DEF p
<1>15. CASE p # NoCache
  <2>1. Scanning(c, "tail", rb)
    BY <1>2, <1>15
  <2>2. IsScan(rb) /\ rb.l = l /\ rb.lb = 0 /\ rb.ptr = p
    BY <1>3, <1>12, <1>15, ScanPut_ptr
  <2> HIDE DEF rb
  <2>3. rb.ptr <= Len(blocks) /\ rb.lb <= Len(labels)
    BY <1>1, <1>3, <2>2
  <2>4. ScanStep(c) /\ scan'[c] = rb /\ pc'[c] = "tail"
    BY <1>13, <2>1, <2>2, <2>3
  <2> QED BY <1>0, <1>15, <2>2, <2>4 DEF p
<1> QED BY <1>14, <1>15

-----------------------------------------------------------------------------
(* What a step leaves alone keeps its invariants *)

LEMMA OtherPlace ==
  ASSUME NEW d \in Client, PlaceOf(d), Same(d), stage'[d] = stage[d], Types,
         visible' \in Nat, visible <= visible', sealed' \in Nat, sealed <= sealed',
         transaction_id' \in Nat, transaction_id <= transaction_id'
  PROVE  PlaceOf(d)'
PROOF
<1>1. /\ pc'[d] = pc[d] /\ txn'[d] = txn[d] /\ compaction'[d] = compaction[d]
      /\ visible \in Nat /\ sealed \in Nat /\ txn[d].epoch \in Nat /\ txn[d].read \in Int
      /\ transaction_id \in Nat /\ txn[d].id \in Nat
  BY TxnFields DEF Same, Types, EpochInv
<1>2. (stage[d] = "queued" => pc[d] = "registered")'
  BY <1>1 DEF PlaceOf
<1>3. (d \in ReadOnly => pc[d] \notin {"registered", "install"})'
  BY <1>1 DEF PlaceOf
<1>4. (txn[d].read \in -1 .. visible)'
  BY <1>1 DEF PlaceOf
<1>5. (Open(d) \/ pc[d] \in {"install", "clean", "leave"} => txn[d].read >= 0)'
  BY <1>1 DEF PlaceOf, Open
<1>6. (pc[d] \in {"scan", "lock", "compact"} /\ compaction[d].resume = "open" => txn[d].read >= 0)'
  BY <1>1 DEF PlaceOf
<1>10. (d \notin ReadOnly /\ txn[d].read # -1 => txn[d].id \in 1 .. transaction_id)'
  BY <1>1 DEF PlaceOf
<1>7. (txn[d].locked => d \notin ReadOnly /\ (Writer(d) \/ pc[d] \in {"clean", "leave"}))'
  BY <1>1 DEF PlaceOf, Writer, Open
<1>8. (~txn[d].locked => Bare(txn[d]))'
  BY <1>1 DEF PlaceOf
<1>9. (pc[d] = "install" => txn[d].epoch \in 1 .. sealed)'
  BY <1>1 DEF PlaceOf
<1> QED BY <1>2, <1>3, <1>4, <1>5, <1>6, <1>7, <1>8, <1>9, <1>10 DEF PlaceOf

LEMMA OtherRefs ==
  ASSUME NEW d \in Client, RefsOf(d), Same(d), UNCHANGED <<blocks, labels, edge_label_ptr>>
  PROVE  RefsOf(d)'
BY DEF RefsOf, Same, Writer, Open

LEMMA OtherRefsGrow ==
  ASSUME NEW d \in Client, RefsOf(d), PlaceOf(d), ~Holds(d), Same(d), Types, Types',
         Len(blocks) <= Len(blocks'), Len(labels) <= Len(labels')
  PROVE  RefsOf(d)'
PROOF
<1>1. /\ pc'[d] = pc[d] /\ txn'[d] = txn[d] /\ scan'[d] = scan[d]
      /\ Len(blocks) \in Nat /\ Len(blocks') \in Nat /\ Len(labels) \in Nat /\ Len(labels') \in Nat
      /\ scan[d].ptr \in Nat /\ scan[d].lb \in Nat
  BY DEF Same, Types, IsScan
<1>2. (scan[d].ptr <= Len(blocks) /\ scan[d].lb <= Len(labels))'
  BY <1>1 DEF RefsOf
<1>3. pc'[d] # "compact"
  BY <1>1 DEF Holds
<1>4. ASSUME Writer(d)' PROVE Bare(txn'[d])
  <2>1. Writer(d)
    BY <1>1, <1>4 DEF Writer, Open
  <2> QED BY <1>1, <2>1 DEF PlaceOf, Holds
<1>5. \A w \in Members(<<>>) : FALSE
  BY DEF Members
<1>6. ASSUME Writer(d)'
      PROVE  (/\ \A l \in Label : txn[d].ptrs[l] <= Len(blocks)
              /\ \A p \in Pointer : txn[d].tails[p] # NoTail =>
                   p \in DOMAIN blocks /\ txn[d].tails[p] <= Len(blocks[p].entries)
              /\ txn[d].own \subseteq DOMAIN blocks
              /\ \A w \in Members(txn[d].stamps) :
                   /\ w.field = "label" => w.p \in DOMAIN labels
                   /\ w.field # "label" => w.p \in DOMAIN blocks
                   /\ w.field \in {"creation", "deletion"} => w.i \in DOMAIN blocks[w.p].entries
                   /\ w.field = "block" => w.p \in txn[d].own
                   /\ w.field = "committed" => pc[d] = "install")'
  <2>1. Bare(txn'[d])
    BY <1>4, <1>6
  <2>2. (\A l \in Label : txn[d].ptrs[l] <= Len(blocks))'
    BY <1>1, <2>1 DEF Bare
  <2>3. \A w \in Members(txn'[d].stamps) : FALSE
    BY <1>5, <2>1 DEF Bare
  <2>4. (txn[d].own \subseteq DOMAIN blocks)' /\ \A p \in Pointer : txn'[d].tails[p] = NoTail
    BY <2>1 DEF Bare
  <2> QED BY <2>2, <2>3, <2>4
<1> QED BY <1>2, <1>3, <1>6 DEF RefsOf

\* Nobody else has written when one holds the vertex lock.
LEMMA OthersBare ==
  ASSUME Basic, NEW c \in Client, Holds(c) \/ vertex_futex = 0, NEW d \in Client, d # c
  PROVE  ~Holds(d) /\ (Writer(d) => Bare(txn[d])) /\ ~Installing(d)
PROOF
<1>1. ~Holds(d)
  BY DEF Basic, LockInv
<1>2. PlaceOf(d)
  BY DEF Basic, PlaceInv
<1> QED BY <1>1, <1>2 DEF Holds, PlaceOf, Installing, Writer

LEMMA OldStays ==
  ASSUME NEW e \in Int, Old(e), visible \in Nat, visible' \in Nat, visible <= visible',
         \A d \in Client : txn[d].read \in Int /\ txn'[d].read \in {txn[d].read, visible, -1}
  PROVE  Old(e)'
BY DEF Old, Active

\* A quiet step keeps what NoLostUpdate rests on.
LEMMA QuietCommits ==
  ASSUME Basic, CommitsInv, BoundInv', UNCHANGED <<blocks, labels, edge_label_ptr, sealed, committed>>,
         visible' \in Nat, visible <= visible', \A d \in Client : QuietFor(d)
  PROVE  CommitsInv'
PROOF
<1>0. Types /\ OlderInv /\ LabelsInv
  BY DEF Basic
<1>1. \A l : HeadOf(l)' = HeadOf(l)
  BY DEF HeadOf, Pointed
<1>2. visible \in Nat /\ DOMAIN blocks = 1 .. Len(blocks)
  BY <1>0 DEF Types, EpochInv
<1>21. \A l : HeadOf(l) # NULLPOINTER => HeadOf(l) \in DOMAIN blocks /\ blocks[HeadOf(l)].creation \in Int
  BY <1>0, <1>2, LocateFacts, BlockFields
<1>3. \A d \in Client : txn[d].read \in Int /\ txn'[d].read \in {txn[d].read, visible, -1}
  BY <1>0, TxnFields DEF QuietFor
<1>4. ASSUME NEW p, blocks[p].creation \in Int, Steady(p) PROVE Steady(p)'
  BY <1>2, <1>3, <1>4, OldStays DEF Steady
<1>5. \A d \in Client : Installing(d)' <=> Installing(d)
  BY DEF QuietFor
<1>6. \A d \in Client : Installing(d) => Keeps(d)
  BY DEF QuietFor, Installing
<1>7. \A d \in Client : \A l : Installing(d) => TopOf(d, l)' = TopOf(d, l)
  BY <1>1, <1>6 DEF TopOf, Keeps
<1>8. \A d \in Client : \A p : Installing(d) => (Timed(d, p)' <=> Timed(d, p))
  <2> SUFFICES ASSUME NEW d \in Client, NEW p, Installing(d) PROVE Timed(d, p)' <=> Timed(d, p)
    OBVIOUS
  <2>1. txn'[d].tails = txn[d].tails /\ txn'[d].stamps = txn[d].stamps /\ txn'[d].epoch = txn[d].epoch
    BY <1>6 DEF Keeps
  <2>2. Tails(txn'[d]) = Tails(txn[d]) /\ Members(txn'[d].stamps) = Members(txn[d].stamps)
    BY <2>1 DEF Tails
  <2> QED BY <2>1, <2>2 DEF Timed
<1>9. TopsInv'
  <2> SUFFICES ASSUME NEW d \in Client PROVE TopsOf(d)'
    BY DEF TopsInv
  <2>1. TopsOf(d) /\ QuietFor(d)
    BY DEF CommitsInv, TopsInv
  <2>2. ASSUME Open(d)'
        PROVE  /\ \A q \in txn'[d].own, l \in AnyLabel : HeadOf(l)' < q
               /\ \A l \in Label : txn'[d].ptrs[l] # NoCache =>
                    txn'[d].ptrs[l] = HeadOf(l)' \/ txn'[d].ptrs[l] \in txn'[d].own
    <3>1. CASE Bare(txn'[d])
      BY <3>1 DEF Bare
    <3>2. CASE Open(d) /\ Keeps(d)
      BY <1>1, <2>1, <3>2 DEF TopsOf, Keeps
    <3> QED BY <2>1, <2>2, <3>1, <3>2 DEF QuietFor
  <2>3. ASSUME pc'[d] = "install" PROVE \A l \in Label : txn'[d].ptrs[l] # NoCache => HeadOf(l)' <= txn'[d].ptrs[l]
    <3>1. pc[d] = "install" /\ txn'[d].ptrs = txn[d].ptrs
      BY <2>1, <2>3 DEF QuietFor, Keeps
    <3> QED BY <1>1, <2>1, <3>1 DEF TopsOf
  <2> QED BY <2>2, <2>3 DEF TopsOf
<1>10. CommittedInv'
  BY DEF CommitsInv, CommittedInv
<1>11. SettledInv'
  <2> SUFFICES ASSUME \A d \in Client : ~Installing(d)', NEW l \in AnyLabel, HeadOf(l) # NULLPOINTER PROVE Steady(HeadOf(l))'
    BY <1>1 DEF SettledInv
  <2>1. PICK h : h = HeadOf(l)
    OBVIOUS
  <2>2. Steady(h)
    BY <1>5, <2>1 DEF CommitsInv, SettledInv
  <2>3. blocks[h].creation \in Int
    BY <1>21, <2>1
  <2>4. Steady(h)'
    BY <1>4, <2>2, <2>3
  <2>5. HeadOf(l)' = h
    BY <1>1, <2>1
  <2> QED BY <2>4, <2>5 DEF Steady
<1>12. PendInv'
  <2> SUFFICES ASSUME NEW d \in Client, Open(d)', NEW l \in Label
      PROVE  (/\ txn[d].ptrs[l] \notin {NoCache, NULLPOINTER} =>
                   /\ txn[d].ptrs[l] \in txn[d].own => Word("block", txn[d].ptrs[l], 0) \in Members(txn[d].stamps)
                   /\ txn[d].tails[txn[d].ptrs[l]] # NoTail
              /\ DOMAIN txn[d].mine[l] # {} => txn[d].ptrs[l] \notin {NoCache, NULLPOINTER}
              /\ txn[d].ptrs[l] # NoCache => \A x \in committed : x.label = l => x.epoch <= txn[d].read)'
    BY DEF PendInv, PendOf
  <2>1. PendOf(d) /\ QuietFor(d)
    BY DEF CommitsInv, PendInv
  <2>2. CASE Bare(txn'[d])
    BY <2>2 DEF Bare
  <2>3. CASE Open(d) /\ Keeps(d)
    BY <2>1, <2>3 DEF PendOf, Keeps
  <2> QED BY <2>1, <2>2, <2>3 DEF QuietFor
<1>13. InstallInv'
  <2> SUFFICES ASSUME NEW d \in Client, Installing(d), NEW l \in AnyLabel, TopOf(d, l) # NULLPOINTER
      PROVE  (/\ Word("block", TopOf(d, l), 0) \in Members(txn[d].stamps) \/ blocks[TopOf(d, l)].creation \in 0 .. txn[d].epoch
              /\ Timed(d, TopOf(d, l)) \/ (Steady(TopOf(d, l)) /\ TopOf(d, l) = HeadOf(l) /\ TopOf(d, l) \notin txn[d].own))'
    BY <1>5, <1>7 DEF InstallInv, InstallOf
  <2>1. PICK p : p = TopOf(d, l) /\ p = TopOf(d, l)'
    BY <1>7
  <2>2. /\ Word("block", p, 0) \in Members(txn[d].stamps) \/ blocks[p].creation \in 0 .. txn[d].epoch
        /\ Timed(d, p) \/ (Steady(p) /\ p = HeadOf(l) /\ p \notin txn[d].own)
    BY <2>1 DEF CommitsInv, InstallInv, InstallOf
  <2>3. Keeps(d)
    BY <1>6
  <2>4. (Word("block", p, 0) \in Members(txn[d].stamps))' \/ (blocks[p].creation \in 0 .. txn[d].epoch)'
    BY <2>2, <2>3 DEF Keeps, Members, Word
  <2>5. CASE Timed(d, p)
    <3>1. Timed(d, p)'
      BY <1>8, <2>5
    <3> QED BY <2>1, <2>4, <3>1 DEF Timed, Word, Tails, Members
  <2>6. CASE Steady(p) /\ p = HeadOf(l) /\ p \notin txn[d].own
    <3>1. blocks[p].creation \in Int
      BY <1>21, <2>1, <2>6
    <3>2. Steady(p)' /\ p = HeadOf(l)' /\ p \notin txn'[d].own
      BY <1>1, <1>4, <2>3, <2>6, <3>1 DEF Keeps
    <3> QED BY <2>1, <2>4, <3>2 DEF Steady, Word, Members
  <2> QED BY <2>2, <2>5, <2>6
<1>14. CommitInv'
  <2> SUFFICES ASSUME NEW x \in committed PROVE CommitOf(x)'
    BY DEF CommitInv
  <2>1. CommitOf(x)
    BY DEF CommitsInv, CommitInv
  <2>2. (x.epoch <= sealed)' /\ \A d \in Client : Installing(d)' => x.epoch <= txn'[d].epoch
    BY <1>5, <1>6, <2>1 DEF CommitOf, Keeps
  <2>3. CASE HeadOf(x.label) # NULLPOINTER /\ x.epoch <= blocks[HeadOf(x.label)].committed
    BY <1>1, <2>2, <2>3 DEF CommitOf
  <2>4. ASSUME NEW d \in Client, Installing(d), TopOf(d, x.label) # NULLPOINTER, Timed(d, TopOf(d, x.label)) PROVE CommitOf(x)'
    <3>1. PICK p : p = TopOf(d, x.label) /\ p = TopOf(d, x.label)'
      BY <1>7, <2>4
    <3>2. Installing(d)' /\ TopOf(d, x.label)' # NULLPOINTER /\ Timed(d, p)'
      BY <1>5, <1>8, <2>4, <3>1
    <3>3. (Installing(d) /\ TopOf(d, x.label) # NULLPOINTER /\ Timed(d, TopOf(d, x.label)))'
      BY <3>1, <3>2 DEF Timed, Word, Tails
    <3> QED BY <2>2, <3>3 DEF CommitOf
  <2> QED BY <2>1, <2>3, <2>4 DEF CommitOf
<1>15. TailsInv'
  <2> SUFFICES ASSUME NEW d \in Client, Open(d)'
      PROVE  (/\ \A p \in Pointer : txn[d].tails[p] # NoTail => blocks[p].num <= txn[d].tails[p]
              /\ \A w \in Members(txn[d].stamps) : w.field \in {"creation", "deletion"} =>
                   txn[d].tails[w.p] # NoTail /\ w.i \in 1 .. txn[d].tails[w.p])'
    BY DEF TailsInv, TailsOf
  <2>1. TailsOf(d) /\ QuietFor(d)
    BY DEF CommitsInv, TailsInv
  <2>2. CASE Bare(txn'[d])
    BY <2>2 DEF Bare, Members
  <2>3. CASE Open(d) /\ Keeps(d)
    BY <2>1, <2>3 DEF TailsOf, Keeps
  <2> QED BY <2>1, <2>2, <2>3 DEF QuietFor
<1> QED BY <1>9, <1>10, <1>11, <1>12, <1>13, <1>14, <1>15 DEF CommitsInv

-----------------------------------------------------------------------------
(* Quiet steps *)

LEMMA LockKept ==
  ASSUME Basic, NEW c \in Client, Alone(c), vertex_futex' = vertex_futex, Holds(c)' => Holds(c)
  PROVE  LockInv'
PROOF
<1>1. \A d \in Client : Holds(d)' => Holds(d)
  BY DEF Alone, Same, Holds, Writer, Open
<1> QED BY <1>1 DEF Basic, LockInv

LEMMA LockTaken ==
  ASSUME Basic, NEW c \in Client, Alone(c), vertex_futex' = 1, Holds(c) \/ vertex_futex = 0
  PROVE  LockInv'
PROOF
<1>1. \A d \in Client \ {c} : ~Holds(d)
  BY OthersBare
<1>2. \A d \in Client \ {c} : ~Holds(d)'
  BY <1>1 DEF Alone, Same, Holds, Writer, Open
<1> QED BY <1>2 DEF LockInv

LEMMA LockFreed ==
  ASSUME Basic, NEW c \in Client, Alone(c), Holds(c), ~Holds(c)', vertex_futex' = 0
  PROVE  LockInv'
PROOF
<1>1. \A d \in Client \ {c} : ~Holds(d)
  BY OthersBare
<1>2. \A d \in Client \ {c} : ~Holds(d)'
  BY <1>1 DEF Alone, Same, Holds, Writer, Open
<1>3. \A d \in Client : ~Holds(d)'
  BY <1>2
<1> QED BY <1>3 DEF LockInv

LEMMA QuietBasic ==
  ASSUME Basic, NEW c \in Client, QuietStep(c)
  PROVE  Basic'
PROOF
<1>0. /\ Types /\ OlderInv /\ PlaceInv /\ LabelsInv /\ TailInv /\ RefsInv
      /\ UNCHANGED <<edge_label_ptr, labels, blocks, freed, freedLabels, sealed, visible, committed>>
  BY DEF Basic, QuietStep, store
<1>1. Types'
  <2>1. \A d \in Client : IsScan(scan'[d])
    <3>1. \A d \in Client \ {c} : scan'[d] = scan[d]
      BY DEF QuietStep, Alone, Same
    <3> QED BY <1>0, <3>1 DEF Types, QuietStep
  <2> QED BY <1>0, <2>1 DEF QuietStep, Types, EpochInv
<1>2. OlderInv' /\ LabelsInv' /\ TailInv'
  BY <1>0 DEF OlderInv, LabelsInv, TailInv, Older
<1>3. PlaceInv'
  <2> SUFFICES ASSUME NEW d \in Client PROVE PlaceOf(d)'
    BY DEF PlaceInv
  <2>1. CASE d = c
    BY <2>1 DEF QuietStep
  <2>2. CASE d # c
    <3>1. Same(d) /\ stage'[d] = stage[d] /\ PlaceOf(d)
      BY <1>0, <2>2 DEF QuietStep, Alone, PlaceInv
    <3>2. visible' \in Nat /\ visible <= visible' /\ sealed' \in Nat /\ sealed <= sealed'
      BY <1>0 DEF Types, EpochInv
    <3>3. transaction_id' \in Nat /\ transaction_id <= transaction_id'
      BY DEF QuietStep
    <3> QED BY <1>0, <3>1, <3>2, <3>3, OtherPlace
  <2> QED BY <2>1, <2>2
<1>4. RefsInv'
  <2> SUFFICES ASSUME NEW d \in Client PROVE RefsOf(d)'
    BY DEF RefsInv
  <2>1. CASE d = c
    BY <2>1 DEF QuietStep
  <2>2. CASE d # c
    <3>1. Same(d) /\ RefsOf(d)
      BY <1>0, <2>2 DEF QuietStep, Alone, RefsInv
    <3> QED BY <1>0, <3>1, OtherRefs
  <2> QED BY <2>1, <2>2
<1>5. LockInv'
  BY DEF QuietStep
<1> QED BY <1>1, <1>2, <1>3, <1>4, <1>5 DEF Basic

\* The bounds of the others stay below every snapshot.
LEMMA BoundStays ==
  ASSUME Types, NEW d \in Client, Same(d), BoundOf(d), visible' \in Nat, visible <= visible',
         \A e \in Client : txn[e].read \in Int /\ txn'[e].read \in {txn[e].read, visible, -1}
  PROVE  BoundOf(d)'
PROOF
<1>1. PICK b \in Int : b = compaction[d].bound
  BY DEF Types, CompactionRec
<1>2. pc'[d] = pc[d] /\ txn'[d] = txn[d] /\ compaction'[d].bound = b /\ visible \in Nat
  BY <1>1 DEF Same, Types, EpochInv
<1>3. ASSUME pc'[d] \in {"lock", "compact"} PROVE Old(b)'
  <2>1. Old(b)
    BY <1>1, <1>2, <1>3 DEF BoundOf
  <2> QED BY <1>2, <2>1, OldStays
<1>4. pc'[d] \in {"lock", "compact"} => (Old(compaction[d].bound))'
  BY <1>2, <1>3 DEF Old, Active
<1>5. pc'[d] = "scan" => (compaction[d].bound <= visible \/ Active(d))'
  BY <1>1, <1>2 DEF BoundOf, Active
<1> QED BY <1>4, <1>5 DEF BoundOf

LEMMA QuietInv ==
  ASSUME Basic, CommitsInv, NEW c \in Client, QuietStep(c), BoundOf(c)'
  PROVE  CommitsInv'
PROOF
<1>0. /\ Types /\ UNCHANGED <<edge_label_ptr, labels, blocks, freed, freedLabels, sealed, visible, committed>>
  BY DEF Basic, QuietStep, store
<1>1. \A d \in Client : QuietFor(d)
  BY DEF QuietStep, Alone, Same, QuietFor, Keeps, Open, Installing
<1>2. visible \in Nat /\ visible' \in Nat /\ visible <= visible'
  BY <1>0 DEF Types, EpochInv
<1>3. \A d \in Client : txn[d].read \in Int /\ txn'[d].read \in {txn[d].read, visible, -1}
  BY <1>0, <1>1, TxnFields DEF QuietFor
<1>4. BoundInv'
  <2> SUFFICES ASSUME NEW d \in Client, d # c PROVE BoundOf(d)'
    BY DEF BoundInv
  <2>1. BoundOf(d) /\ Same(d)
    BY DEF CommitsInv, BoundInv, QuietStep, Alone
  <2> QED BY <1>0, <1>2, <1>3, <2>1, BoundStays
<1> QED BY <1>0, <1>1, <1>2, <1>4, QuietCommits

\* A scan is quiet.
LEMMA ScanQuiet ==
  ASSUME Basic, NEW c \in Client, ScanStep(c)
  PROVE  QuietStep(c) /\ BoundOf(c)'
PROOF
<1>0. Types /\ PlaceOf(c) /\ RefsOf(c)
  BY DEF Basic, PlaceInv, RefsInv
<1>1. /\ Alone(c) /\ UNCHANGED <<sealed, visible, stage, grant, transaction_id, vertex_futex, compaction, committed>>
      /\ UNCHANGED <<edge_label_ptr, labels, blocks, freed, freedLabels>>
      /\ pc' \in [Client -> Place] /\ txn' \in [Client -> TxnRec]
      /\ scan' = [d \in Client |-> scan'[d]] /\ IsScan(scan'[c])
      /\ pc[c] \in InScan \cup {"open", "read"} /\ pc'[c] \in InScan \cup {"open", "read"}
      /\ Keeps(c)
      /\ scan'[c].ptr <= Len(blocks) /\ scan'[c].lb <= Len(labels)
  BY DEF ScanStep, epochsVars, store
<1>2. Open(c) /\ Open(c)' /\ Writer(c) /\ Writer(c)' /\ pc[c] # "install" /\ pc'[c] # "install"
      /\ pc'[c] \notin {"registered", "install", "clean", "leave", "scan", "lock", "compact"}
      /\ pc[c] \notin {"registered", "install", "clean", "leave", "scan", "lock", "compact"}
  BY <1>1 DEF Open, Writer, InScan
<1>3. QuietFor(c)
  BY <1>1, <1>2 DEF QuietFor, Keeps, Installing
<1>4. PlaceOf(c)'
  BY <1>0, <1>1, <1>2 DEF PlaceOf, Keeps, Bare
<1>5. RefsOf(c)'
  BY <1>0, <1>1, <1>2 DEF RefsOf, Keeps
<1>6. Holds(c)' => Holds(c)
  BY <1>1, <1>2 DEF Holds, Keeps
<1>7. LockInv'
  BY <1>1, <1>6, LockKept
<1>8. BoundOf(c)'
  BY <1>2 DEF BoundOf
<1>9. QuietStep(c)
  <2>1. UNCHANGED <<store, sealed, visible, committed>>
    BY <1>1 DEF store
  <2>2. transaction_id' \in Nat /\ transaction_id <= transaction_id' /\ stage' \in [Client -> {"idle", "queued", "granted"}] /\ compaction' \in [Client -> CompactionRec]
    BY <1>0, <1>1 DEF Types
  <2> QED BY <1>1, <1>3, <1>4, <1>5, <1>7, <2>1, <2>2 DEF QuietStep
<1> QED BY <1>8, <1>9

-----------------------------------------------------------------------------
(* Transactions *)

\* A transaction whose id changes.
LEMMA TxnPut_id ==
  ASSUME NEW t \in TxnRec, NEW x \in Nat
  PROVE  /\ [t EXCEPT !.id = x] \in TxnRec
         /\ [t EXCEPT !.id = x].id = x
         /\ [t EXCEPT !.id = x].read = t.read
         /\ [t EXCEPT !.id = x].ops = t.ops
         /\ [t EXCEPT !.id = x].locked = t.locked
         /\ [t EXCEPT !.id = x].ptrs = t.ptrs
         /\ [t EXCEPT !.id = x].tails = t.tails
         /\ [t EXCEPT !.id = x].stamps = t.stamps
         /\ [t EXCEPT !.id = x].own = t.own
         /\ [t EXCEPT !.id = x].epoch = t.epoch
         /\ [t EXCEPT !.id = x].mine = t.mine
BY DEF TxnRec

\* A transaction whose snapshot changes.
LEMMA TxnPut_read ==
  ASSUME NEW t \in TxnRec, NEW x \in Int
  PROVE  /\ [t EXCEPT !.read = x] \in TxnRec
         /\ [t EXCEPT !.read = x].read = x
         /\ [t EXCEPT !.read = x].id = t.id
         /\ [t EXCEPT !.read = x].ops = t.ops
         /\ [t EXCEPT !.read = x].locked = t.locked
         /\ [t EXCEPT !.read = x].ptrs = t.ptrs
         /\ [t EXCEPT !.read = x].tails = t.tails
         /\ [t EXCEPT !.read = x].stamps = t.stamps
         /\ [t EXCEPT !.read = x].own = t.own
         /\ [t EXCEPT !.read = x].epoch = t.epoch
         /\ [t EXCEPT !.read = x].mine = t.mine
BY DEF TxnRec

\* A transaction whose number of calls changes.
LEMMA TxnPut_ops ==
  ASSUME NEW t \in TxnRec, NEW x \in Nat
  PROVE  /\ [t EXCEPT !.ops = x] \in TxnRec
         /\ [t EXCEPT !.ops = x].ops = x
         /\ [t EXCEPT !.ops = x].id = t.id
         /\ [t EXCEPT !.ops = x].read = t.read
         /\ [t EXCEPT !.ops = x].locked = t.locked
         /\ [t EXCEPT !.ops = x].ptrs = t.ptrs
         /\ [t EXCEPT !.ops = x].tails = t.tails
         /\ [t EXCEPT !.ops = x].stamps = t.stamps
         /\ [t EXCEPT !.ops = x].own = t.own
         /\ [t EXCEPT !.ops = x].epoch = t.epoch
         /\ [t EXCEPT !.ops = x].mine = t.mine
BY DEF TxnRec

\* A transaction whose lock changes.
LEMMA TxnPut_locked ==
  ASSUME NEW t \in TxnRec, NEW x \in BOOLEAN
  PROVE  /\ [t EXCEPT !.locked = x] \in TxnRec
         /\ [t EXCEPT !.locked = x].locked = x
         /\ [t EXCEPT !.locked = x].id = t.id
         /\ [t EXCEPT !.locked = x].read = t.read
         /\ [t EXCEPT !.locked = x].ops = t.ops
         /\ [t EXCEPT !.locked = x].ptrs = t.ptrs
         /\ [t EXCEPT !.locked = x].tails = t.tails
         /\ [t EXCEPT !.locked = x].stamps = t.stamps
         /\ [t EXCEPT !.locked = x].own = t.own
         /\ [t EXCEPT !.locked = x].epoch = t.epoch
         /\ [t EXCEPT !.locked = x].mine = t.mine
BY DEF TxnRec

\* A transaction whose located blocks changes.
LEMMA TxnPut_ptrs ==
  ASSUME NEW t \in TxnRec, NEW x \in [Label -> Nat \cup {NoCache}]
  PROVE  /\ [t EXCEPT !.ptrs = x] \in TxnRec
         /\ [t EXCEPT !.ptrs = x].ptrs = x
         /\ [t EXCEPT !.ptrs = x].id = t.id
         /\ [t EXCEPT !.ptrs = x].read = t.read
         /\ [t EXCEPT !.ptrs = x].ops = t.ops
         /\ [t EXCEPT !.ptrs = x].locked = t.locked
         /\ [t EXCEPT !.ptrs = x].tails = t.tails
         /\ [t EXCEPT !.ptrs = x].stamps = t.stamps
         /\ [t EXCEPT !.ptrs = x].own = t.own
         /\ [t EXCEPT !.ptrs = x].epoch = t.epoch
         /\ [t EXCEPT !.ptrs = x].mine = t.mine
BY DEF TxnRec

\* A transaction whose tails changes.
LEMMA TxnPut_tails ==
  ASSUME NEW t \in TxnRec, NEW x \in [Pointer -> Nat \cup {NoTail}]
  PROVE  /\ [t EXCEPT !.tails = x] \in TxnRec
         /\ [t EXCEPT !.tails = x].tails = x
         /\ [t EXCEPT !.tails = x].id = t.id
         /\ [t EXCEPT !.tails = x].read = t.read
         /\ [t EXCEPT !.tails = x].ops = t.ops
         /\ [t EXCEPT !.tails = x].locked = t.locked
         /\ [t EXCEPT !.tails = x].ptrs = t.ptrs
         /\ [t EXCEPT !.tails = x].stamps = t.stamps
         /\ [t EXCEPT !.tails = x].own = t.own
         /\ [t EXCEPT !.tails = x].epoch = t.epoch
         /\ [t EXCEPT !.tails = x].mine = t.mine
BY DEF TxnRec

\* A transaction whose words to stamp changes.
LEMMA TxnPut_stamps ==
  ASSUME NEW t \in TxnRec, NEW x \in Seq(WordRec)
  PROVE  /\ [t EXCEPT !.stamps = x] \in TxnRec
         /\ [t EXCEPT !.stamps = x].stamps = x
         /\ [t EXCEPT !.stamps = x].id = t.id
         /\ [t EXCEPT !.stamps = x].read = t.read
         /\ [t EXCEPT !.stamps = x].ops = t.ops
         /\ [t EXCEPT !.stamps = x].locked = t.locked
         /\ [t EXCEPT !.stamps = x].ptrs = t.ptrs
         /\ [t EXCEPT !.stamps = x].tails = t.tails
         /\ [t EXCEPT !.stamps = x].own = t.own
         /\ [t EXCEPT !.stamps = x].epoch = t.epoch
         /\ [t EXCEPT !.stamps = x].mine = t.mine
BY DEF TxnRec

\* A transaction whose own blocks changes.
LEMMA TxnPut_own ==
  ASSUME NEW t \in TxnRec, NEW x \in SUBSET Nat
  PROVE  /\ [t EXCEPT !.own = x] \in TxnRec
         /\ [t EXCEPT !.own = x].own = x
         /\ [t EXCEPT !.own = x].id = t.id
         /\ [t EXCEPT !.own = x].read = t.read
         /\ [t EXCEPT !.own = x].ops = t.ops
         /\ [t EXCEPT !.own = x].locked = t.locked
         /\ [t EXCEPT !.own = x].ptrs = t.ptrs
         /\ [t EXCEPT !.own = x].tails = t.tails
         /\ [t EXCEPT !.own = x].stamps = t.stamps
         /\ [t EXCEPT !.own = x].epoch = t.epoch
         /\ [t EXCEPT !.own = x].mine = t.mine
BY DEF TxnRec

\* A transaction whose epoch changes.
LEMMA TxnPut_epoch ==
  ASSUME NEW t \in TxnRec, NEW x \in Nat
  PROVE  /\ [t EXCEPT !.epoch = x] \in TxnRec
         /\ [t EXCEPT !.epoch = x].epoch = x
         /\ [t EXCEPT !.epoch = x].id = t.id
         /\ [t EXCEPT !.epoch = x].read = t.read
         /\ [t EXCEPT !.epoch = x].ops = t.ops
         /\ [t EXCEPT !.epoch = x].locked = t.locked
         /\ [t EXCEPT !.epoch = x].ptrs = t.ptrs
         /\ [t EXCEPT !.epoch = x].tails = t.tails
         /\ [t EXCEPT !.epoch = x].stamps = t.stamps
         /\ [t EXCEPT !.epoch = x].own = t.own
         /\ [t EXCEPT !.epoch = x].mine = t.mine
BY DEF TxnRec

\* A transaction whose own writes changes.
LEMMA TxnPut_mine ==
  ASSUME NEW t \in TxnRec, NEW x \in [Label -> Writes]
  PROVE  /\ [t EXCEPT !.mine = x] \in TxnRec
         /\ [t EXCEPT !.mine = x].mine = x
         /\ [t EXCEPT !.mine = x].id = t.id
         /\ [t EXCEPT !.mine = x].read = t.read
         /\ [t EXCEPT !.mine = x].ops = t.ops
         /\ [t EXCEPT !.mine = x].locked = t.locked
         /\ [t EXCEPT !.mine = x].ptrs = t.ptrs
         /\ [t EXCEPT !.mine = x].tails = t.tails
         /\ [t EXCEPT !.mine = x].stamps = t.stamps
         /\ [t EXCEPT !.mine = x].own = t.own
         /\ [t EXCEPT !.mine = x].epoch = t.epoch
BY DEF TxnRec

-----------------------------------------------------------------------------
(* The calls and steps that are quiet *)

LEMMA NoTxnBare ==
  /\ Bare(NoTxn) /\ NoTxn \in TxnRec /\ NoTxn.read = -1 /\ NoTxn.locked = FALSE
  /\ \A id \in Nat, read \in Int :
       LET t == [NoTxn EXCEPT !.id = id, !.read = read] IN
       Bare(t) /\ t \in TxnRec /\ t.id = id /\ t.read = read /\ t.locked = FALSE
  /\ \A epoch \in Nat :
       LET t == [NoTxn EXCEPT !.epoch = epoch] IN
       Bare(t) /\ t \in TxnRec /\ t.read = -1 /\ t.locked = FALSE /\ t.epoch = epoch
PROOF
<1> DEFINE none == [l \in Label |-> [d \in {} |-> Absent]]
           ptrs == [l \in Label |-> NoCache]
           tails == [p \in Pointer |-> NoTail]
<1>1. none \in [Label -> Writes] /\ \A l \in Label : DOMAIN none[l] = {}
  <2>1. [d \in {} |-> Absent] \in [{} -> Int]
    OBVIOUS
  <2>2. {} \in SUBSET AllDst
    OBVIOUS
  <2>3. [d \in {} |-> Absent] \in Writes
    BY <2>1, <2>2 DEF Writes
  <2>4. DOMAIN [d \in {} |-> Absent] = {}
    OBVIOUS
  <2> QED BY <2>3, <2>4
<1>2. ptrs \in [Label -> Nat \cup {NoCache}] /\ \A l \in Label : ptrs[l] = NoCache
  OBVIOUS
<1>3. tails \in [Pointer -> Nat \cup {NoTail}] /\ \A p \in Pointer : tails[p] = NoTail
  OBVIOUS
<1>4. <<>> \in Seq(WordRec) /\ {} \in SUBSET Nat /\ FALSE \in BOOLEAN
  OBVIOUS
<1>5. NoTxn = [id |-> 0, read |-> -1, ops |-> 0, locked |-> FALSE, ptrs |-> ptrs, tails |-> tails,
               stamps |-> <<>>, own |-> {}, epoch |-> 0, mine |-> none]
  BY DEF NoTxn
<1> HIDE DEF none, ptrs, tails
<1>6. Bare(NoTxn) /\ NoTxn \in TxnRec /\ NoTxn.read = -1 /\ NoTxn.locked = FALSE
  <2>1. NoTxn \in TxnRec
    BY <1>1, <1>2, <1>3, <1>4, <1>5 DEF TxnRec
  <2>2. Bare(NoTxn)
    BY <1>1, <1>2, <1>3, <1>5 DEF Bare
  <2>3. NoTxn.read = -1 /\ NoTxn.locked = FALSE
    BY <1>5
  <2> QED BY <2>1, <2>2, <2>3
<1>7. ASSUME NEW id \in Nat, NEW read \in Int
      PROVE  LET t == [NoTxn EXCEPT !.id = id, !.read = read] IN
             Bare(t) /\ t \in TxnRec /\ t.id = id /\ t.read = read /\ t.locked = FALSE
  <2> DEFINE t1 == [NoTxn EXCEPT !.id = id]
             t2 == [t1 EXCEPT !.read = read]
  <2>1. t1 \in TxnRec /\ t1.id = id /\ t1.locked = NoTxn.locked /\ t1.ptrs = NoTxn.ptrs /\ t1.mine = NoTxn.mine
        /\ t1.tails = NoTxn.tails /\ t1.stamps = NoTxn.stamps /\ t1.own = NoTxn.own
    BY <1>6, TxnPut_id
  <2> HIDE DEF t1
  <2>2. t2 \in TxnRec /\ t2.id = t1.id /\ t2.read = read /\ t2.locked = t1.locked /\ t2.ptrs = t1.ptrs /\ t2.mine = t1.mine
        /\ t2.tails = t1.tails /\ t2.stamps = t1.stamps /\ t2.own = t1.own
    BY <2>1, TxnPut_read
  <2> HIDE DEF t2
  <2>3. Bare(t2) /\ t2 \in TxnRec /\ t2.id = id /\ t2.read = read /\ t2.locked = FALSE
    BY <1>6, <2>1, <2>2 DEF Bare
  <2> QED BY <2>3 DEF t1, t2
<1>8. ASSUME NEW epoch \in Nat
      PROVE  LET t == [NoTxn EXCEPT !.epoch = epoch] IN
             Bare(t) /\ t \in TxnRec /\ t.read = -1 /\ t.locked = FALSE /\ t.epoch = epoch
  <2> DEFINE t == [NoTxn EXCEPT !.epoch = epoch]
  <2>1. t \in TxnRec /\ t.epoch = epoch /\ t.read = NoTxn.read /\ t.locked = NoTxn.locked /\ t.ptrs = NoTxn.ptrs
        /\ t.mine = NoTxn.mine /\ t.tails = NoTxn.tails /\ t.stamps = NoTxn.stamps /\ t.own = NoTxn.own
    BY <1>6, TxnPut_epoch
  <2> HIDE DEF t
  <2>2. Bare(t) /\ t \in TxnRec /\ t.read = -1 /\ t.locked = FALSE /\ t.epoch = epoch
    BY <1>6, <2>1 DEF Bare
  <2> QED BY <2>2 DEF t
<1> QED BY <1>6, <1>7, <1>8

\* A step of one client that goes to a place and leaves its transaction and its compaction as t and r.
LEMMA MoveStep ==
  ASSUME Basic, NEW c \in Client, NEW place \in Place, NEW t \in TxnRec, NEW r \in CompactionRec,
         pc' = [pc EXCEPT ![c] = place], txn' = [txn EXCEPT ![c] = t], compaction' = [compaction EXCEPT ![c] = r],
         scan' = scan, \A d \in Client \ {c} : stage'[d] = stage[d]
  PROVE  /\ Alone(c) /\ pc' \in [Client -> Place] /\ txn' \in [Client -> TxnRec] /\ compaction' \in [Client -> CompactionRec]
         /\ pc'[c] = place /\ txn'[c] = t /\ compaction'[c] = r
         /\ scan' = [d \in Client |-> scan'[d]] /\ IsScan(scan'[c])
         /\ scan'[c].ptr <= Len(blocks) /\ scan'[c].lb <= Len(labels)
PROOF
<1>1. pc \in [Client -> Place] /\ txn \in [Client -> TxnRec] /\ compaction \in [Client -> CompactionRec]
      /\ scan = [d \in Client |-> scan[d]] /\ IsScan(scan[c])
  BY DEF Basic, Types
<1>2. pc' \in [Client -> Place] /\ pc'[c] = place /\ \A d \in Client \ {c} : pc'[d] = pc[d]
  BY <1>1
<1>3. txn' \in [Client -> TxnRec] /\ txn'[c] = t /\ \A d \in Client \ {c} : txn'[d] = txn[d]
  BY <1>1
<1>4. compaction' \in [Client -> CompactionRec] /\ compaction'[c] = r /\ \A d \in Client \ {c} : compaction'[d] = compaction[d]
  BY <1>1
<1>5. scan'[c].ptr <= Len(blocks) /\ scan'[c].lb <= Len(labels)
  BY DEF Basic, RefsInv, RefsOf
<1>6. Alone(c)
  BY <1>2, <1>3, <1>4 DEF Alone, Same
<1> QED BY <1>1, <1>2, <1>3, <1>4, <1>5, <1>6

\* The step is quiet if the client has no more than it had.
LEMMA MoveQuiet ==
  ASSUME Basic, NEW c \in Client, NEW place \in Place, NEW t \in TxnRec, NEW r \in CompactionRec,
         pc' = [pc EXCEPT ![c] = place], txn' = [txn EXCEPT ![c] = t], compaction' = [compaction EXCEPT ![c] = r],
         scan' = scan, \A d \in Client \ {c} : stage'[d] = stage[d],
         UNCHANGED <<store, sealed, visible, committed>>,
         transaction_id' \in Nat, transaction_id <= transaction_id', stage' \in [Client -> {"idle", "queued", "granted"}],
         place # "install", place # "compact", ~Installing(c), Bare(t) \/ (t = txn[c] /\ (Open(c) \/ ~Open(c)')),
         t.read \in {txn[c].read, visible, -1}, PlaceOf(c)', LockInv'
  PROVE  QuietStep(c)
PROOF
<1>0. RefsOf(c) /\ UNCHANGED <<blocks, labels, edge_label_ptr>> /\ txn[c].read \in Int
  BY TxnFields DEF Basic, RefsInv, store
<1>1. /\ Alone(c) /\ pc' \in [Client -> Place] /\ txn' \in [Client -> TxnRec] /\ compaction' \in [Client -> CompactionRec]
      /\ pc'[c] = place /\ txn'[c] = t /\ compaction'[c] = r
      /\ scan' = [d \in Client |-> scan'[d]] /\ IsScan(scan'[c])
      /\ scan'[c].ptr <= Len(blocks) /\ scan'[c].lb <= Len(labels)
  BY MoveStep
<1>2. Keeps(c) \/ Bare(txn'[c])
  BY <1>1 DEF Keeps
<1>3. Writer(c)' => Open(c)'
  BY <1>1 DEF Writer
<1>4. QuietFor(c)
  <2>1. ~Installing(c)' /\ pc'[c] # "install"
    BY <1>1 DEF Installing
  <2>2. Open(c)' => (Open(c) /\ Keeps(c)) \/ Bare(txn'[c])
    BY <1>1, <1>2 DEF Keeps
  <2>3. txn'[c].read \in {txn[c].read, visible, -1}
    BY <1>1
  <2> QED BY <2>1, <2>2, <2>3 DEF QuietFor
<1>5. RefsOf(c)'
  <2>1. pc'[c] # "compact" /\ pc'[c] # "install"
    BY <1>1
  <2>2. ASSUME Writer(c)'
      PROVE  (/\ \A l \in Label : txn[c].ptrs[l] <= Len(blocks)
              /\ \A p \in Pointer : txn[c].tails[p] # NoTail =>
                   p \in DOMAIN blocks /\ txn[c].tails[p] <= Len(blocks[p].entries)
              /\ txn[c].own \subseteq DOMAIN blocks
              /\ \A w \in Members(txn[c].stamps) :
                   /\ w.field = "label" => w.p \in DOMAIN labels
                   /\ w.field # "label" => w.p \in DOMAIN blocks
                   /\ w.field \in {"creation", "deletion"} => w.i \in DOMAIN blocks[w.p].entries
                   /\ w.field = "block" => w.p \in txn[c].own
                   /\ w.field = "committed" => pc[c] = "install")'
    <3>1. CASE Bare(t)
      <4>1. (\A l \in Label : txn[c].ptrs[l] <= Len(blocks))'
        <5>1. Len(blocks) \in Nat
          BY DEF Basic, Types
        <5> QED BY <1>0, <1>1, <3>1, <5>1 DEF Bare
      <4>2. Members(txn'[c].stamps) = {} /\ txn'[c].own = {} /\ \A p \in Pointer : txn'[c].tails[p] = NoTail
        BY <1>1, <3>1 DEF Bare, Members
      <4>3. (\A w \in Members(txn[c].stamps) : FALSE)'
        BY <4>2
      <4>4. (txn[c].own \subseteq DOMAIN blocks)'
        BY <4>2
      <4>5. (\A p \in Pointer : txn[c].tails[p] # NoTail =>
              p \in DOMAIN blocks /\ txn[c].tails[p] <= Len(blocks[p].entries))'
        BY <4>2
      <4>6. (\A w \in Members(txn[c].stamps) :
                   /\ w.field = "label" => w.p \in DOMAIN labels
                   /\ w.field # "label" => w.p \in DOMAIN blocks
                   /\ w.field \in {"creation", "deletion"} => w.i \in DOMAIN blocks[w.p].entries
                   /\ w.field = "block" => w.p \in txn[c].own
                   /\ w.field = "committed" => pc[c] = "install")'
        BY <4>3
      <4> QED BY <4>1, <4>4, <4>5, <4>6
    <3>2. CASE t = txn[c] /\ Open(c)
      <4>1. Writer(c) /\ pc[c] # "install"
        BY <3>2 DEF Writer, Open, InScan
      <4> QED BY <1>0, <1>1, <3>2, <4>1 DEF RefsOf
    <3> QED BY <1>3, <2>2, <3>1, <3>2
  <2>3. (scan[c].ptr <= Len(blocks) /\ scan[c].lb <= Len(labels))'
    BY <1>0, <1>1
  <2> QED BY <2>1, <2>2, <2>3 DEF RefsOf
<1> QED BY <1>1, <1>4, <1>5 DEF QuietStep

LEMMA BeginQuiet ==
  ASSUME Basic, NEW c \in Client, Begin(c)
  PROVE  QuietStep(c) /\ BoundOf(c)'
PROOF
<1> DEFINE id == IF c \in ReadOnly THEN ROLLBACK_TOMBSTONE - 1 ELSE transaction_id + 1
           t == [NoTxn EXCEPT !.id = id, !.read = visible]
           r1 == [compaction[c] EXCEPT !.bound = id]
           r2 == [r1 EXCEPT !.resume = "open"]
<1>0. Types /\ PlaceOf(c) /\ txn[c] \in TxnRec /\ pc[c] = "idle" /\ pc \in [Client -> Place] /\ visible \in Nat
      /\ stage \in [Client -> {"idle", "queued", "granted"}] /\ compaction \in [Client -> CompactionRec]
  BY DEF Basic, PlaceInv, Types, Begin, EpochInv
<1>1. id \in Nat
  BY <1>0 DEF Types
<1>2. /\ txn' = [txn EXCEPT ![c] = t]
      /\ transaction_id' = IF c \in ReadOnly THEN transaction_id ELSE id
      /\ UNCHANGED <<sealed, visible, stage, grant, vertex_futex, store, scan, committed>>
  BY DEF Begin, SetTxn, epochsVars
<1>3. \/ pc' = [pc EXCEPT ![c] = "scan"] /\ compaction' = [compaction EXCEPT ![c].bound = id, ![c].resume = "open"]
      \/ pc' = [pc EXCEPT ![c] = "open"] /\ compaction' = compaction
  BY DEF Begin, Goto
<1>31. transaction_id' \in Nat /\ transaction_id <= transaction_id' /\ (c \notin ReadOnly => id \in 1 .. transaction_id')
  <2>1. transaction_id \in Nat
    BY <1>0 DEF Types
  <2> QED BY <1>2, <2>1
<1> HIDE DEF id
<1>4. Bare(t) /\ t \in TxnRec /\ t.id = id /\ t.read = visible /\ t.locked = FALSE
  <2>1. visible \in Int
    BY <1>0
  <2>2. \A i \in Nat, read \in Int :
          LET u == [NoTxn EXCEPT !.id = i, !.read = read] IN
          Bare(u) /\ u \in TxnRec /\ u.id = i /\ u.read = read /\ u.locked = FALSE
    BY NoTxnBare
  <2> QED BY <1>1, <2>1, <2>2
<1> HIDE DEF t
<1>5. PICK place \in {"scan", "open"}, r \in CompactionRec :
        pc' = [pc EXCEPT ![c] = place] /\ compaction' = [compaction EXCEPT ![c] = r]
  <2>1. r2 \in CompactionRec /\ compaction[c] \in CompactionRec
    BY <1>0, <1>1 DEF CompactionRec
  <2>2. [compaction EXCEPT ![c] = compaction[c]] = compaction
    BY <1>0
  <2>3. [compaction EXCEPT ![c].bound = id, ![c].resume = "open"] = [compaction EXCEPT ![c] = r2]
    BY <1>0
  <2> HIDE DEF r2
  <2>4. CASE pc' = [pc EXCEPT ![c] = "scan"] /\ compaction' = [compaction EXCEPT ![c].bound = id, ![c].resume = "open"]
    BY <2>1, <2>3, <2>4
  <2>5. CASE pc' = [pc EXCEPT ![c] = "open"] /\ compaction' = compaction
    BY <2>1, <2>2, <2>5
  <2> QED BY <1>3, <2>4, <2>5
<1>6. place \in Place /\ place # "install" /\ place # "compact"
  BY DEF Place
<1>7. \A d \in Client \ {c} : stage'[d] = stage[d]
  BY <1>2
<1>8. Alone(c) /\ pc'[c] = place /\ txn'[c] = t /\ compaction'[c] = r
  BY <1>2, <1>4, <1>5, <1>6, <1>7, MoveStep
<1>9. PlaceOf(c)'
  BY <1>0, <1>2, <1>31, <1>4, <1>8 DEF PlaceOf
<1>10. LockInv'
  <2>1. ~Holds(c)'
    BY <1>4, <1>6, <1>8 DEF Holds
  <2> QED BY <1>2, <1>8, <2>1, LockKept
<1>11. ~Installing(c)
  BY <1>0 DEF Installing
<1>12. transaction_id' \in Nat /\ transaction_id <= transaction_id' /\ stage' \in [Client -> {"idle", "queued", "granted"}]
  BY <1>0, <1>2, <1>31 DEF Types
<1>13. UNCHANGED <<store, sealed, visible, committed>>
  BY <1>2
<1>14. t.read \in {txn[c].read, visible, -1}
  BY <1>4
<1>15. QuietStep(c)
  BY <1>2, <1>4, <1>5, <1>6, <1>7, <1>9, <1>10, <1>11, <1>12, <1>13, <1>14, MoveQuiet
<1>16. BoundOf(c)'
  BY <1>0, <1>4, <1>8 DEF BoundOf, Active
<1> QED BY <1>15, <1>16

\* A step that leaves the transactions and their places in read_epoch_table alone.
LEMMA TurnQuiet ==
  ASSUME Basic, NEW c \in Client, NEW place \in Place, NEW r \in CompactionRec,
         pc' = [pc EXCEPT ![c] = place], compaction' = [compaction EXCEPT ![c] = r],
         UNCHANGED <<txn, scan, store, sealed, visible, committed, transaction_id>>,
         stage' \in [Client -> {"idle", "queued", "granted"}], \A d \in Client \ {c} : stage'[d] = stage[d],
         place # "install", place # "compact", ~Installing(c), Bare(txn[c]) \/ Open(c) \/ ~Open(c)',
         PlaceOf(c)', LockInv'
  PROVE  QuietStep(c)
PROOF
<1>1. txn[c] \in TxnRec /\ txn \in [Client -> TxnRec] /\ transaction_id \in Nat
  BY DEF Basic, Types
<1>2. txn' = [txn EXCEPT ![c] = txn[c]]
  BY <1>1
<1>3. transaction_id' \in Nat /\ transaction_id <= transaction_id'
  BY <1>1
<1>4. scan' = scan /\ UNCHANGED <<store, sealed, visible, committed>>
  OBVIOUS
<1>5. txn[c].read \in {txn[c].read, visible, -1}
  OBVIOUS
<1> QED BY <1>1, <1>2, <1>3, <1>4, <1>5, MoveQuiet

LEMMA CommitQuiet ==
  ASSUME Basic, NEW c \in Client, Commit(c)
  PROVE  QuietStep(c) /\ BoundOf(c)'
PROOF
<1>0. Types /\ PlaceOf(c) /\ pc \in [Client -> Place] /\ compaction \in [Client -> CompactionRec]
      /\ stage \in [Client -> {"idle", "queued", "granted"}] /\ pc[c] = "open" /\ c \notin ReadOnly
  BY DEF Basic, PlaceInv, Types, Commit
<1>1. /\ pc' = [pc EXCEPT ![c] = "registered"] /\ stage' = [stage EXCEPT ![c] = "queued"]
      /\ UNCHANGED <<txn, scan, store, sealed, visible, committed, transaction_id, vertex_futex, compaction>>
  BY DEF Commit, Goto, Ask
<1>2. compaction' = [compaction EXCEPT ![c] = compaction[c]] /\ compaction[c] \in CompactionRec
  BY <1>0, <1>1
<1>3. "registered" \in Place
  BY DEF Place
<1>4. stage' \in [Client -> {"idle", "queued", "granted"}] /\ \A d \in Client \ {c} : stage'[d] = stage[d]
  BY <1>0, <1>1
<1>5. pc'[c] = "registered" /\ \A d \in Client \ {c} : pc'[d] = pc[d]
  BY <1>0, <1>1
<1>6. Alone(c)
  BY <1>1, <1>4, <1>5 DEF Alone, Same
<1>7. Open(c) /\ Open(c)' /\ Writer(c) /\ Writer(c)'
  BY <1>0, <1>5 DEF Open, Writer
<1>8. PlaceOf(c)'
  BY <1>0, <1>1, <1>5, <1>7 DEF PlaceOf, Bare
<1>9. LockInv'
  <2>1. Holds(c)' => Holds(c)
    BY <1>0, <1>1, <1>5, <1>7 DEF Holds
  <2> QED BY <1>1, <1>6, <2>1, LockKept
<1>10. ~Installing(c)
  BY <1>0 DEF Installing
<1>11. "registered" # "install" /\ "registered" # "compact"
  OBVIOUS
<1>12. QuietStep(c)
  BY <1>1, <1>2, <1>3, <1>4, <1>7, <1>8, <1>9, <1>10, <1>11, TurnQuiet
<1> QED BY <1>5, <1>12 DEF BoundOf

LEMMA FinishQuiet ==
  ASSUME Basic, NEW c \in Client, (\E wait \in BOOLEAN : FinishCommit(c, wait)) \/ Spin(c)
  PROVE  QuietStep(c) /\ BoundOf(c)'
PROOF
<1>0. Types /\ PlaceOf(c) /\ pc \in [Client -> Place] /\ compaction \in [Client -> CompactionRec]
      /\ stage \in [Client -> {"idle", "queued", "granted"}] /\ pc[c] \in {"finish", "spin"}
  BY DEF Basic, PlaceInv, Types, FinishCommit, Spin
<1>1. PICK place \in {"spin", "idle"} :
        /\ pc' = [pc EXCEPT ![c] = place] /\ (stage' = [stage EXCEPT ![c] = "idle"] \/ stage' = stage)
        /\ UNCHANGED <<txn, scan, store, sealed, visible, committed, transaction_id, vertex_futex, compaction>>
  BY DEF FinishCommit, Spin, Goto, Finish, epochsVars
<1>2. compaction' = [compaction EXCEPT ![c] = compaction[c]] /\ compaction[c] \in CompactionRec
  BY <1>0, <1>1
<1>3. place \in Place /\ place # "install" /\ place # "compact"
  BY DEF Place
<1>4. /\ stage' \in [Client -> {"idle", "queued", "granted"}] /\ \A d \in Client \ {c} : stage'[d] = stage[d]
      /\ stage'[c] \in {"idle", stage[c]}
  BY <1>0, <1>1
<1>5. pc'[c] = place /\ \A d \in Client \ {c} : pc'[d] = pc[d]
  BY <1>0, <1>1
<1>6. Alone(c)
  BY <1>1, <1>4, <1>5 DEF Alone, Same
<1>7. ~Open(c)' /\ ~Writer(c)' /\ ~Writer(c)
  BY <1>0, <1>5 DEF Open, Writer, InScan
<1>8. PlaceOf(c)'
  BY <1>0, <1>1, <1>4, <1>5, <1>7 DEF PlaceOf, Bare
<1>9. LockInv'
  <2>1. Holds(c)' => Holds(c)
    BY <1>5, <1>7 DEF Holds
  <2> QED BY <1>1, <1>6, <2>1, LockKept
<1>10. ~Installing(c)
  BY <1>0 DEF Installing
<1>11. QuietStep(c)
  BY <1>1, <1>2, <1>3, <1>4, <1>7, <1>8, <1>9, <1>10, TurnQuiet
<1> QED BY <1>5, <1>11 DEF BoundOf

LEMMA LeaveQuiet ==
  ASSUME Basic, NEW c \in Client, Leave(c)
  PROVE  QuietStep(c) /\ BoundOf(c)'
PROOF
<1> DEFINE t == [NoTxn EXCEPT !.epoch = txn[c].epoch]
<1>0. Types /\ PlaceOf(c) /\ pc \in [Client -> Place] /\ compaction \in [Client -> CompactionRec] /\ visible \in Nat
      /\ stage \in [Client -> {"idle", "queued", "granted"}] /\ pc[c] = "leave" /\ txn[c].epoch \in Nat
  BY TxnFields DEF Basic, PlaceInv, Types, Leave, EpochInv
<1>1. PICK place \in {"finish", "idle"} :
        /\ pc' = [pc EXCEPT ![c] = place] /\ txn' = [txn EXCEPT ![c] = t] /\ stage' = stage
        /\ UNCHANGED <<scan, store, sealed, visible, committed, transaction_id, vertex_futex, compaction>>
  BY DEF Leave, Goto, SetTxn, epochsVars
<1>2. Bare(t) /\ t \in TxnRec /\ t.read = -1 /\ t.locked = FALSE
  BY <1>0, NoTxnBare
<1> HIDE DEF t
<1>3. compaction' = [compaction EXCEPT ![c] = compaction[c]] /\ compaction[c] \in CompactionRec
  BY <1>0, <1>1
<1>4. place \in Place /\ place # "install" /\ place # "compact"
  BY DEF Place
<1>5. stage' \in [Client -> {"idle", "queued", "granted"}] /\ \A d \in Client \ {c} : stage'[d] = stage[d]
  BY <1>0, <1>1
<1>6. Alone(c) /\ pc'[c] = place /\ txn'[c] = t
  BY <1>1, <1>2, <1>3, <1>4, <1>5, MoveStep
<1>7. PlaceOf(c)'
  BY <1>0, <1>1, <1>2, <1>6 DEF PlaceOf, Open, InScan
<1>8. LockInv'
  <2>1. Holds(c)' => Holds(c)
    BY <1>2, <1>6 DEF Holds
  <2> QED BY <1>1, <1>6, <2>1, LockKept
<1>9. ~Installing(c)
  BY <1>0 DEF Installing
<1>10. UNCHANGED <<store, sealed, visible, committed>> /\ scan' = scan /\ transaction_id' \in Nat /\ transaction_id <= transaction_id'
  BY <1>0, <1>1 DEF Types
<1>11. t.read \in {txn[c].read, visible, -1}
  BY <1>2
<1>12. QuietStep(c)
  BY <1>1, <1>2, <1>3, <1>4, <1>5, <1>7, <1>8, <1>9, <1>10, <1>11, MoveQuiet
<1> QED BY <1>6, <1>12 DEF BoundOf

\* Clean, but where what is written is committed.
LEMMA CleanQuiet ==
  ASSUME Basic, NEW c \in Client, Clean(c), ~Installing(c)
  PROVE  QuietStep(c) /\ BoundOf(c)'
PROOF
<1>0. Types /\ PlaceOf(c) /\ pc \in [Client -> Place] /\ compaction \in [Client -> CompactionRec]
      /\ stage \in [Client -> {"idle", "queued", "granted"}] /\ pc[c] \in {"clean", "install"}
  BY DEF Basic, PlaceInv, Types, Clean
<1>1. /\ pc' = [pc EXCEPT ![c] = "leave"] /\ stage' = stage
      /\ vertex_futex' = IF txn[c].locked THEN 0 ELSE vertex_futex
      /\ UNCHANGED <<txn, scan, store, sealed, visible, committed, transaction_id, compaction>>
  BY DEF Clean, Goto, epochsVars
<1>2. compaction' = [compaction EXCEPT ![c] = compaction[c]] /\ compaction[c] \in CompactionRec
  BY <1>0, <1>1
<1>3. "leave" \in Place
  BY DEF Place
<1>4. stage' \in [Client -> {"idle", "queued", "granted"}] /\ \A d \in Client \ {c} : stage'[d] = stage[d]
  BY <1>0, <1>1
<1>5. pc'[c] = "leave" /\ \A d \in Client \ {c} : pc'[d] = pc[d]
  BY <1>0, <1>1
<1>6. Alone(c)
  BY <1>1, <1>4, <1>5 DEF Alone, Same
<1>7. ~Open(c)' /\ ~Writer(c)' /\ ~Holds(c)'
  BY <1>5 DEF Open, Writer, InScan, Holds
<1>8. PlaceOf(c)'
  BY <1>0, <1>1, <1>5, <1>7 DEF PlaceOf, Bare, Open
<1>9. LockInv'
  <2>1. CASE txn[c].locked
    <3>1. Holds(c)
      BY <1>0, <2>1 DEF Holds, Writer
    <3> QED BY <1>1, <1>6, <1>7, <2>1, <3>1, LockFreed
  <2>2. CASE ~txn[c].locked
    BY <1>1, <1>6, <1>7, <2>2, LockKept
  <2> QED BY <2>1, <2>2
<1>10. "leave" # "install" /\ "leave" # "compact"
  OBVIOUS
<1>11. QuietStep(c)
  BY <1>1, <1>2, <1>3, <1>4, <1>7, <1>8, <1>9, <1>10, TurnQuiet
<1> QED BY <1>5, <1>11 DEF BoundOf

LEMMA NoCompactionType == NoCompaction \in CompactionRec /\ NoCompaction.bound = 0 /\ NoCompaction.resume = "idle"
BY DEF NoCompaction, CompactionRec

LEMMA CompactQuiet ==
  ASSUME Basic, NEW c \in Client, Compact(c)
  PROVE  QuietStep(c) /\ BoundOf(c)'
PROOF
<1> DEFINE r == [NoCompaction EXCEPT !.bound = visible]
<1>0. Types /\ PlaceOf(c) /\ pc \in [Client -> Place] /\ compaction \in [Client -> CompactionRec] /\ visible \in Nat
      /\ stage \in [Client -> {"idle", "queued", "granted"}] /\ pc[c] = "idle" /\ transaction_id \in Nat
  BY DEF Basic, PlaceInv, Types, Compact, EpochInv
<1>1. /\ pc' = [pc EXCEPT ![c] = "scan"] /\ compaction' = [compaction EXCEPT ![c] = r] /\ stage' = stage
      /\ UNCHANGED <<txn, scan, store, sealed, visible, committed, transaction_id, vertex_futex>>
  BY DEF Compact, Compacting, Goto, epochsVars
<1>2. r \in CompactionRec /\ r.bound = visible /\ r.resume = "idle"
  BY <1>0, NoCompactionType DEF CompactionRec
<1> HIDE DEF r
<1>3. "scan" \in Place /\ "scan" # "install" /\ "scan" # "compact"
  BY DEF Place
<1>4. stage' \in [Client -> {"idle", "queued", "granted"}] /\ \A d \in Client \ {c} : stage'[d] = stage[d]
  BY <1>0, <1>1
<1>5. pc'[c] = "scan" /\ compaction'[c] = r /\ \A d \in Client \ {c} : pc'[d] = pc[d] /\ compaction'[d] = compaction[d]
  BY <1>0, <1>1
<1>6. Alone(c)
  BY <1>1, <1>4, <1>5 DEF Alone, Same
<1>7. ~Open(c)' /\ ~Writer(c)' /\ ~Holds(c)' /\ ~Writer(c)
  BY <1>0, <1>5 DEF Open, Writer, InScan, Holds
<1>8. PlaceOf(c)'
  BY <1>0, <1>1, <1>2, <1>5, <1>7 DEF PlaceOf, Bare, Open
<1>9. LockInv'
  BY <1>1, <1>6, <1>7, LockKept
<1>10. ~Installing(c)
  BY <1>0 DEF Installing
<1>11. QuietStep(c)
  BY <1>1, <1>2, <1>3, <1>4, <1>7, <1>8, <1>9, <1>10, TurnQuiet
<1>12. (compaction[c].bound <= visible)'
  BY <1>0, <1>1, <1>2, <1>5
<1> QED BY <1>5, <1>11, <1>12 DEF BoundOf

\* From the scan on, the bound is in every snapshot.
LEMMA ScanTableQuiet ==
  ASSUME Basic, CommitsInv, NEW c \in Client, ScanTable(c)
  PROVE  QuietStep(c) /\ BoundOf(c)'
PROOF
<1> DEFINE S == Snapshots \cup {compaction[c].bound}
           b == CHOOSE e \in S : \A f \in S : e <= f
           r == [compaction[c] EXCEPT !.bound = b]
           place == IF compact_table[c] THEN "lock" ELSE compaction[c].resume
<1>0. Types /\ PlaceOf(c) /\ pc \in [Client -> Place] /\ compaction \in [Client -> CompactionRec] /\ visible \in Nat
      /\ stage \in [Client -> {"idle", "queued", "granted"}] /\ pc[c] = "scan" /\ transaction_id \in Nat
      /\ compaction[c] \in CompactionRec /\ PlaceInv
  BY DEF Basic, PlaceInv, Types, ScanTable, EpochInv
<1>1. BoundOf(c)
  BY DEF CommitsInv, BoundInv
<1>2. /\ pc' = [pc EXCEPT ![c] = place] /\ compaction' = [compaction EXCEPT ![c] = r] /\ stage' = stage
      /\ UNCHANGED <<txn, scan, store, sealed, visible, committed, transaction_id, vertex_futex>>
  BY DEF ScanTable, Compacting, Goto, epochsVars
<1>3. \A d \in Client : txn[d].read \in -1 .. visible
  BY <1>0 DEF PlaceInv, PlaceOf
<1>4. S \subseteq Nat /\ compaction[c].bound \in S
  <2>1. compaction[c].bound \in Nat
    BY <1>0 DEF CompactionRec
  <2> QED BY <1>0, <1>3, <2>1 DEF Snapshots
<1> HIDE DEF S
<1>5. PICK e \in S : \A f \in S : e <= f
  BY <1>4, Least
<1>6. b \in S /\ \A f \in S : b <= f
  BY <1>5
<1> HIDE DEF b
<1>7. b \in Nat /\ b <= visible /\ \A d \in Client : txn[d].read # -1 => b <= txn[d].read
  <2>1. b \in Nat
    BY <1>4, <1>6
  <2>2. \A d \in Client : txn[d].read # -1 => txn[d].read \in S
    BY DEF S, Snapshots
  <2>3. \A d \in Client : txn[d].read # -1 => b <= txn[d].read
    BY <1>6, <2>2
  <2>4. CASE compaction[c].bound <= visible
    <3>1. b <= compaction[c].bound /\ compaction[c].bound \in Nat
      BY <1>4, <1>6
    <3> QED BY <1>0, <2>1, <2>3, <2>4, <3>1
  <2>5. CASE Active(c)
    <3>1. b <= txn[c].read /\ txn[c].read \in -1 .. visible
      BY <1>3, <2>3, <2>5 DEF Active
    <3> QED BY <1>0, <2>1, <2>3, <3>1
  <2> QED BY <1>0, <1>1, <2>4, <2>5 DEF BoundOf
<1>8. r \in CompactionRec /\ r.bound = b /\ r.resume = compaction[c].resume
  BY <1>0, <1>7 DEF CompactionRec
<1>9. place \in {"lock", "idle", "open"} /\ (place = "open" => compaction[c].resume = "open")
  BY <1>0 DEF CompactionRec
<1> HIDE DEF r, place
<1>10. place \in Place /\ place # "install" /\ place # "compact" /\ place # "scan"
  BY <1>9 DEF Place
<1>11. stage' \in [Client -> {"idle", "queued", "granted"}] /\ \A d \in Client \ {c} : stage'[d] = stage[d]
  BY <1>0, <1>2
<1>12. pc'[c] = place /\ compaction'[c] = r /\ \A d \in Client \ {c} : pc'[d] = pc[d] /\ compaction'[d] = compaction[d]
  BY <1>0, <1>2
<1>13. Alone(c)
  BY <1>2, <1>11, <1>12 DEF Alone, Same
<1>14. ~Writer(c) /\ ~txn[c].locked /\ Bare(txn[c])
  <2>1. ~Writer(c)
    BY <1>0 DEF Open, Writer, InScan
  <2> QED BY <1>0, <2>1 DEF PlaceOf
<1>15. ~Holds(c)'
  BY <1>2, <1>10, <1>12, <1>14 DEF Holds
<1>16. PlaceOf(c)'
  BY <1>0, <1>2, <1>8, <1>9, <1>12, <1>14 DEF PlaceOf, Bare, Open, InScan
<1>17. LockInv'
  BY <1>2, <1>13, <1>15, LockKept
<1>18. ~Installing(c)
  BY <1>0 DEF Installing
<1>19. QuietStep(c)
  BY <1>2, <1>8, <1>10, <1>11, <1>14, <1>16, <1>17, <1>18, TurnQuiet
<1>20. (Old(compaction[c].bound))'
  <2>1. compaction'[c].bound = b /\ visible' = visible /\ txn' = txn
    BY <1>2, <1>8, <1>12
  <2> QED BY <1>7, <2>1 DEF Old, Active
<1> QED BY <1>10, <1>12, <1>19, <1>20 DEF BoundOf

LEMMA CompactedQuiet ==
  ASSUME Basic, NEW c \in Client, CompactSkip(c) \/ Compacted(c)
  PROVE  QuietStep(c) /\ BoundOf(c)'
PROOF
<1> DEFINE place == compaction[c].resume
<1>0. Types /\ PlaceOf(c) /\ pc \in [Client -> Place] /\ compaction \in [Client -> CompactionRec]
      /\ stage \in [Client -> {"idle", "queued", "granted"}] /\ pc[c] \in {"lock", "compact"} /\ transaction_id \in Nat
      /\ compaction[c] \in CompactionRec
  BY DEF Basic, PlaceInv, Types, CompactSkip, Compacted
<1>1. /\ pc' = [pc EXCEPT ![c] = place] /\ compaction' = [compaction EXCEPT ![c] = NoCompaction] /\ stage' = stage
      /\ UNCHANGED <<txn, scan, store, sealed, visible, committed, transaction_id>>
      /\ \/ pc[c] = "compact" /\ vertex_futex' = 0
         \/ vertex_futex' = vertex_futex
  BY DEF CompactSkip, Compacted, Compacting, Goto, epochsVars
<1>2. place \in {"idle", "open"}
  BY <1>0 DEF CompactionRec
<1>3. (place = "open" => txn[c].read >= 0)
  BY <1>0 DEF PlaceOf
<1> HIDE DEF place
<1>4. place \in Place /\ place # "install" /\ place # "compact" /\ place \notin {"scan", "lock"}
  BY <1>2 DEF Place
<1>5. stage' \in [Client -> {"idle", "queued", "granted"}] /\ \A d \in Client \ {c} : stage'[d] = stage[d]
  BY <1>0, <1>1
<1>6. pc'[c] = place /\ \A d \in Client \ {c} : pc'[d] = pc[d] /\ compaction'[d] = compaction[d]
  BY <1>0, <1>1
<1>7. Alone(c)
  BY <1>1, <1>5, <1>6 DEF Alone, Same
<1>8. ~txn[c].locked /\ Bare(txn[c])
  <2>1. ~Writer(c)
    BY <1>0 DEF Open, Writer, InScan
  <2> QED BY <1>0, <2>1 DEF PlaceOf
<1>9. ~Holds(c)'
  BY <1>1, <1>4, <1>6, <1>8 DEF Holds
<1>10. PlaceOf(c)'
  BY <1>0, <1>1, <1>2, <1>3, <1>6, <1>8 DEF PlaceOf, Bare, Open, InScan
<1>11. LockInv'
  <2>1. CASE pc[c] = "compact" /\ vertex_futex' = 0
    <3>1. Holds(c)
      BY <2>1 DEF Holds
    <3> QED BY <1>7, <1>9, <2>1, <3>1, LockFreed
  <2>2. CASE vertex_futex' = vertex_futex
    BY <1>7, <1>9, <2>2, LockKept
  <2> QED BY <1>1, <2>1, <2>2
<1>12. ~Installing(c)
  BY <1>0 DEF Installing
<1>13. QuietStep(c)
  BY <1>1, <1>4, <1>5, <1>8, <1>10, <1>11, <1>12, NoCompactionType, TurnQuiet
<1> QED BY <1>4, <1>6, <1>13 DEF BoundOf

LEMMA PublishBasic ==
  ASSUME Basic, CommitsInv, Publish
  PROVE  Basic' /\ CommitsInv'
PROOF
<1>0. /\ Types /\ OlderInv /\ PlaceInv /\ LockInv /\ LabelsInv /\ TailInv /\ RefsInv
      /\ UNCHANGED <<stage, sealed, transaction_id, vertex_futex, edge_label_ptr, labels, blocks, freed, freedLabels>>
      /\ UNCHANGED <<pc, txn, scan, compaction, committed>>
  BY DEF Basic, Publish, MakeVisible, store
<1>1. visible \in Nat /\ visible' = visible + 1 /\ visible' \in 0 .. sealed /\ sealed \in Nat
  BY <1>0 DEF Publish, MakeVisible, Types, EpochInv
<1>2. visible' \in Nat /\ visible <= visible' /\ sealed' \in Nat /\ sealed <= sealed' /\ transaction_id' \in Nat
      /\ transaction_id <= transaction_id'
  BY <1>0, <1>1 DEF Types
<1>3. \A d \in Client : Same(d) /\ stage'[d] = stage[d]
  BY <1>0 DEF Same
<1>4. Types'
  BY <1>0, <1>1 DEF Types, EpochInv
<1>5. OlderInv' /\ LabelsInv' /\ TailInv'
  BY <1>0 DEF OlderInv, LabelsInv, TailInv, Older
<1>6. PlaceInv'
  <2>1. ASSUME NEW d \in Client PROVE PlaceOf(d)'
    BY <1>0, <1>2, <1>3, OtherPlace DEF PlaceInv
  <2> QED BY <2>1 DEF PlaceInv
<1>7. RefsInv'
  <2>1. ASSUME NEW d \in Client PROVE RefsOf(d)'
    BY <1>0, <1>3, OtherRefs DEF RefsInv
  <2> QED BY <2>1 DEF RefsInv
<1>8. LockInv'
  BY <1>0 DEF LockInv, Holds, Writer, Open
<1>9. \A d \in Client : QuietFor(d)
  BY <1>0 DEF QuietFor, Keeps, Installing, Open
<1>10. \A d \in Client : txn[d].read \in Int /\ txn'[d].read \in {txn[d].read, visible, -1}
  BY <1>0, TxnFields
<1>11. BoundInv'
  <2>1. ASSUME NEW d \in Client PROVE BoundOf(d)'
    <3>1. BoundOf(d)
      BY DEF CommitsInv, BoundInv
    <3> QED BY <1>0, <1>2, <1>3, <1>10, <3>1, BoundStays
  <2> QED BY <2>1 DEF BoundInv
<1>12. CommitsInv'
  BY <1>0, <1>2, <1>9, <1>11, QuietCommits
<1> QED BY <1>4, <1>5, <1>6, <1>7, <1>8, <1>12 DEF Basic

-----------------------------------------------------------------------------
(* What a call that writes leaves of its transaction and of a block *)

LEMMA LockedFacts ==
  ASSUME Types, NEW c \in Client
  PROVE  /\ Locked(c) \in TxnRec /\ Locked(c).locked = TRUE
         /\ Locked(c).id = txn[c].id /\ Locked(c).read = txn[c].read /\ Locked(c).ptrs = txn[c].ptrs
         /\ Locked(c).tails = txn[c].tails /\ Locked(c).stamps = txn[c].stamps /\ Locked(c).own = txn[c].own
         /\ Locked(c).epoch = txn[c].epoch /\ Locked(c).mine = txn[c].mine
PROOF
<1> DEFINE t1 == [txn[c] EXCEPT !.ops = txn[c].ops + 1]
           t2 == [t1 EXCEPT !.locked = TRUE]
<1>1. txn[c] \in TxnRec /\ txn[c].ops + 1 \in Nat
  BY TxnFields
<1>2. Locked(c) = t2
  BY DEF Locked
<1>3. /\ t1 \in TxnRec /\ t1.id = txn[c].id /\ t1.read = txn[c].read /\ t1.ptrs = txn[c].ptrs
      /\ t1.tails = txn[c].tails /\ t1.stamps = txn[c].stamps /\ t1.own = txn[c].own
      /\ t1.epoch = txn[c].epoch /\ t1.mine = txn[c].mine
  BY <1>1, TxnPut_ops
<1> HIDE DEF t1
<1>4. TRUE \in BOOLEAN
  OBVIOUS
<1>5. /\ t2 \in TxnRec /\ t2.locked = TRUE /\ t2.id = t1.id /\ t2.read = t1.read /\ t2.ptrs = t1.ptrs
      /\ t2.tails = t1.tails /\ t2.stamps = t1.stamps /\ t2.own = t1.own
      /\ t2.epoch = t1.epoch /\ t2.mine = t1.mine
  BY <1>3, <1>4, TxnPut_locked
<1> HIDE DEF t2
<1> QED BY <1>2, <1>3, <1>5

LEMMA WordsJoined ==
  ASSUME NEW s \in Seq(WordRec), NEW u \in Seq(WordRec)
  PROVE  Members(s \o u) = Members(s) \cup Members(u)
BY MembersCat

LEMMA WroteFacts ==
  ASSUME Types, NEW c \in Client, NEW t \in TxnRec, NEW l \in Label, NEW d \in AllDst, NEW p \in Pointer, NEW n \in Nat,
         NEW words \in Seq(WordRec), NEW data \in Int, Wrote(c, t, l, d, p, n, words, data)
  PROVE  /\ txn' \in [Client -> TxnRec] /\ \A e \in Client \ {c} : txn'[e] = txn[e]
         /\ txn'[c].id = t.id /\ txn'[c].read = t.read /\ txn'[c].locked = t.locked /\ txn'[c].epoch = t.epoch
         /\ txn'[c].own = t.own
         /\ txn'[c].ptrs = [t.ptrs EXCEPT ![l] = p] /\ txn'[c].tails = [t.tails EXCEPT ![p] = n]
         /\ txn'[c].stamps = t.stamps \o words /\ Members(txn'[c].stamps) = Members(t.stamps) \cup Members(words)
         /\ \A k \in Label \ {l} : txn'[c].mine[k] = t.mine[k]
PROOF
<1> DEFINE f  == [x \in DOMAIN t.mine[l] \cup {d} |-> IF x = d THEN data ELSE t.mine[l][x]]
           t1 == [t EXCEPT !.ptrs = [t.ptrs EXCEPT ![l] = p]]
           t2 == [t1 EXCEPT !.tails = [t1.tails EXCEPT ![p] = n]]
           t3 == [t2 EXCEPT !.stamps = t2.stamps \o words]
           t4 == [t3 EXCEPT !.mine = [t3.mine EXCEPT ![l] = f]]
<1>0. t.ptrs \in [Label -> Nat \cup {NoCache}] /\ t.tails \in [Pointer -> Nat \cup {NoTail}]
      /\ t.stamps \in Seq(WordRec) /\ t.mine \in [Label -> Writes] /\ p \in Nat
  BY DEF TxnRec, Pointer
<1>1. f \in Writes
  <2>0. t.mine[l] \in Writes
    BY <1>0
  <2>1. PICK D \in SUBSET AllDst : t.mine[l] \in [D -> Int]
    BY <2>0 DEF Writes
  <2>2. f \in [D \cup {d} -> Int] /\ D \cup {d} \in SUBSET AllDst
    BY <2>1
  <2> QED BY <2>2 DEF Writes
<1>2. txn' = [txn EXCEPT ![c] = t4]
  <2>1. [t EXCEPT !.ptrs[l] = p, !.tails[p] = n, !.stamps = @ \o words,
                  !.mine[l] = [x \in DOMAIN @ \cup {d} |-> IF x = d THEN data ELSE @[x]]] = t4
    OBVIOUS
  <2> HIDE DEF t4
  <2> QED BY <2>1 DEF Wrote, SetTxn
<1> HIDE DEF f
<1>3. [t.ptrs EXCEPT ![l] = p] \in [Label -> Nat \cup {NoCache}]
  BY <1>0
<1>4. /\ t1 \in TxnRec /\ t1.ptrs = [t.ptrs EXCEPT ![l] = p] /\ t1.id = t.id /\ t1.read = t.read /\ t1.locked = t.locked
      /\ t1.tails = t.tails /\ t1.stamps = t.stamps /\ t1.own = t.own /\ t1.epoch = t.epoch /\ t1.mine = t.mine
  BY <1>3, TxnPut_ptrs
<1> HIDE DEF t1
<1>5. [t1.tails EXCEPT ![p] = n] \in [Pointer -> Nat \cup {NoTail}]
  BY <1>0, <1>4
<1>6. /\ t2 \in TxnRec /\ t2.tails = [t1.tails EXCEPT ![p] = n] /\ t2.id = t1.id /\ t2.read = t1.read
      /\ t2.locked = t1.locked /\ t2.ptrs = t1.ptrs /\ t2.stamps = t1.stamps /\ t2.own = t1.own
      /\ t2.epoch = t1.epoch /\ t2.mine = t1.mine
  <2>1. t1 \in TxnRec
    BY <1>4
  <2> QED BY <1>5, <2>1, TxnPut_tails
<1> HIDE DEF t2
<1>7. t2.stamps \o words \in Seq(WordRec)
  BY <1>0, <1>4, <1>6
<1>8. /\ t3 \in TxnRec /\ t3.stamps = t2.stamps \o words /\ t3.id = t2.id /\ t3.read = t2.read
      /\ t3.locked = t2.locked /\ t3.ptrs = t2.ptrs /\ t3.tails = t2.tails /\ t3.own = t2.own
      /\ t3.epoch = t2.epoch /\ t3.mine = t2.mine
  <2>1. t2 \in TxnRec
    BY <1>6
  <2> QED BY <1>7, <2>1, TxnPut_stamps
<1> HIDE DEF t3
<1>9. [t3.mine EXCEPT ![l] = f] \in [Label -> Writes]
  BY <1>0, <1>1, <1>4, <1>6, <1>8
<1>10. /\ t4 \in TxnRec /\ t4.mine = [t3.mine EXCEPT ![l] = f] /\ t4.id = t3.id /\ t4.read = t3.read
       /\ t4.locked = t3.locked /\ t4.ptrs = t3.ptrs /\ t4.tails = t3.tails /\ t4.own = t3.own
       /\ t4.epoch = t3.epoch /\ t4.stamps = t3.stamps
  BY <1>8, <1>9, TxnPut_mine
<1> HIDE DEF t4
<1>11. txn' \in [Client -> TxnRec] /\ txn'[c] = t4 /\ \A e \in Client \ {c} : txn'[e] = txn[e]
  BY <1>2, <1>10 DEF Types
<1>12. Members(t.stamps \o words) = Members(t.stamps) \cup Members(words)
  BY <1>0, WordsJoined
<1>13. \A k \in Label \ {l} : t4.mine[k] = t.mine[k]
  BY <1>0, <1>4, <1>6, <1>8, <1>10
<1>14. /\ t4.id = t.id /\ t4.read = t.read /\ t4.locked = t.locked /\ t4.epoch = t.epoch /\ t4.own = t.own
       /\ t4.ptrs = [t.ptrs EXCEPT ![l] = p] /\ t4.tails = [t.tails EXCEPT ![p] = n] /\ t4.stamps = t.stamps \o words
  BY <1>4, <1>6, <1>8, <1>10
<1> QED BY <1>11, <1>12, <1>13, <1>14

LEMMA EntryType ==
  ASSUME NEW d \in AllDst, NEW creation \in Int, NEW data \in Int
  PROVE  /\ Entry(d, creation, data) \in EntryRec /\ Entry(d, creation, data).dst = d
         /\ Entry(d, creation, data).creation = creation /\ Entry(d, creation, data).data = data
         /\ Entry(d, creation, data).deletion = ROLLBACK_TOMBSTONE
BY DEF Entry, EntryRec

\* An entry with another deletion time.
LEMMA EntryDel ==
  ASSUME NEW e \in EntryRec, NEW x \in Int
  PROVE  /\ [e EXCEPT !.deletion = x] \in EntryRec /\ [e EXCEPT !.deletion = x].deletion = x
         /\ [e EXCEPT !.deletion = x].dst = e.dst /\ [e EXCEPT !.deletion = x].creation = e.creation
         /\ [e EXCEPT !.deletion = x].data = e.data
BY DEF EntryRec

\* A block with other entries.
LEMMA BlockPut ==
  ASSUME NEW chained \in Seq(BlockRec), NEW p \in DOMAIN chained, NEW e \in Seq(EntryRec)
  PROVE  LET q == [chained EXCEPT ![p] = [chained[p] EXCEPT !.entries = e]] IN
         /\ q \in Seq(BlockRec) /\ Len(q) = Len(chained) /\ DOMAIN q = DOMAIN chained
         /\ q[p].entries = e /\ q[p].creation = chained[p].creation /\ q[p].prev = chained[p].prev
         /\ q[p].committed = chained[p].committed /\ q[p].num = chained[p].num /\ q[p].order = chained[p].order
         /\ \A o \in DOMAIN chained : o # p => q[o] = chained[o]
PROOF
<1> DEFINE b == [chained[p] EXCEPT !.entries = e]
           q == [chained EXCEPT ![p] = b]
<1>1. chained[p] \in BlockRec
  OBVIOUS
<1>2. /\ b \in BlockRec /\ b.entries = e /\ b.creation = chained[p].creation /\ b.prev = chained[p].prev
      /\ b.committed = chained[p].committed /\ b.num = chained[p].num /\ b.order = chained[p].order
  BY <1>1 DEF BlockRec
<1> HIDE DEF b
<1>4. /\ q \in Seq(BlockRec) /\ Len(q) = Len(chained) /\ DOMAIN q = DOMAIN chained /\ q[p] = b
      /\ \A o \in DOMAIN chained : o # p => q[o] = chained[o]
  BY <1>2, SeqPut
<1> HIDE DEF q
<1>5. /\ q \in Seq(BlockRec) /\ Len(q) = Len(chained) /\ DOMAIN q = DOMAIN chained
      /\ q[p].entries = e /\ q[p].creation = chained[p].creation /\ q[p].prev = chained[p].prev
      /\ q[p].committed = chained[p].committed /\ q[p].num = chained[p].num /\ q[p].order = chained[p].order
      /\ \A o \in DOMAIN chained : o # p => q[o] = chained[o]
  BY <1>2, <1>4
<1> QED BY <1>5 DEF q, b

\* The entries of a block, one of them deleted by id.
LEMMA MarkedType ==
  ASSUME NEW s \in Seq(EntryRec), NEW old \in DOMAIN s, NEW x \in Int
  PROVE  LET u == [s EXCEPT ![old] = [s[old] EXCEPT !.deletion = x]] IN
         /\ u \in Seq(EntryRec) /\ Len(u) = Len(s)
         /\ \A i \in 1 .. Len(s) : u[i] = s[i] \/ u[i] = [s[i] EXCEPT !.deletion = x]
PROOF
<1> DEFINE e == [s[old] EXCEPT !.deletion = x]
           u == [s EXCEPT ![old] = e]
<1>0. Len(s) \in Nat /\ DOMAIN s = 1 .. Len(s) /\ s[old] \in EntryRec
  OBVIOUS
<1>1. e \in EntryRec
  BY <1>0, EntryDel
<1>2. e = [s[old] EXCEPT !.deletion = x]
  OBVIOUS
<1> HIDE DEF e
<1>3. u \in Seq(EntryRec) /\ Len(u) = Len(s) /\ u[old] = e /\ \A i \in DOMAIN s : i # old => u[i] = s[i]
  BY <1>1, SeqPut
<1> HIDE DEF u
<1>4. ASSUME NEW i \in 1 .. Len(s) PROVE u[i] = s[i] \/ u[i] = [s[i] EXCEPT !.deletion = x]
  BY <1>0, <1>2, <1>3
<1>5. /\ u \in Seq(EntryRec) /\ Len(u) = Len(s)
      /\ \A i \in 1 .. Len(s) : u[i] = s[i] \/ u[i] = [s[i] EXCEPT !.deletion = x]
  BY <1>3, <1>4
<1> QED BY <1>5 DEF u, e

\* put_edge in a block p: the first n entries stay, but for one that may be deleted, and one follows.
Appended(e, s, n, d, id) ==
  /\ Len(e) = n + 1 /\ e[n + 1] = Entry(d, -id, id)
  /\ \A i \in 1 .. n : e[i] = s[i] \/ e[i] = [s[i] EXCEPT !.deletion = -id]
LEMMA PutInFacts ==
  ASSUME Types, NEW c \in Client, NEW t \in TxnRec, NEW l \in Label, NEW d \in AllDst, NEW chained \in Seq(BlockRec),
         NEW p \in DOMAIN chained, NEW n \in Nat, n <= Len(chained[p].entries), NEW words \in Seq(WordRec),
         PutIn(c, t, l, d, p, n, chained, words)
  PROVE  \E e \in Seq(EntryRec), ws \in Seq(WordRec) :
           /\ blocks' = [chained EXCEPT ![p].entries = e] /\ Len(e) = n + 1
           /\ Appended(e, chained[p].entries, n, d, t.id)
           /\ Wrote(c, t, l, d, p, n + 1, ws, t.id)
           /\ Members(words) \subseteq Members(ws)
           /\ \A w \in Members(ws) : \/ w \in Members(words)
                                     \/ w.field \in {"creation", "deletion"} /\ w.p = p /\ w.i \in 1 .. n + 1
PROOF
<1> DEFINE s      == chained[p].entries
           old    == FindEdge(s, n, d, t)
           marked == IF old = 0 THEN s ELSE [s EXCEPT ![old].deletion = -t.id]
           cut    == SubSeq(marked, 1, n)
           new    == Entry(d, -t.id, t.id)
           e      == Append(cut, new)
           w1     == IF old = 0 THEN <<>> ELSE <<Word("deletion", p, old)>>
           w2     == <<Word("creation", p, n + 1)>>
           ws     == words \o w1 \o w2
<1>1. /\ blocks' = [chained EXCEPT ![p].entries = e]
      /\ Wrote(c, t, l, d, p, n + 1, ws, t.id)
  BY DEF PutIn
<1>2. s \in Seq(EntryRec) /\ t.id \in Nat /\ p \in Nat
  <2>1. chained[p] \in BlockRec /\ p \in Nat
    OBVIOUS
  <2>2. s \in Seq(EntryRec)
    BY <2>1 DEF BlockRec
  <2>3. t.id \in Nat
    BY DEF TxnRec
  <2> QED BY <2>1, <2>2, <2>3
<1>21. -t.id \in Int /\ t.id \in Int
  BY <1>2
<1> HIDE DEF s
<1>3. old \in 0 .. n
  BY FindEdgeType
<1> HIDE DEF old
<1>4. /\ marked \in Seq(EntryRec) /\ Len(marked) = Len(s)
      /\ \A i \in 1 .. Len(s) : marked[i] = s[i] \/ marked[i] = [s[i] EXCEPT !.deletion = -t.id]
  <2>1. n <= Len(s)
    BY DEF s
  <2>2. CASE old = 0
    BY <1>2, <2>2
  <2>3. CASE old # 0
    <3>1. old \in DOMAIN s
      BY <1>2, <1>3, <2>1, <2>3
    <3>2. PICK x \in Int : x = -t.id
      BY <1>21
    <3>3. LET u == [s EXCEPT ![old] = [s[old] EXCEPT !.deletion = x]] IN
          /\ u \in Seq(EntryRec) /\ Len(u) = Len(s)
          /\ \A i \in 1 .. Len(s) : u[i] = s[i] \/ u[i] = [s[i] EXCEPT !.deletion = x]
      BY <1>2, <3>1, MarkedType
    <3>4. marked = [s EXCEPT ![old] = [s[old] EXCEPT !.deletion = x]]
      BY <2>3, <3>2
    <3> HIDE DEF marked
    <3> QED BY <3>2, <3>3, <3>4
  <2> QED BY <2>2, <2>3
<1> HIDE DEF marked
<1>5. cut \in Seq(EntryRec) /\ Len(cut) = n /\ \A i \in 1 .. n : cut[i] = marked[i]
  <2>1. n <= Len(marked)
    BY <1>4 DEF s
  <2> QED BY <1>4, <2>1
<1> HIDE DEF cut
<1>6. new \in EntryRec
  BY <1>21, EntryType
<1> HIDE DEF new
<1>7. e \in Seq(EntryRec) /\ Len(e) = n + 1 /\ e[n + 1] = new /\ \A i \in 1 .. n : e[i] = cut[i]
  BY <1>5, <1>6
<1> HIDE DEF e
<1>8. ASSUME NEW i \in 1 .. n PROVE e[i] = s[i] \/ e[i] = [s[i] EXCEPT !.deletion = -t.id]
  <2>1. i \in 1 .. Len(s) /\ e[i] = marked[i]
    BY <1>2, <1>5, <1>7 DEF s
  <2> QED BY <1>4, <2>1
<1>9. w1 \in Seq(WordRec) /\ \A w \in Members(w1) : w.field \in {"creation", "deletion"} /\ w.p = p /\ w.i \in 1 .. n + 1
  <2>1. CASE old = 0
    BY <2>1, MembersFew
  <2>2. CASE old # 0
    <3>1. PICK w : w = Word("deletion", p, old)
      OBVIOUS
    <3>2. w \in WordRec /\ w.field = "deletion" /\ w.p = p /\ w.i = old
      BY <1>2, <1>3, <3>1 DEF Word, WordRec
    <3>3. w1 = <<w>> /\ Members(w1) = {w}
      BY <2>2, <3>1, MembersFew
    <3>4. <<w>> \in Seq(WordRec)
      BY <3>2
    <3> QED BY <1>3, <2>2, <3>2, <3>3, <3>4
  <2> QED BY <2>1, <2>2
<1>10. w2 \in Seq(WordRec) /\ \A w \in Members(w2) : w.field \in {"creation", "deletion"} /\ w.p = p /\ w.i \in 1 .. n + 1
  <2>1. PICK w : w = Word("creation", p, n + 1)
    OBVIOUS
  <2>2. w \in WordRec /\ w.field = "creation" /\ w.p = p /\ w.i = n + 1
    BY <1>2, <2>1 DEF Word, WordRec
  <2>3. w2 = <<w>> /\ Members(w2) = {w}
    BY <2>1, MembersFew
  <2> QED BY <2>2, <2>3
<1> HIDE DEF w1, w2
<1>11. words \o w1 \in Seq(WordRec) /\ Members(words \o w1) = Members(words) \cup Members(w1)
  BY <1>9, WordsJoined
<1>12. ws \in Seq(WordRec) /\ Members(ws) = Members(words \o w1) \cup Members(w2)
  <2>1. PICK u \in Seq(WordRec) : u = words \o w1
    BY <1>11
  <2>2. u \o w2 \in Seq(WordRec)
    BY <1>10
  <2>3. Members(u \o w2) = Members(u) \cup Members(w2)
    BY <1>10, WordsJoined
  <2> QED BY <2>1, <2>2, <2>3
<1> HIDE DEF ws
<1>13. Members(words) \subseteq Members(ws)
  BY <1>11, <1>12
<1>14. \A w \in Members(ws) : \/ w \in Members(words)
                              \/ w.field \in {"creation", "deletion"} /\ w.p = p /\ w.i \in 1 .. n + 1
  BY <1>9, <1>10, <1>11, <1>12
<1>15. e[n + 1] = Entry(d, -t.id, t.id)
  BY <1>7 DEF new
<1>16. Appended(e, s, n, d, t.id)
  BY <1>7, <1>8, <1>15 DEF Appended
<1> QED BY <1>1, <1>7, <1>12, <1>13, <1>14, <1>16 DEF s

-----------------------------------------------------------------------------
(* What a writer finds when it first looks at a label *)

LEMMA FirstLook ==
  ASSUME Basic, CommitsInv, NEW c \in Client, pc[c] = "open", txn[c].locked \/ vertex_futex = 0, NEW l \in Label,
         NEW t \in TxnRec, t.id = txn[c].id, t.read = txn[c].read, t.ptrs = txn[c].ptrs, t.tails = txn[c].tails,
         ~Conflict(t, l)
  PROVE  LET p == Located(t, l) IN
         /\ p \in 0 .. Len(blocks) /\ p \in Pointer
         /\ p = TopOf(c, l) /\ (p = HeadOf(l) \/ p \in txn[c].own)
         /\ p # NULLPOINTER /\ p \in txn[c].own => Word("block", p, 0) \in Members(txn[c].stamps)
         /\ \A x \in committed : x.label = l => x.epoch <= txn[c].read
         /\ p # NULLPOINTER => /\ p \in DOMAIN blocks /\ NumEntries(t, p) \in Nat
                               /\ blocks[p].num <= NumEntries(t, p) /\ NumEntries(t, p) <= Len(blocks[p].entries)
PROOF
<1> DEFINE p == Located(t, l)
<1>0. Types /\ OlderInv /\ LabelsInv /\ TailInv /\ RefsOf(c) /\ PlaceOf(c) /\ LockInv
  BY DEF Basic, RefsInv, PlaceInv
<1>1. TopsOf(c) /\ PendOf(c) /\ TailsOf(c) /\ SettledInv /\ CommitInv
  BY DEF CommitsInv, TopsInv, PendInv, TailsInv
<1>2. Open(c) /\ Writer(c) /\ ~Installing(c)
  BY DEF Open, Writer, Installing
<1>3. Holds(c) \/ vertex_futex = 0
  BY <1>2 DEF Holds
<1>4. \A d \in Client : ~Installing(d)
  BY <1>2, <1>3, OthersBare
<1>5. txn[c].read \in Int /\ txn[c].read >= 0 /\ Active(c)
  <2>1. txn[c].read \in Int /\ txn[c].read >= 0
    BY <1>0, <1>2, TxnFields DEF PlaceOf
  <2> QED BY <2>1 DEF Active
<1>6. Len(blocks) \in Nat /\ DOMAIN blocks = 1 .. Len(blocks) /\ Len(blocks) <= MaxBlock
  BY <1>0 DEF Types
<1>7. txn[c].ptrs[l] \in Nat \cup {NoCache} /\ txn[c].ptrs[l] <= Len(blocks)
  BY <1>0, <1>2, TxnFields DEF RefsOf
<1>8. HeadOf(l) \in 0 .. Len(blocks) /\ Locate(l, t) \in 0 .. HeadOf(l) /\ Locate(l, t) \in 0 .. Len(blocks)
      /\ (HeadOf(l) # NULLPOINTER /\ Visible(blocks[HeadOf(l)].creation, t) => Locate(l, t) = HeadOf(l))
  BY <1>0, LocateFacts
<1>9. l \in AnyLabel
  BY DEF AnyLabel
<1>10. \A x \in committed : x.epoch \in Nat
  BY <1>0 DEF Types
<1>11. ASSUME txn[c].ptrs[l] = NoCache
       PROVE  p = HeadOf(l) /\ \A x \in committed : x.label = l => x.epoch <= txn[c].read
  <2>1. p = Locate(l, t)
    BY <1>11 DEF Located
  <2>2. CASE HeadOf(l) = NULLPOINTER
    <3>1. p = HeadOf(l)
      BY <1>8, <2>1, <2>2
    <3>2. \A x \in committed : x.label # l
      BY <1>1, <1>4, <2>2 DEF CommitInv, CommitOf
    <3> QED BY <3>1, <3>2
  <2>3. CASE HeadOf(l) # NULLPOINTER
    <3>1. PICK h \in DOMAIN blocks : h = HeadOf(l)
      BY <1>6, <1>8, <2>3
    <3>2. Steady(h)
      BY <1>1, <1>4, <1>9, <2>3, <3>1 DEF SettledInv
    <3>3. Visible(blocks[h].committed, t)
      BY <1>11, <2>3, <3>1 DEF Conflict, HeadOf
    <3>4. blocks[h].creation \in Int /\ blocks[h].committed \in Int /\ t.id \in Nat
      BY <1>0, BlockFields DEF TxnRec
    <3>5. Visible(blocks[h].creation, t)
      BY <1>5, <3>2, <3>3, <3>4 DEF Visible, Steady, Old
    <3>6. p = HeadOf(l)
      BY <1>8, <2>1, <2>3, <3>1, <3>5
    <3>7. ASSUME NEW x \in committed, x.label = l PROVE x.epoch <= txn[c].read
      <4>1. CommitOf(x)
        BY <1>1 DEF CommitInv
      <4>2. x.epoch <= blocks[h].committed
        BY <1>4, <3>1, <3>7, <4>1 DEF CommitOf
      <4>3. x.epoch \in Nat
        BY <1>10
      <4> QED BY <1>5, <3>3, <3>4, <4>2, <4>3 DEF Visible
    <3> QED BY <3>6, <3>7
  <2> QED BY <2>2, <2>3
<1>12. ASSUME txn[c].ptrs[l] # NoCache
       PROVE  /\ p = txn[c].ptrs[l] /\ (p = HeadOf(l) \/ p \in txn[c].own)
              /\ \A x \in committed : x.label = l => x.epoch <= txn[c].read
  <2>1. p = txn[c].ptrs[l]
    BY <1>12 DEF Located
  <2>2. p = HeadOf(l) \/ p \in txn[c].own
    BY <1>1, <1>2, <1>12, <2>1 DEF TopsOf
  <2>3. \A x \in committed : x.label = l => x.epoch <= txn[c].read
    BY <1>1, <1>2, <1>12 DEF PendOf
  <2> HIDE DEF p
  <2> QED BY <2>1, <2>2, <2>3
<1> HIDE DEF p
<1>13. p \in 0 .. Len(blocks) /\ p \in Pointer /\ p # NoCache
  <2>1. p \in 0 .. Len(blocks)
    BY <1>6, <1>7, <1>8, <1>11, <1>12
  <2> QED BY <1>6, <2>1, EdgesAssumption DEF Pointer
<1>14. ASSUME p # NULLPOINTER, p \in txn[c].own PROVE Word("block", p, 0) \in Members(txn[c].stamps)
  <2>1. txn[c].ptrs[l] # NoCache
    <3>1. SUFFICES ASSUME txn[c].ptrs[l] = NoCache PROVE FALSE
      OBVIOUS
    <3>2. p = HeadOf(l)
      BY <1>11, <3>1
    <3>3. HeadOf(l) < p
      BY <1>1, <1>2, <1>9, <1>14 DEF TopsOf
    <3> QED BY <1>13, <3>2, <3>3
  <2>2. p = txn[c].ptrs[l]
    BY <1>12, <2>1
  <2>3. p \notin {NoCache, NULLPOINTER}
    BY <1>13, <1>14
  <2> QED BY <1>1, <1>2, <1>14, <2>2, <2>3 DEF PendOf
<1>15. ASSUME p # NULLPOINTER
       PROVE  /\ p \in DOMAIN blocks /\ NumEntries(t, p) \in Nat
              /\ blocks[p].num <= NumEntries(t, p) /\ NumEntries(t, p) <= Len(blocks[p].entries)
  <2>1. p \in DOMAIN blocks
    BY <1>6, <1>13, <1>15
  <2>2. blocks[p].num \in Nat /\ blocks[p].num <= Len(blocks[p].entries)
    BY <1>0, <2>1, BlockFields DEF TailInv
  <2>3. CASE t.tails[p] # NoTail
    <3>1. NumEntries(t, p) = txn[c].tails[p] /\ txn[c].tails[p] \in Nat
      BY <1>0, <1>13, <2>3, TxnFields DEF NumEntries
    <3>2. blocks[p].num <= txn[c].tails[p]
      BY <1>1, <1>2, <1>13, <2>3 DEF TailsOf
    <3>3. txn[c].tails[p] <= Len(blocks[p].entries)
      BY <1>0, <1>2, <1>13, <2>3 DEF RefsOf
    <3> QED BY <2>1, <3>1, <3>2, <3>3
  <2>4. CASE t.tails[p] = NoTail
    BY <2>1, <2>2, <2>4 DEF NumEntries
  <2> QED BY <2>3, <2>4
<1>16. p = HeadOf(l) \/ p \in txn[c].own
  BY <1>11, <1>12
<1>17. \A x \in committed : x.label = l => x.epoch <= txn[c].read
  BY <1>11, <1>12
<1>18. p = TopOf(c, l)
  BY <1>11, <1>12 DEF TopOf
<1> QED BY <1>13, <1>14, <1>15, <1>16, <1>17, <1>18 DEF p

-----------------------------------------------------------------------------
(* A step under the vertex lock leaves the others with what they have *)

LEMMA OthersCommit ==
  ASSUME Basic, CommitsInv, NEW c \in Client, Holds(c) \/ vertex_futex = 0, Alone(c), visible' = visible,
         txn'[c].read = txn[c].read, NEW d \in Client \ {c}
  PROVE  TopsOf(d)' /\ PendOf(d)' /\ TailsOf(d)' /\ InstallOf(d)' /\ BoundOf(d)' /\ ~Installing(d)'
PROOF
<1>0. ~Holds(d) /\ (Writer(d) => Bare(txn[d])) /\ ~Installing(d) /\ Same(d)
  BY OthersBare DEF Alone
<1>1. pc'[d] = pc[d] /\ txn'[d] = txn[d]
  BY <1>0 DEF Same
<1>2. Writer(d)' => Bare(txn'[d])
  BY <1>0, <1>1 DEF Writer, Open
<1>3. ASSUME Bare(txn'[d]) PROVE TopsOf(d)' /\ PendOf(d)' /\ TailsOf(d)'
  <2>1. \A l \in Label : txn'[d].ptrs[l] = NoCache /\ DOMAIN txn'[d].mine[l] = {}
    BY <1>3 DEF Bare
  <2>2. txn'[d].own = {} /\ Members(txn'[d].stamps) = {} /\ \A p \in Pointer : txn'[d].tails[p] = NoTail
    BY <1>3, MembersFew DEF Bare
  <2>3. TopsOf(d)'
    BY <2>1, <2>2 DEF TopsOf
  <2>4. PendOf(d)'
    BY <2>1 DEF PendOf
  <2>5. TailsOf(d)'
    BY <2>2 DEF TailsOf
  <2> QED BY <2>3, <2>4, <2>5
<1>4. TopsOf(d)' /\ PendOf(d)' /\ TailsOf(d)'
  <2>1. CASE Writer(d)'
    BY <1>2, <1>3, <2>1
  <2>2. CASE ~Writer(d)'
    <3>1. ~Open(d)' /\ pc'[d] # "install"
      BY <2>2 DEF Writer
    <3> QED BY <3>1 DEF TopsOf, PendOf, TailsOf
  <2> QED BY <2>1, <2>2
<1>5. ~Installing(d)'
  BY <1>0, <1>1 DEF Installing
<1>6. InstallOf(d)'
  BY <1>5 DEF InstallOf
<1>7. BoundOf(d)'
  <2>0. Types
    BY DEF Basic
  <2>1. BoundOf(d)
    BY DEF CommitsInv, BoundInv
  <2>2. visible' \in Nat /\ visible <= visible'
    BY <2>0 DEF Types, EpochInv
  <2>3. \A e \in Client : txn[e].read \in Int /\ txn'[e].read \in {txn[e].read, visible, -1}
    <3>1. \A e \in Client : txn[e].read \in Int
      BY <2>0, TxnFields
    <3>2. \A e \in Client \ {c} : txn'[e].read = txn[e].read
      BY DEF Alone, Same
    <3> QED BY <3>1, <3>2
  <2> QED BY <1>0, <2>0, <2>1, <2>2, <2>3, BoundStays
<1> QED BY <1>4, <1>5, <1>6, <1>7

LEMMA HolderCommit ==
  ASSUME Basic, CommitsInv, NEW c \in Client, Holds(c) \/ vertex_futex = 0, Alone(c), visible' = visible,
         txn'[c].read = txn[c].read, TopsOf(c)', PendOf(c)', TailsOf(c)', InstallOf(c)', BoundOf(c)',
         CommittedInv', SettledInv', CommitInv'
  PROVE  CommitsInv'
PROOF
<1>1. \A d \in Client \ {c} : TopsOf(d)' /\ PendOf(d)' /\ TailsOf(d)' /\ InstallOf(d)' /\ BoundOf(d)'
  BY OthersCommit
<1>2. TopsInv' /\ PendInv' /\ TailsInv' /\ InstallInv' /\ BoundInv'
  BY <1>1 DEF TopsInv, PendInv, TailsInv, InstallInv, BoundInv
<1> QED BY <1>2 DEF CommitsInv

LEMMA HolderBasic ==
  ASSUME Basic, NEW c \in Client, Holds(c) \/ vertex_futex = 0, Alone(c), visible' = visible, sealed' = sealed,
         transaction_id' = transaction_id,
         Types', OlderInv', LabelsInv', TailInv', Len(blocks) <= Len(blocks'), Len(labels) <= Len(labels'),
         PlaceOf(c)', RefsOf(c)', LockInv'
  PROVE  Basic'
PROOF
<1>0. Types /\ PlaceInv /\ RefsInv
  BY DEF Basic
<1>1. visible' \in Nat /\ visible <= visible' /\ sealed' \in Nat /\ sealed <= sealed'
      /\ transaction_id' \in Nat /\ transaction_id <= transaction_id'
  BY <1>0 DEF Types, EpochInv
<1>2. ASSUME NEW d \in Client \ {c} PROVE PlaceOf(d)' /\ RefsOf(d)'
  <2>1. ~Holds(d) /\ Same(d) /\ stage'[d] = stage[d] /\ PlaceOf(d) /\ RefsOf(d)
    BY <1>0, OthersBare DEF Alone, PlaceInv, RefsInv
  <2> QED BY <1>0, <1>1, <2>1, OtherPlace, OtherRefsGrow
<1>3. PlaceInv' /\ RefsInv'
  BY <1>2 DEF PlaceInv, RefsInv
<1> QED BY <1>3 DEF Basic

-----------------------------------------------------------------------------
(* A call that writes *)

LEMMA EditFacts ==
  ASSUME Basic, CommitsInv, NEW c \in Client, pc[c] = "open", NEW l \in Label, NEW p, NEW e, NEW m, NEW ws, NEW chained,
         Edited(c, l, p, e, m, ws, chained)
  PROVE  /\ Alone(c) /\ Types' /\ OlderInv' /\ LabelsInv' /\ TailInv'
         /\ \A k : HeadOf(k)' = HeadOf(k)
         /\ Len(blocks) <= Len(blocks') /\ DOMAIN blocks \subseteq DOMAIN blocks' /\ p \in DOMAIN blocks'
         /\ blocks'[p].entries = e /\ blocks'[p].num = chained[p].num
         /\ p \in DOMAIN blocks => p = TopOf(c, l) /\ Len(blocks') = Len(blocks)
         /\ p \notin DOMAIN blocks =>
              /\ p = Len(blocks) + 1 /\ Len(blocks') = p
              /\ blocks'[p].prev = TopOf(c, l) /\ blocks'[p].creation = -txn[c].id
         /\ \A o \in DOMAIN blocks :
              /\ blocks'[o].creation = blocks[o].creation /\ blocks'[o].committed = blocks[o].committed
              /\ blocks'[o].num = blocks[o].num /\ blocks'[o].prev = blocks[o].prev
              /\ o # p => blocks'[o] = blocks[o]
         /\ CommittedInv'
PROOF
<1>0. Types /\ OlderInv /\ LabelsInv /\ TailInv /\ CommittedInv
  BY DEF Basic, CommitsInv
<1>1. /\ UNCHANGED <<visible, sealed, stage, transaction_id, edge_label_ptr, labels, freed, freedLabels, scan, pc,
                     compaction, committed>>
      /\ txn' \in [Client -> TxnRec] /\ \A d \in Client \ {c} : txn'[d] = txn[d]
  BY DEF Edited
<1>2. /\ chained \in Seq(BlockRec) /\ Len(chained) <= MaxBlock /\ Len(blocks) <= Len(chained)
      /\ \A o \in DOMAIN blocks : chained[o] = blocks[o]
      /\ \A o \in DOMAIN chained : o \in DOMAIN blocks \/ o = p
      /\ p \in DOMAIN chained
      /\ p \notin DOMAIN blocks =>
           /\ p = Len(blocks) + 1 /\ chained[p].prev \in 0 .. p - 1 /\ chained[p].committed <= sealed
           /\ chained[p].prev = TopOf(c, l) /\ chained[p].creation = -txn[c].id
      /\ p \in DOMAIN blocks => p = TopOf(c, l)
      /\ e \in Seq(EntryRec) /\ m \in Nat /\ chained[p].num <= m /\ m <= Len(e)
      /\ blocks' = [chained EXCEPT ![p].entries = e]
  BY DEF Edited
<1>3. /\ blocks' \in Seq(BlockRec) /\ Len(blocks') = Len(chained) /\ DOMAIN blocks' = DOMAIN chained
      /\ blocks'[p].entries = e /\ blocks'[p].creation = chained[p].creation /\ blocks'[p].prev = chained[p].prev
      /\ blocks'[p].committed = chained[p].committed /\ blocks'[p].num = chained[p].num
      /\ \A o \in DOMAIN chained : o # p => blocks'[o] = chained[o]
  <2>1. chained \in Seq(BlockRec) /\ p \in DOMAIN chained /\ e \in Seq(EntryRec)
    BY <1>2
  <2>2. blocks' = [chained EXCEPT ![p] = [chained[p] EXCEPT !.entries = e]]
    BY <1>2
  <2>4. LET q == [chained EXCEPT ![p] = [chained[p] EXCEPT !.entries = e]] IN
        /\ q \in Seq(BlockRec) /\ Len(q) = Len(chained) /\ DOMAIN q = DOMAIN chained
        /\ q[p].entries = e /\ q[p].creation = chained[p].creation /\ q[p].prev = chained[p].prev
        /\ q[p].committed = chained[p].committed /\ q[p].num = chained[p].num
        /\ \A o \in DOMAIN chained : o # p => q[o] = chained[o]
    BY <2>1, BlockPut
  <2> QED BY <2>2, <2>4
<1>4. /\ DOMAIN blocks = 1 .. Len(blocks) /\ DOMAIN blocks' = 1 .. Len(blocks') /\ Len(blocks) \in Nat
      /\ Len(blocks') \in Nat /\ Len(blocks) <= Len(blocks')
  BY <1>0, <1>2, <1>3 DEF Types
<1>5. DOMAIN blocks \subseteq DOMAIN blocks'
  BY <1>4
<1>6. \A o \in DOMAIN blocks :
        /\ blocks'[o].creation = blocks[o].creation /\ blocks'[o].committed = blocks[o].committed
        /\ blocks'[o].num = blocks[o].num /\ blocks'[o].prev = blocks[o].prev
        /\ o # p => blocks'[o] = blocks[o]
  BY <1>2, <1>3, <1>5
<1>7. Types'
  <2>1. vertex_futex' \in Nat /\ Len(blocks') <= MaxBlock
    BY <1>2, <1>3 DEF Edited
  <2> QED BY <1>0, <1>1, <1>3, <2>1 DEF Types, EpochInv
<1>8. OlderInv'
  <2>1. \A o \in DOMAIN blocks' : blocks'[o].prev \in 0 .. o - 1
    <3>1. ASSUME NEW o \in DOMAIN blocks' PROVE blocks'[o].prev \in 0 .. o - 1
      <4>1. CASE o \in DOMAIN blocks
        BY <1>0, <1>6, <4>1 DEF OlderInv, Older
      <4>2. CASE o \notin DOMAIN blocks
        <5>1. o = p
          BY <1>2, <1>3, <4>2
        <5> QED BY <1>2, <1>3, <4>2, <5>1
      <4> QED BY <4>1, <4>2
    <3> QED BY <3>1
  <2>2. Older(blocks)'
    BY <1>4, <2>1 DEF Older
  <2>3. Older(labels)'
    BY <1>0, <1>1 DEF OlderInv, Older
  <2> QED BY <2>2, <2>3 DEF OlderInv
<1>9. LabelsInv'
  BY <1>0, <1>1, <1>5 DEF LabelsInv
<1>10. TailInv'
  <2>1. ASSUME NEW o \in DOMAIN blocks' PROVE blocks'[o].num <= Len(blocks'[o].entries)
    <3>1. CASE o = p
      <4>1. chained[p].num \in Nat /\ Len(e) \in Nat
        <5>1. chained[p] \in BlockRec /\ Len(e) \in Nat
          BY <1>2
        <5> QED BY <5>1 DEF BlockRec
      <4> QED BY <1>2, <1>3, <3>1, <4>1
    <3>2. CASE o # p
      <4>1. o \in DOMAIN blocks /\ blocks'[o] = blocks[o]
        BY <1>2, <1>3, <1>6, <3>2
      <4> QED BY <1>0, <4>1 DEF TailInv
    <3> QED BY <3>1, <3>2
  <2> QED BY <2>1 DEF TailInv
<1>11. \A k : HeadOf(k)' = HeadOf(k)
  BY <1>1 DEF HeadOf, Pointed
<1>12. Alone(c)
  BY <1>1 DEF Alone, Same
<1>13. CommittedInv'
  <2>1. ASSUME NEW o \in DOMAIN blocks' PROVE blocks'[o].committed <= sealed
    <3>1. CASE o \in DOMAIN blocks
      BY <1>0, <1>6, <3>1 DEF CommittedInv
    <3>2. CASE o \notin DOMAIN blocks
      <4>1. o = p
        BY <1>2, <1>3, <3>2
      <4> QED BY <1>2, <1>3, <3>2, <4>1
    <3> QED BY <3>1, <3>2
  <2> QED BY <1>1, <2>1 DEF CommittedInv
<1>14. /\ p \in DOMAIN blocks => p = TopOf(c, l) /\ Len(blocks') = Len(blocks)
       /\ p \notin DOMAIN blocks =>
            /\ p = Len(blocks) + 1 /\ Len(blocks') = p
            /\ blocks'[p].prev = TopOf(c, l) /\ blocks'[p].creation = -txn[c].id
  <2>1. \A o \in 1 .. Len(blocks') : o \in 1 .. Len(blocks) \/ o = p
    BY <1>2, <1>3, <1>4
  <2>2. ASSUME p \in DOMAIN blocks PROVE Len(blocks') = Len(blocks)
    <3>1. SUFFICES ASSUME Len(blocks') # Len(blocks) PROVE FALSE
      OBVIOUS
    <3>2. PICK k \in Nat, n \in Nat : k = Len(blocks) /\ n = Len(blocks') /\ k <= n
      BY <1>4
    <3>3. n # k
      BY <3>1, <3>2
    <3>4. n \in 1 .. n /\ n \notin 1 .. k
      BY <3>2, <3>3
    <3>5. n = p
      BY <2>1, <3>2, <3>4
    <3>6. p \in 1 .. k
      BY <1>4, <2>2, <3>2
    <3> QED BY <3>4, <3>5, <3>6
  <2>3. ASSUME p \notin DOMAIN blocks PROVE Len(blocks') = Len(blocks) + 1
    <3>1. p \in 1 .. Len(blocks') /\ p = Len(blocks) + 1
      BY <1>2, <1>3, <1>4, <2>3
    <3>2. SUFFICES ASSUME Len(blocks') # Len(blocks) + 1 PROVE FALSE
      OBVIOUS
    <3>3. PICK k \in Nat, n \in Nat : k = Len(blocks) /\ n = Len(blocks') /\ k <= n
      BY <1>4
    <3>4. p \in 1 .. n /\ p = k + 1 /\ n # k + 1
      BY <3>1, <3>2, <3>3
    <3>5. n \in 1 .. n /\ n \notin 1 .. k /\ n # p
      BY <3>3, <3>4
    <3> QED BY <2>1, <3>3, <3>5
  <2> QED BY <1>2, <1>3, <1>4, <2>2, <2>3
<1> QED BY <1>2, <1>3, <1>4, <1>5, <1>6, <1>7, <1>8, <1>9, <1>10, <1>11, <1>12, <1>13, <1>14

LEMMA EditBasic ==
  ASSUME Basic, CommitsInv, NEW c \in Client, pc[c] = "open", c \notin ReadOnly, txn[c].locked \/ vertex_futex = 0,
         NEW l \in Label, NEW p, NEW e, NEW m, NEW ws, NEW chained, Edited(c, l, p, e, m, ws, chained)
  PROVE  Basic'
PROOF
<1>0. Types /\ PlaceOf(c) /\ RefsOf(c) /\ LockInv /\ TailsOf(c)
  BY DEF Basic, PlaceInv, RefsInv, CommitsInv, TailsInv
<1>1. /\ Alone(c) /\ Types' /\ OlderInv' /\ LabelsInv' /\ TailInv'
      /\ \A k : HeadOf(k)' = HeadOf(k)
      /\ Len(blocks) <= Len(blocks') /\ DOMAIN blocks \subseteq DOMAIN blocks' /\ p \in DOMAIN blocks'
      /\ blocks'[p].entries = e /\ blocks'[p].num = chained[p].num
      /\ \A o \in DOMAIN blocks :
           /\ blocks'[o].creation = blocks[o].creation /\ blocks'[o].committed = blocks[o].committed
           /\ blocks'[o].num = blocks[o].num /\ blocks'[o].prev = blocks[o].prev
           /\ o # p => blocks'[o] = blocks[o]
      /\ CommittedInv'
  BY EditFacts
<1>2. /\ UNCHANGED <<visible, sealed, stage, transaction_id, edge_label_ptr, labels, freed, freedLabels, scan, pc,
                     compaction, committed>>
      /\ vertex_futex' = 1
      /\ txn'[c].id = txn[c].id /\ txn'[c].read = txn[c].read /\ txn'[c].epoch = txn[c].epoch /\ txn'[c].locked
      /\ txn'[c].ptrs = [txn[c].ptrs EXCEPT ![l] = p] /\ txn'[c].tails = [txn[c].tails EXCEPT ![p] = m]
      /\ Members(txn'[c].stamps) = Members(txn[c].stamps) \cup Members(ws)
      /\ txn'[c].own = txn[c].own \cup ({p} \ DOMAIN blocks)
      /\ p \in Pointer /\ m \in Nat /\ m <= Len(e) /\ e \in Seq(EntryRec)
      /\ \A w \in Members(ws) :
           \/ w = Word("block", p, 0) /\ p \notin DOMAIN blocks
           \/ w.field \in {"creation", "deletion"} /\ w.p = p /\ w.i \in 1 .. m
  BY DEF Edited
<1>3. Open(c) /\ Open(c)' /\ Writer(c) /\ Writer(c)'
  BY <1>2 DEF Open, Writer
<1>4. Holds(c) \/ vertex_futex = 0
  BY <1>3 DEF Holds
<1>5. PlaceOf(c)'
  BY <1>0, <1>2, <1>3 DEF PlaceOf
<1>6. LockInv'
  BY <1>1, <1>2, <1>4, LockTaken
<1>7. txn[c].ptrs \in [Label -> Nat \cup {NoCache}] /\ txn[c].tails \in [Pointer -> Nat \cup {NoTail}]
      /\ txn[c].stamps \in Seq(WordRec)
  BY <1>0, TxnFields
<1>8. /\ \A k \in Label : txn[c].ptrs[k] <= Len(blocks)
      /\ \A q \in Pointer : txn[c].tails[q] # NoTail =>
           q \in DOMAIN blocks /\ txn[c].tails[q] <= Len(blocks[q].entries)
      /\ txn[c].own \subseteq DOMAIN blocks
      /\ \A w \in Members(txn[c].stamps) :
           /\ w.field = "label" => w.p \in DOMAIN labels
           /\ w.field # "label" => w.p \in DOMAIN blocks
           /\ w.field \in {"creation", "deletion"} => w.i \in DOMAIN blocks[w.p].entries
           /\ w.field = "block" => w.p \in txn[c].own
           /\ w.field = "committed" => pc[c] = "install"
  BY <1>0, <1>3 DEF RefsOf
<1>9. Len(blocks) \in Nat /\ Len(blocks') \in Nat /\ DOMAIN blocks = 1 .. Len(blocks) /\ DOMAIN blocks' = 1 .. Len(blocks')
      /\ Len(blocks') <= MaxBlock
  BY <1>0, <1>1 DEF Types
<1>10. (\A k \in Label : txn[c].ptrs[k] <= Len(blocks))'
  <2>1. ASSUME NEW k \in Label PROVE txn'[c].ptrs[k] <= Len(blocks')
    <3>1. txn'[c].ptrs[k] = IF k = l THEN p ELSE txn[c].ptrs[k]
      BY <1>2, <1>7
    <3>2. p <= Len(blocks')
      BY <1>1, <1>9
    <3>3. txn[c].ptrs[k] \in Nat \cup {NoCache} /\ txn[c].ptrs[k] <= Len(blocks)
      BY <1>7, <1>8
    <3> QED BY <1>1, <1>9, <3>1, <3>2, <3>3
  <2> QED BY <2>1
<1>11. (\A q \in Pointer : txn[c].tails[q] # NoTail => q \in DOMAIN blocks /\ txn[c].tails[q] <= Len(blocks[q].entries))'
  <2>1. ASSUME NEW q \in Pointer, txn'[c].tails[q] # NoTail
        PROVE  q \in DOMAIN blocks' /\ txn'[c].tails[q] <= Len(blocks'[q].entries)
    <3>1. CASE q = p
      <4>1. txn'[c].tails[q] = m
        BY <1>2, <1>7, <3>1
      <4> QED BY <1>1, <1>2, <3>1, <4>1
    <3>2. CASE q # p
      <4>1. txn'[c].tails[q] = txn[c].tails[q]
        BY <1>2, <1>7, <3>2
      <4>2. q \in DOMAIN blocks /\ txn[c].tails[q] <= Len(blocks[q].entries)
        BY <1>8, <2>1, <4>1
      <4> QED BY <1>1, <3>2, <4>1, <4>2
    <3> QED BY <3>1, <3>2
  <2> QED BY <2>1
<1>12. (txn[c].own \subseteq DOMAIN blocks)'
  BY <1>1, <1>2, <1>8
<1>13. (\A w \in Members(txn[c].stamps) :
           /\ w.field = "label" => w.p \in DOMAIN labels
           /\ w.field # "label" => w.p \in DOMAIN blocks
           /\ w.field \in {"creation", "deletion"} => w.i \in DOMAIN blocks[w.p].entries
           /\ w.field = "block" => w.p \in txn[c].own
           /\ w.field = "committed" => pc[c] = "install")'
  <2>1. ASSUME NEW w \in Members(txn'[c].stamps)
        PROVE  /\ w.field = "label" => w.p \in DOMAIN labels'
               /\ w.field # "label" => w.p \in DOMAIN blocks'
               /\ w.field \in {"creation", "deletion"} => w.i \in DOMAIN blocks'[w.p].entries
               /\ w.field = "block" => w.p \in txn'[c].own
               /\ w.field = "committed" => pc'[c] = "install"
    <3>1. CASE w \in Members(ws)
      <4>1. CASE w = Word("block", p, 0) /\ p \notin DOMAIN blocks
        <5>1. w.field = "block" /\ w.p = p
          BY <4>1 DEF Word
        <5> QED BY <1>1, <1>2, <4>1, <5>1
      <4>2. CASE w.field \in {"creation", "deletion"} /\ w.p = p /\ w.i \in 1 .. m
        <5>1. w.i \in DOMAIN e
          BY <1>2, <4>2
        <5> QED BY <1>1, <4>2, <5>1
      <4> QED BY <1>2, <3>1, <4>1, <4>2
    <3>2. CASE w \in Members(txn[c].stamps)
      <4>1. w.field \in {"creation", "deletion"} => w.i \in DOMAIN blocks'[w.p].entries
        <5> SUFFICES ASSUME w.field \in {"creation", "deletion"} PROVE w.i \in DOMAIN blocks'[w.p].entries
          OBVIOUS
        <5>1. w.p \in DOMAIN blocks /\ w.i \in DOMAIN blocks[w.p].entries
          BY <1>8, <3>2
        <5>2. CASE w.p # p
          BY <1>1, <5>1, <5>2
        <5>3. CASE w.p = p
          <6>1. txn[c].tails[p] # NoTail /\ w.i \in 1 .. txn[c].tails[p]
            BY <1>0, <1>3, <3>2, <5>3 DEF TailsOf
          <6>2. txn[c].tails[p] <= m /\ txn[c].tails[p] \in Nat
            <7>1. txn[c].tails[p] # NoTail /\ p \in DOMAIN blocks
              BY <5>1, <5>3, <6>1
            <7>2. txn[c].tails[p] <= m
              BY <7>1 DEF Edited
            <7>3. txn[c].tails[p] \in Nat \cup {NoTail}
              BY <1>2, <1>7
            <7> QED BY <7>1, <7>2, <7>3
          <6>3. w.i \in DOMAIN e
            BY <1>2, <6>1, <6>2
          <6> QED BY <1>1, <5>3, <6>3
        <5> QED BY <5>2, <5>3
      <4> QED BY <1>1, <1>2, <1>8, <3>2, <4>1
    <3> QED BY <1>2, <3>1, <3>2
  <2> QED BY <2>1
<1>14. (scan[c].ptr <= Len(blocks) /\ scan[c].lb <= Len(labels))'
  <2>1. scan[c].ptr <= Len(blocks) /\ scan[c].lb <= Len(labels) /\ scan[c].ptr \in Nat
    BY <1>0 DEF RefsOf, Types, IsScan
  <2> QED BY <1>1, <1>2, <1>9, <2>1
<1>15. pc'[c] # "compact"
  BY <1>2
<1>16. RefsOf(c)'
  BY <1>10, <1>11, <1>12, <1>13, <1>14, <1>15 DEF RefsOf
<1>17. Len(labels) <= Len(labels')
  BY <1>0, <1>2 DEF Types
<1> QED BY <1>1, <1>2, <1>4, <1>5, <1>6, <1>16, <1>17, HolderBasic

LEMMA EditCommits ==
  ASSUME Basic, CommitsInv, NEW c \in Client, pc[c] = "open", c \notin ReadOnly, txn[c].locked \/ vertex_futex = 0,
         NEW l \in Label, NEW p, NEW e, NEW m, NEW ws, NEW chained, Edited(c, l, p, e, m, ws, chained)
  PROVE  CommitsInv'
PROOF
<1>0. Types /\ PlaceOf(c) /\ RefsOf(c) /\ TailsOf(c) /\ TopsOf(c) /\ PendOf(c) /\ SettledInv /\ CommitInv
  BY DEF Basic, PlaceInv, RefsInv, CommitsInv, TailsInv, TopsInv, PendInv
<1>1. /\ Alone(c) /\ Types' /\ OlderInv' /\ LabelsInv' /\ TailInv'
      /\ \A k : HeadOf(k)' = HeadOf(k)
      /\ Len(blocks) <= Len(blocks') /\ DOMAIN blocks \subseteq DOMAIN blocks' /\ p \in DOMAIN blocks'
      /\ blocks'[p].entries = e /\ blocks'[p].num = chained[p].num
      /\ \A o \in DOMAIN blocks :
           /\ blocks'[o].creation = blocks[o].creation /\ blocks'[o].committed = blocks[o].committed
           /\ blocks'[o].num = blocks[o].num /\ blocks'[o].prev = blocks[o].prev
           /\ o # p => blocks'[o] = blocks[o]
      /\ CommittedInv'
  BY EditFacts
<1>2. /\ UNCHANGED <<visible, sealed, stage, transaction_id, edge_label_ptr, labels, freed, freedLabels, scan, pc,
                     compaction, committed>>
      /\ txn'[c].id = txn[c].id /\ txn'[c].read = txn[c].read /\ txn'[c].epoch = txn[c].epoch /\ txn'[c].locked
      /\ txn'[c].ptrs = [txn[c].ptrs EXCEPT ![l] = p] /\ txn'[c].tails = [txn[c].tails EXCEPT ![p] = m]
      /\ Members(txn'[c].stamps) = Members(txn[c].stamps) \cup Members(ws)
      /\ txn'[c].own = txn[c].own \cup ({p} \ DOMAIN blocks)
      /\ \A k \in Label \ {l} : txn'[c].mine[k] = txn[c].mine[k]
      /\ p \in Pointer /\ m \in Nat /\ chained[p].num <= m
  BY DEF Edited
<1>3. /\ p \in DOMAIN blocks =>
           /\ p = HeadOf(l) \/ p \in txn[c].own
           /\ p \in txn[c].own => Word("block", p, 0) \in Members(txn[c].stamps)
           /\ txn[c].tails[p] # NoTail => txn[c].tails[p] <= m
      /\ p \notin DOMAIN blocks => p = Len(blocks) + 1 /\ Word("block", p, 0) \in Members(ws)
      /\ \A x \in committed : x.label = l => x.epoch <= txn[c].read
      /\ \A w \in Members(ws) :
           \/ w = Word("block", p, 0) /\ p \notin DOMAIN blocks
           \/ w.field \in {"creation", "deletion"} /\ w.p = p /\ w.i \in 1 .. m
  BY DEF Edited
<1>4. Open(c) /\ Open(c)' /\ Writer(c) /\ ~Installing(c) /\ ~Installing(c)' /\ pc[c] = "open" /\ pc'[c] = "open"
  BY <1>2 DEF Open, Writer, Installing
<1>5. Holds(c) \/ vertex_futex = 0
  BY <1>4 DEF Holds
<1>6. \A d \in Client : ~Installing(d)
  BY <1>4, <1>5, OthersBare
<1>7. /\ txn[c].ptrs \in [Label -> Nat \cup {NoCache}] /\ txn[c].tails \in [Pointer -> Nat \cup {NoTail}]
      /\ txn[c].own \subseteq DOMAIN blocks /\ \A k \in Label : txn[c].ptrs[k] <= Len(blocks)
  BY <1>0, <1>4, TxnFields DEF RefsOf
<1>8. Len(blocks) \in Nat /\ DOMAIN blocks = 1 .. Len(blocks)
  BY <1>0 DEF Types
<1>9. \A k : HeadOf(k) \in 0 .. Len(blocks)
  <2>1. OlderInv /\ LabelsInv
    BY DEF Basic
  <2> QED BY <1>0, <2>1, LocateFacts
<1>10. TopsOf(c)'
  <2>1. ASSUME NEW q \in txn'[c].own, NEW k \in AnyLabel PROVE HeadOf(k) < q
    <3>1. CASE q \in txn[c].own
      BY <1>0, <1>4, <3>1 DEF TopsOf
    <3>2. CASE q \notin txn[c].own
      <4>1. q = Len(blocks) + 1
        BY <1>2, <1>3, <2>1, <3>2
      <4> QED BY <1>8, <1>9, <4>1
    <3> QED BY <3>1, <3>2
  <2>2. ASSUME NEW k \in Label, txn'[c].ptrs[k] # NoCache
        PROVE  txn'[c].ptrs[k] = HeadOf(k) \/ txn'[c].ptrs[k] \in txn'[c].own
    <3>1. CASE k = l
      <4>1. txn'[c].ptrs[k] = p
        BY <1>2, <1>7, <3>1
      <4> QED BY <1>2, <1>3, <3>1, <4>1
    <3>2. CASE k # l
      <4>1. txn'[c].ptrs[k] = txn[c].ptrs[k]
        BY <1>2, <1>7, <3>2
      <4> QED BY <1>0, <1>2, <1>4, <2>2, <4>1 DEF TopsOf
    <3> QED BY <3>1, <3>2
  <2> QED BY <1>1, <1>4, <2>1, <2>2 DEF TopsOf
<1>11. TailsOf(c)'
  <2>1. ASSUME NEW q \in Pointer, txn'[c].tails[q] # NoTail PROVE blocks'[q].num <= txn'[c].tails[q]
    <3>1. CASE q = p
      <4>1. txn'[c].tails[q] = m
        BY <1>2, <1>7, <3>1
      <4> QED BY <1>1, <1>2, <3>1, <4>1
    <3>2. CASE q # p
      <4>1. txn'[c].tails[q] = txn[c].tails[q]
        BY <1>2, <1>7, <3>2
      <4>2. q \in DOMAIN blocks /\ blocks[q].num <= txn[c].tails[q]
        BY <1>0, <1>4, <2>1, <4>1 DEF TailsOf, RefsOf
      <4> QED BY <1>1, <4>1, <4>2
    <3> QED BY <3>1, <3>2
  <2>2. ASSUME NEW w \in Members(txn'[c].stamps), w.field \in {"creation", "deletion"}
        PROVE  txn'[c].tails[w.p] # NoTail /\ w.i \in 1 .. txn'[c].tails[w.p]
    <3>1. CASE w \in Members(ws)
      <4>1. w # Word("block", p, 0)
        BY <2>2 DEF Word
      <4>2. w.p = p /\ w.i \in 1 .. m
        BY <1>3, <3>1, <4>1
      <4>3. txn'[c].tails[p] = m
        BY <1>2, <1>7
      <4> QED BY <1>2, <4>2, <4>3
    <3>2. CASE w \in Members(txn[c].stamps)
      <4>1. txn[c].tails[w.p] # NoTail /\ w.i \in 1 .. txn[c].tails[w.p] /\ w.p \in DOMAIN blocks
        BY <1>0, <1>4, <2>2, <3>2 DEF TailsOf, RefsOf
      <4>2. w.p \in Pointer
        BY <1>0, <4>1, BlockFields
      <4>3. CASE w.p = p
        <5>1. txn'[c].tails[w.p] = m /\ txn[c].tails[p] <= m /\ txn[c].tails[p] \in Nat
          BY <1>2, <1>3, <1>7, <4>1, <4>3
        <5> QED BY <1>2, <4>1, <4>3, <5>1
      <4>4. CASE w.p # p
        BY <1>2, <1>7, <4>1, <4>2, <4>4
      <4> QED BY <4>3, <4>4
    <3> QED BY <1>2, <2>2, <3>1, <3>2
  <2> QED BY <2>1, <2>2 DEF TailsOf
<1>12. PendOf(c)'
  <2> SUFFICES ASSUME NEW k \in Label
      PROVE  (/\ txn[c].ptrs[k] \notin {NoCache, NULLPOINTER} =>
                   /\ txn[c].ptrs[k] \in txn[c].own => Word("block", txn[c].ptrs[k], 0) \in Members(txn[c].stamps)
                   /\ txn[c].tails[txn[c].ptrs[k]] # NoTail
              /\ DOMAIN txn[c].mine[k] # {} => txn[c].ptrs[k] \notin {NoCache, NULLPOINTER}
              /\ txn[c].ptrs[k] # NoCache => \A x \in committed : x.label = k => x.epoch <= txn[c].read)'
    BY DEF PendOf
  <2>1. CASE k = l
    <3>1. txn'[c].ptrs[k] = p /\ txn'[c].tails[p] = m /\ p # NULLPOINTER /\ p # NoCache
      <4>1. DOMAIN blocks' = 1 .. Len(blocks') /\ Len(blocks') \in Nat
        BY <1>1 DEF Types
      <4> QED BY <1>1, <1>2, <1>7, <2>1, <4>1
    <3>2. Word("block", p, 0) \in Members(txn[c].stamps) \cup Members(ws) \/ p \notin txn'[c].own
      BY <1>2, <1>3
    <3>3. (txn[c].ptrs[k] \in txn[c].own => Word("block", txn[c].ptrs[k], 0) \in Members(txn[c].stamps))'
      BY <1>2, <3>1, <3>2 DEF Word
    <3>4. (txn[c].tails[txn[c].ptrs[k]] # NoTail)'
      BY <1>2, <3>1
    <3>5. (\A x \in committed : x.label = k => x.epoch <= txn[c].read)'
      BY <1>2, <1>3, <2>1
    <3> QED BY <3>1, <3>3, <3>4, <3>5
  <2>2. CASE k # l
    <3>1. txn'[c].ptrs[k] = txn[c].ptrs[k] /\ txn'[c].mine[k] = txn[c].mine[k]
      BY <1>2, <1>7, <2>2
    <3>2. PICK q : q = txn[c].ptrs[k] /\ q = txn'[c].ptrs[k] /\ q \in Nat \cup {NoCache} /\ q <= Len(blocks)
      BY <1>7, <3>1
    <3>3. /\ q \notin {NoCache, NULLPOINTER} =>
               /\ q \in txn[c].own => Word("block", q, 0) \in Members(txn[c].stamps)
               /\ txn[c].tails[q] # NoTail
          /\ DOMAIN txn[c].mine[k] # {} => q \notin {NoCache, NULLPOINTER}
          /\ q # NoCache => \A x \in committed : x.label = k => x.epoch <= txn[c].read
      BY <1>0, <1>4, <3>2 DEF PendOf
    <3>4. ASSUME q \notin {NoCache, NULLPOINTER}
          PROVE  (q \in txn'[c].own => Word("block", q, 0) \in Members(txn'[c].stamps)) /\ txn'[c].tails[q] # NoTail
      <4>1. q \in DOMAIN blocks
        BY <1>8, <3>2, <3>4
      <4>2. q \in txn'[c].own => q \in txn[c].own
        BY <1>2, <4>1
      <4>3. q \in Pointer
        BY <1>0, <4>1, BlockFields
      <4>4. txn'[c].tails[q] # NoTail
        BY <1>2, <1>7, <3>3, <3>4, <4>3
      <4> QED BY <1>2, <3>3, <3>4, <4>2, <4>4
    <3>5. (txn[c].ptrs[k] \notin {NoCache, NULLPOINTER} =>
              /\ txn[c].ptrs[k] \in txn[c].own => Word("block", txn[c].ptrs[k], 0) \in Members(txn[c].stamps)
              /\ txn[c].tails[txn[c].ptrs[k]] # NoTail)'
      BY <3>2, <3>4 DEF Word
    <3>6. (DOMAIN txn[c].mine[k] # {} => txn[c].ptrs[k] \notin {NoCache, NULLPOINTER})'
      BY <3>1, <3>2, <3>3
    <3>7. (txn[c].ptrs[k] # NoCache => \A x \in committed : x.label = k => x.epoch <= txn[c].read)'
      BY <1>2, <3>2, <3>3
    <3> QED BY <3>5, <3>6, <3>7
  <2> QED BY <2>1, <2>2
<1>13. InstallOf(c)' /\ BoundOf(c)'
  BY <1>4 DEF InstallOf, BoundOf
<1>14. \A d \in Client : ~Installing(d)'
  BY <1>1, <1>2, <1>4, <1>5, OthersCommit
<1>15. SettledInv'
  <2> SUFFICES ASSUME NEW k \in AnyLabel, HeadOf(k) # NULLPOINTER PROVE Steady(HeadOf(k))'
    BY <1>1 DEF SettledInv
  <2>1. PICK h \in DOMAIN blocks : h = HeadOf(k)
    BY <1>8, <1>9
  <2>2. Steady(h)
    BY <1>0, <1>6, <2>1 DEF SettledInv
  <2>3. blocks'[h].creation = blocks[h].creation /\ blocks'[h].committed = blocks[h].committed
    BY <1>1
  <2>4. \A d \in Client : txn'[d].read = txn[d].read
    BY <1>1, <1>2 DEF Alone, Same
  <2>5. visible' = visible
    BY <1>2
  <2>6. Steady(h)'
    BY <2>2, <2>3, <2>4, <2>5 DEF Steady, Old, Active
  <2>7. HeadOf(k)' = h
    BY <1>1, <2>1
  <2> QED BY <2>6, <2>7 DEF Steady
<1>16. CommitInv'
  <2> SUFFICES ASSUME NEW x \in committed PROVE CommitOf(x)'
    BY <1>2 DEF CommitInv
  <2>1. CommitOf(x)
    BY <1>0 DEF CommitInv
  <2>2. HeadOf(x.label) # NULLPOINTER /\ x.epoch <= blocks[HeadOf(x.label)].committed /\ x.epoch <= sealed
    BY <1>6, <2>1 DEF CommitOf
  <2>3. PICK h \in DOMAIN blocks : h = HeadOf(x.label)
    BY <1>8, <1>9, <2>2
  <2>4. HeadOf(x.label)' = h /\ h # NULLPOINTER /\ x.epoch <= blocks'[h].committed /\ sealed' = sealed
    BY <1>1, <1>2, <2>2, <2>3
  <2> QED BY <1>14, <2>2, <2>4 DEF CommitOf
<1>17. visible' = visible
  BY <1>2
<1> QED BY <1>1, <1>2, <1>5, <1>10, <1>11, <1>12, <1>13, <1>15, <1>16, <1>17, HolderCommit

LEMMA LookBasic ==
  ASSUME Basic, CommitsInv, NEW c \in Client, pc[c] = "open", c \notin ReadOnly, txn[c].locked \/ vertex_futex = 0,
         NEW l \in Label, Looked(c, l)
  PROVE  Basic' /\ CommitsInv'
PROOF
<1>0. /\ Types /\ PlaceOf(c) /\ RefsOf(c) /\ TailsOf(c) /\ TopsOf(c) /\ PendOf(c) /\ SettledInv /\ CommitInv
      /\ CommittedInv /\ OlderInv /\ LabelsInv /\ TailInv
  BY DEF Basic, PlaceInv, RefsInv, CommitsInv, TailsInv, TopsInv, PendInv
<1>1. /\ UNCHANGED <<visible, sealed, stage, transaction_id, edge_label_ptr, labels, blocks, freed, freedLabels, scan, pc,
                     compaction, committed>>
      /\ vertex_futex' = 1
      /\ txn' \in [Client -> TxnRec] /\ \A d \in Client \ {c} : txn'[d] = txn[d]
      /\ txn'[c].id = txn[c].id /\ txn'[c].read = txn[c].read /\ txn'[c].epoch = txn[c].epoch /\ txn'[c].locked
      /\ txn'[c].tails = txn[c].tails /\ txn'[c].stamps = txn[c].stamps /\ txn'[c].own = txn[c].own
      /\ txn'[c].mine = txn[c].mine
  BY DEF Looked
<1>2. ASSUME NEW k \in Label
      PROVE  \/ txn'[c].ptrs[k] = txn[c].ptrs[k]
             \/ /\ txn'[c].ptrs[k] = NULLPOINTER /\ HeadOf(k) = NULLPOINTER /\ txn[c].ptrs[k] \in {NoCache, NULLPOINTER}
                /\ \A x \in committed : x.label = k => x.epoch <= txn[c].read
  BY DEF Looked
<1>3. Open(c) /\ Open(c)' /\ Writer(c) /\ Writer(c)' /\ ~Installing(c) /\ ~Installing(c)' /\ pc'[c] = "open"
  BY <1>1 DEF Open, Writer, Installing
<1>4. Holds(c) \/ vertex_futex = 0
  BY <1>3 DEF Holds
<1>5. \A d \in Client : ~Installing(d)
  BY <1>3, <1>4, OthersBare
<1>6. Alone(c)
  BY <1>1 DEF Alone, Same
<1>7. Types' /\ OlderInv' /\ LabelsInv' /\ TailInv' /\ CommittedInv'
  <2>1. Types'
    BY <1>0, <1>1 DEF Types, EpochInv
  <2> QED BY <1>0, <1>1, <2>1 DEF OlderInv, Older, LabelsInv, TailInv, CommittedInv
<1>8. PlaceOf(c)'
  BY <1>0, <1>1, <1>3 DEF PlaceOf
<1>9. LockInv'
  BY <1>1, <1>4, <1>6, LockTaken
<1>10. Len(blocks) \in Nat /\ Len(labels) \in Nat
  BY <1>0 DEF Types
<1>11. RefsOf(c)'
  <2>1. (\A k \in Label : txn[c].ptrs[k] <= Len(blocks))'
    <3>1. ASSUME NEW k \in Label PROVE txn'[c].ptrs[k] <= Len(blocks)
      BY <1>0, <1>2, <1>3, <1>10 DEF RefsOf
    <3> QED BY <1>1, <3>1
  <2> QED BY <1>0, <1>1, <1>3, <2>1 DEF RefsOf
<1>12. Len(blocks) <= Len(blocks') /\ Len(labels) <= Len(labels')
  BY <1>1, <1>10
<1>13. Basic'
  BY <1>1, <1>4, <1>6, <1>7, <1>8, <1>9, <1>11, <1>12, HolderBasic
<1>14. \A k : HeadOf(k)' = HeadOf(k)
  BY <1>1 DEF HeadOf, Pointed
<1>15. TopsOf(c)'
  <2>1. (\A q \in txn[c].own, k \in AnyLabel : HeadOf(k) < q)'
    BY <1>0, <1>1, <1>3, <1>14 DEF TopsOf
  <2>2. ASSUME NEW k \in Label, txn'[c].ptrs[k] # NoCache
        PROVE  txn'[c].ptrs[k] = HeadOf(k)' \/ txn'[c].ptrs[k] \in txn'[c].own
    BY <1>0, <1>1, <1>2, <1>3, <1>14, <2>2 DEF TopsOf
  <2> QED BY <1>3, <2>1, <2>2 DEF TopsOf
<1>16. TailsOf(c)'
  BY <1>0, <1>1, <1>3 DEF TailsOf
<1>17. PendOf(c)'
  <2> SUFFICES ASSUME NEW k \in Label
      PROVE  (/\ txn[c].ptrs[k] \notin {NoCache, NULLPOINTER} =>
                   /\ txn[c].ptrs[k] \in txn[c].own => Word("block", txn[c].ptrs[k], 0) \in Members(txn[c].stamps)
                   /\ txn[c].tails[txn[c].ptrs[k]] # NoTail
              /\ DOMAIN txn[c].mine[k] # {} => txn[c].ptrs[k] \notin {NoCache, NULLPOINTER}
              /\ txn[c].ptrs[k] # NoCache => \A x \in committed : x.label = k => x.epoch <= txn[c].read)'
    BY DEF PendOf
  <2>1. CASE txn'[c].ptrs[k] = txn[c].ptrs[k]
    BY <1>0, <1>1, <1>3, <2>1 DEF PendOf
  <2>2. CASE /\ txn'[c].ptrs[k] = NULLPOINTER /\ HeadOf(k) = NULLPOINTER /\ txn[c].ptrs[k] \in {NoCache, NULLPOINTER}
             /\ \A x \in committed : x.label = k => x.epoch <= txn[c].read
    <3>1. DOMAIN txn[c].mine[k] = {}
      BY <1>0, <1>3, <2>2 DEF PendOf
    <3> QED BY <1>1, <2>2, <3>1
  <2> QED BY <1>2, <2>1, <2>2
<1>18. InstallOf(c)' /\ BoundOf(c)'
  BY <1>3 DEF InstallOf, BoundOf
<1>19. \A d \in Client : ~Installing(d)'
  BY <1>1, <1>3, <1>4, <1>6, OthersCommit
<1>20. SettledInv'
  <2> SUFFICES ASSUME NEW k \in AnyLabel, HeadOf(k) # NULLPOINTER PROVE Steady(HeadOf(k))'
    BY <1>14 DEF SettledInv
  <2>1. PICK h : h = HeadOf(k)
    OBVIOUS
  <2>2. Steady(h)
    BY <1>0, <1>5, <2>1 DEF SettledInv
  <2>3. \A d \in Client : txn'[d].read = txn[d].read
    BY <1>1 DEF Alone, Same
  <2>4. Steady(h)'
    BY <1>1, <2>2, <2>3 DEF Steady, Old, Active
  <2>5. HeadOf(k)' = h
    BY <1>14, <2>1
  <2> QED BY <2>4, <2>5 DEF Steady
<1>21. CommitInv'
  <2> SUFFICES ASSUME NEW x \in committed PROVE CommitOf(x)'
    BY <1>1 DEF CommitInv
  <2>1. CommitOf(x)
    BY <1>0 DEF CommitInv
  <2>2. HeadOf(x.label) # NULLPOINTER /\ x.epoch <= blocks[HeadOf(x.label)].committed /\ x.epoch <= sealed
    BY <1>5, <2>1 DEF CommitOf
  <2> QED BY <1>1, <1>14, <1>19, <2>2 DEF CommitOf
<1>22. CommitsInv'
  BY <1>1, <1>4, <1>6, <1>7, <1>15, <1>16, <1>17, <1>18, <1>20, <1>21, HolderCommit
<1> QED BY <1>13, <1>22

-----------------------------------------------------------------------------
(* put_edge and del_edge *)

LEMMA OperateFacts ==
  ASSUME NEW c \in Client, Operate(c)
  PROVE  /\ pc[c] = "open" /\ c \notin ReadOnly /\ (txn[c].locked \/ vertex_futex = 0) /\ vertex_futex' = 1
         /\ UNCHANGED <<visible, sealed, stage, transaction_id, edge_label_ptr, labels, freed, freedLabels, scan, pc,
                        compaction, committed>>
BY DEF Operate, epochsVars

LEMMA JustLocked ==
  ASSUME Types, NEW c \in Client, NEW l, Operate(c), SetTxn(c, Locked(c)), blocks' = blocks
  PROVE  Looked(c, l)
PROOF
<1>1. PICK t : t = Locked(c)
  OBVIOUS
<1>2. /\ t \in TxnRec /\ t.locked = TRUE /\ t.id = txn[c].id /\ t.read = txn[c].read /\ t.ptrs = txn[c].ptrs
      /\ t.tails = txn[c].tails /\ t.stamps = txn[c].stamps /\ t.own = txn[c].own
      /\ t.epoch = txn[c].epoch /\ t.mine = txn[c].mine
  BY <1>1, LockedFacts
<1>3. txn' = [txn EXCEPT ![c] = t]
  BY <1>1 DEF SetTxn
<1>4. txn' \in [Client -> TxnRec] /\ txn'[c] = t /\ \A d \in Client \ {c} : txn'[d] = txn[d]
  BY <1>2, <1>3 DEF Types
<1>5. /\ vertex_futex' = 1
      /\ UNCHANGED <<visible, sealed, stage, transaction_id, edge_label_ptr, labels, freed, freedLabels, scan, pc,
                     compaction, committed>>
  BY OperateFacts
<1> QED BY <1>2, <1>4, <1>5 DEF Looked

\* What Wrote does, with its caches as they are for the provers.
Put(f, x, y)          == [f EXCEPT ![x] = y]
Filled(chained, p, e) == [chained EXCEPT ![p].entries = e]
LEMMA WrotePut ==
  ASSUME Types, NEW c \in Client, NEW t \in TxnRec, NEW l \in Label, NEW d \in AllDst, NEW p \in Pointer, NEW n \in Nat,
         NEW words \in Seq(WordRec), NEW data \in Int, Wrote(c, t, l, d, p, n, words, data)
  PROVE  /\ txn' \in [Client -> TxnRec] /\ \A e \in Client \ {c} : txn'[e] = txn[e]
         /\ txn'[c].id = t.id /\ txn'[c].read = t.read /\ txn'[c].locked = t.locked /\ txn'[c].epoch = t.epoch
         /\ txn'[c].own = t.own
         /\ txn'[c].ptrs = Put(t.ptrs, l, p) /\ txn'[c].tails = Put(t.tails, p, n)
         /\ Members(txn'[c].stamps) = Members(t.stamps) \cup Members(words)
         /\ \A k \in Label \ {l} : txn'[c].mine[k] = t.mine[k]
BY WroteFacts DEF Put

\* What put_edge leaves of the transaction, and of the block it writes in.
DidPut(c, t, l, p, n, words, chained, e, ws) ==
  /\ blocks' = Filled(chained, p, e) /\ Len(e) = n + 1
  /\ Members(words) \subseteq Members(ws)
  /\ \A w \in Members(ws) : \/ w \in Members(words)
                            \/ w.field \in {"creation", "deletion"} /\ w.p = p /\ w.i \in 1 .. n + 1
  /\ txn' \in [Client -> TxnRec] /\ \A f \in Client \ {c} : txn'[f] = txn[f]
  /\ txn'[c].id = t.id /\ txn'[c].read = t.read /\ txn'[c].locked = t.locked /\ txn'[c].epoch = t.epoch
  /\ txn'[c].own = t.own
  /\ txn'[c].ptrs = Put(t.ptrs, l, p) /\ txn'[c].tails = Put(t.tails, p, n + 1)
  /\ Members(txn'[c].stamps) = Members(t.stamps) \cup Members(ws)
  /\ \A k \in Label \ {l} : txn'[c].mine[k] = t.mine[k]

LEMMA PutInDoes ==
  ASSUME Types, NEW c \in Client, NEW l \in Label, NEW d \in AllDst, NEW t \in TxnRec,
         NEW chained \in Seq(BlockRec), NEW p \in DOMAIN chained, p \in Pointer,
         NEW n \in Nat, n <= Len(chained[p].entries), NEW words \in Seq(WordRec),
         PutIn(c, t, l, d, p, n, chained, words)
  PROVE  \E e \in Seq(EntryRec), ws \in Seq(WordRec) : DidPut(c, t, l, p, n, words, chained, e, ws)
PROOF
<1>1. PICK e \in Seq(EntryRec), ws \in Seq(WordRec) :
        /\ blocks' = [chained EXCEPT ![p].entries = e] /\ Len(e) = n + 1
        /\ Wrote(c, t, l, d, p, n + 1, ws, t.id)
        /\ Members(words) \subseteq Members(ws)
        /\ \A w \in Members(ws) : \/ w \in Members(words)
                                  \/ w.field \in {"creation", "deletion"} /\ w.p = p /\ w.i \in 1 .. n + 1
  BY PutInFacts
<1>2. n + 1 \in Nat /\ t.id \in Int
  BY DEF TxnRec
<1>3. PICK m \in Nat, data \in Int : m = n + 1 /\ data = t.id
  BY <1>2
<1>4. Wrote(c, t, l, d, p, m, ws, data)
  BY <1>1, <1>3
<1>5. /\ txn' \in [Client -> TxnRec] /\ \A f \in Client \ {c} : txn'[f] = txn[f]
      /\ txn'[c].id = t.id /\ txn'[c].read = t.read /\ txn'[c].locked = t.locked /\ txn'[c].epoch = t.epoch
      /\ txn'[c].own = t.own
      /\ txn'[c].ptrs = Put(t.ptrs, l, p) /\ txn'[c].tails = Put(t.tails, p, m)
      /\ Members(txn'[c].stamps) = Members(t.stamps) \cup Members(ws)
      /\ \A k \in Label \ {l} : txn'[c].mine[k] = t.mine[k]
  BY <1>4, WrotePut
<1>6. DidPut(c, t, l, p, n, words, chained, e, ws)
  BY <1>1, <1>3, <1>5 DEF Filled, DidPut
<1> QED BY <1>6

\* A transaction that may write in a block p, whether that is there already or is a new one on top of chained.
SameTxn(c, t) ==
  /\ t.locked = TRUE /\ t.id = txn[c].id /\ t.read = txn[c].read /\ t.epoch = txn[c].epoch
  /\ t.ptrs = txn[c].ptrs /\ t.tails = txn[c].tails /\ t.stamps = txn[c].stamps /\ t.mine = txn[c].mine
ReadyBlocks(c, p, n, t, chained) ==
  /\ t.own = txn[c].own \cup ({p} \ DOMAIN blocks)
  /\ Len(chained) <= MaxBlock /\ Len(blocks) <= Len(chained) /\ \A o \in DOMAIN blocks : chained[o] = blocks[o]
  /\ \A o \in DOMAIN chained : o \in DOMAIN blocks \/ o = p
  /\ chained[p].num <= n
ReadyBlock(c, l, p, n, words, chained) ==
  /\ p \in DOMAIN blocks =>
       /\ p = TopOf(c, l) /\ (p = HeadOf(l) \/ p \in txn[c].own)
       /\ p \in txn[c].own => Word("block", p, 0) \in Members(txn[c].stamps)
       /\ txn[c].tails[p] # NoTail => txn[c].tails[p] <= n
  /\ p \notin DOMAIN blocks =>
       /\ p = Len(blocks) + 1 /\ chained[p].prev \in 0 .. p - 1 /\ chained[p].committed <= sealed
       /\ chained[p].prev = TopOf(c, l) /\ chained[p].creation = -txn[c].id
       /\ Word("block", p, 0) \in Members(words)
Ready(c, l, p, n, t, words, chained) ==
  /\ SameTxn(c, t) /\ ReadyBlocks(c, p, n, t, chained) /\ ReadyBlock(c, l, p, n, words, chained)
  /\ \A w \in Members(words) : \/ w = Word("block", p, 0) /\ p \notin DOMAIN blocks
                               \/ w.field \in {"creation", "deletion"} /\ w.p = p /\ w.i \in 1 .. n
  /\ \A x \in committed : x.label = l => x.epoch <= txn[c].read

LEMMA PutInEdits ==
  ASSUME Types, NEW c \in Client, NEW l \in Label, NEW d \in AllDst, Operate(c), NEW t \in TxnRec,
         NEW chained \in Seq(BlockRec), NEW p \in DOMAIN chained, p \in Pointer,
         NEW n \in Nat, n <= Len(chained[p].entries), NEW words \in Seq(WordRec),
         Ready(c, l, p, n, t, words, chained), PutIn(c, t, l, d, p, n, chained, words)
  PROVE  \E e, m, ws : Edited(c, l, p, e, m, ws, chained)
PROOF
<1>0. PICK e \in Seq(EntryRec), ws \in Seq(WordRec) : DidPut(c, t, l, p, n, words, chained, e, ws)
  BY PutInDoes
<1>1. /\ blocks' = Filled(chained, p, e) /\ Len(e) = n + 1
      /\ Members(words) \subseteq Members(ws)
      /\ \A w \in Members(ws) : \/ w \in Members(words)
                                \/ w.field \in {"creation", "deletion"} /\ w.p = p /\ w.i \in 1 .. n + 1
      /\ txn' \in [Client -> TxnRec] /\ \A f \in Client \ {c} : txn'[f] = txn[f]
      /\ txn'[c].id = t.id /\ txn'[c].read = t.read /\ txn'[c].locked = t.locked /\ txn'[c].epoch = t.epoch
      /\ txn'[c].own = t.own
      /\ txn'[c].ptrs = Put(t.ptrs, l, p) /\ txn'[c].tails = Put(t.tails, p, n + 1)
      /\ Members(txn'[c].stamps) = Members(t.stamps) \cup Members(ws)
      /\ \A k \in Label \ {l} : txn'[c].mine[k] = t.mine[k]
  BY <1>0 DEF DidPut
<1>3. PICK m \in Nat : m = n + 1
  OBVIOUS
<1>5. txn'[c].tails = [txn[c].tails EXCEPT ![p] = m]
  BY <1>1, <1>3 DEF Put, Ready, SameTxn
<1>6. chained[p].num \in Nat
  <2>1. chained[p] \in BlockRec
    OBVIOUS
  <2> QED BY <2>1 DEF BlockRec
<1>7. /\ chained[p].num <= m /\ m <= Len(e) /\ (p \in DOMAIN blocks /\ txn[c].tails[p] # NoTail => txn[c].tails[p] <= m)
  <2>1. txn[c].tails[p] \in Int
    <3>1. txn[c].tails[p] \in Nat \cup {NoTail}
      BY TxnFields
    <3> QED BY <3>1
  <2> QED BY <1>1, <1>3, <1>6, <2>1 DEF Ready, ReadyBlocks, ReadyBlock, SameTxn
<1>8. ASSUME NEW w \in Members(ws)
      PROVE  \/ w = Word("block", p, 0) /\ p \notin DOMAIN blocks
             \/ w.field \in {"creation", "deletion"} /\ w.p = p /\ w.i \in 1 .. m
  <2>1. CASE w \in Members(words)
    <3>1. \/ w = Word("block", p, 0) /\ p \notin DOMAIN blocks
          \/ w.field \in {"creation", "deletion"} /\ w.p = p /\ w.i \in 1 .. n
      BY <2>1 DEF Ready, ReadyBlocks, ReadyBlock, SameTxn
    <3>2. w.i \in 1 .. n => w.i \in 1 .. m
      BY <1>3
    <3> QED BY <3>1, <3>2
  <2>2. CASE w.field \in {"creation", "deletion"} /\ w.p = p /\ w.i \in 1 .. n + 1
    BY <1>3, <2>2
  <2> QED BY <1>1, <2>1, <2>2
<1>9. /\ vertex_futex' = 1
      /\ UNCHANGED <<visible, sealed, stage, transaction_id, edge_label_ptr, labels, freed, freedLabels, scan, pc,
                     compaction, committed>>
  BY OperateFacts
<1>10. Edited(c, l, p, e, m, ws, chained)
  BY <1>1, <1>5, <1>7, <1>8, <1>9 DEF Edited, Put, Filled, Ready, SameTxn, ReadyBlocks, ReadyBlock
<1> QED BY <1>10

\* The words of a new block: itself and the own entries it has taken over.
LEMMA NewWords ==
  ASSUME NEW p \in Nat, NEW e \in Seq(EntryRec), NEW t
  PROVE  /\ <<Word("block", p, 0)>> \o OwnWords(p, e, t) \in Seq(WordRec)
         /\ Word("block", p, 0) \in Members(<<Word("block", p, 0)>> \o OwnWords(p, e, t))
         /\ \A w \in Members(<<Word("block", p, 0)>> \o OwnWords(p, e, t)) :
              \/ w = Word("block", p, 0)
              \/ w.field \in {"creation", "deletion"} /\ w.p = p /\ w.i \in 1 .. Len(e)
PROOF
<1> DEFINE w == Word("block", p, 0)
           u == OwnWords(p, e, t)
<1>1. w \in WordRec
  BY DEF Word, WordRec
<1>2. u \in Seq(WordRec) /\ \A x \in Members(u) : \E i \in DOMAIN e : x = Word("creation", p, i)
  BY OwnWordsType
<1>3. \A x \in Members(u) : x.field \in {"creation", "deletion"} /\ x.p = p /\ x.i \in 1 .. Len(e)
  BY <1>2 DEF Word
<1> HIDE DEF w, u
<1>4. <<w>> \in Seq(WordRec) /\ Members(<<w>>) = {w}
  BY <1>1, MembersFew
<1>5. <<w>> \o u \in Seq(WordRec) /\ Members(<<w>> \o u) = {w} \cup Members(u)
  <2>1. PICK s \in Seq(WordRec) : s = <<w>>
    BY <1>4
  <2>2. s \o u \in Seq(WordRec) /\ Members(s \o u) = Members(s) \cup Members(u)
    BY <1>2, WordsJoined
  <2> QED BY <1>4, <2>1, <2>2
<1> QED BY <1>3, <1>5 DEF w, u

LEMMA PutEdgeEdits ==
  ASSUME Basic, CommitsInv, NEW c \in Client, NEW l \in Label, NEW d \in Dst, PutEdge(c, l, d)
  PROVE  (\E p, e, m, ws, chained : Edited(c, l, p, e, m, ws, chained)) \/ Looked(c, l)
PROOF
<1>0. Types /\ TailInv /\ PlaceOf(c) /\ EpochInv
  BY DEF Basic, PlaceInv, Types
<1>1. PICK t : t = Locked(c)
  OBVIOUS
<1>2. /\ t \in TxnRec /\ t.locked = TRUE /\ t.id = txn[c].id /\ t.read = txn[c].read /\ t.ptrs = txn[c].ptrs
      /\ t.tails = txn[c].tails /\ t.stamps = txn[c].stamps /\ t.own = txn[c].own
      /\ t.epoch = txn[c].epoch /\ t.mine = txn[c].mine
  BY <1>0, <1>1, LockedFacts
<1>3. PICK p : p = Located(t, l)
  OBVIOUS
<1>4. PICK n : n = IF p = NULLPOINTER THEN 0 ELSE NumEntries(t, p)
  OBVIOUS
<1>5. Operate(c)
  BY DEF PutEdge
<1>6. pc[c] = "open" /\ (txn[c].locked \/ vertex_futex = 0)
  BY <1>5, OperateFacts
<1>7. CASE Conflict(t, l)
  <2>1. SetTxn(c, Locked(c)) /\ blocks' = blocks
    BY <1>1, <1>7 DEF PutEdge
  <2>2. Looked(c, l)
    BY <1>0, <1>5, <2>1, JustLocked
  <2> QED BY <2>2
<1>8. CASE ~Conflict(t, l)
  <2>1. /\ p \in 0 .. Len(blocks) /\ p \in Pointer
        /\ p = TopOf(c, l) /\ (p = HeadOf(l) \/ p \in txn[c].own)
        /\ p # NULLPOINTER /\ p \in txn[c].own => Word("block", p, 0) \in Members(txn[c].stamps)
        /\ \A x \in committed : x.label = l => x.epoch <= txn[c].read
        /\ p # NULLPOINTER => /\ p \in DOMAIN blocks /\ NumEntries(t, p) \in Nat
                              /\ blocks[p].num <= NumEntries(t, p) /\ NumEntries(t, p) <= Len(blocks[p].entries)
    BY <1>2, <1>3, <1>6, <1>8, FirstLook
  <2>2. n \in Nat
    BY <1>4, <2>1
  <2>3. d \in AllDst
    BY DEF AllDst
  <2>4. blocks \in Seq(BlockRec) /\ Len(blocks) <= MaxBlock /\ Len(blocks) \in Nat /\ DOMAIN blocks = 1 .. Len(blocks)
    BY <1>0 DEF Types
  <2>5. ASSUME ~Grows(t, p)
        PROVE  \E e, m, ws : Edited(c, l, p, e, m, ws, blocks)
    <3>1. p # NULLPOINTER /\ n = NumEntries(t, p)
      BY <1>4, <2>5 DEF Grows
    <3>2. PutIn(c, t, l, d, p, n, blocks, <<>>)
      BY <1>1, <1>3, <1>4, <1>8, <2>5 DEF PutEdge
    <3>3. p \in DOMAIN blocks /\ p \in Pointer /\ n <= Len(blocks[p].entries) /\ <<>> \in Seq(WordRec)
      BY <2>1, <3>1
    <3>4. txn[c].tails[p] # NoTail => txn[c].tails[p] <= n
      <4>1. txn[c].tails[p] # NoTail => n = txn[c].tails[p] /\ n \in Nat
        BY <1>2, <2>2, <3>1 DEF NumEntries
      <4> QED BY <4>1
    <3>5. t.own = txn[c].own \cup ({p} \ DOMAIN blocks)
      BY <1>2, <3>3
    <3>6. Members(<<>>) = {}
      BY MembersFew
    <3>7. Ready(c, l, p, n, t, <<>>, blocks)
      BY <1>2, <2>1, <2>4, <3>1, <3>3, <3>4, <3>5, <3>6 DEF Ready, SameTxn, ReadyBlocks, ReadyBlock
    <3> QED BY <1>0, <1>2, <1>5, <2>2, <2>3, <2>4, <3>2, <3>3, <3>7, PutInEdits
  <2>6. ASSUME Grows(t, p)
        PROVE  \E q, e, m, ws, chained : Edited(c, l, q, e, m, ws, chained)
    <3>1. PICK q : q = Len(blocks) + 1
      OBVIOUS
    <3>2. PICK kept : kept = Kept(p, n, t)
      OBVIOUS
    <3>3. kept \in Seq(EntryRec) /\ Len(kept) <= n /\ Len(kept) \in Nat
      BY <1>0, <2>1, <2>2, <3>2, KeptType
    <3>4. PICK k : k = Len(kept)
      OBVIOUS
    <3>5. PICK b : b = [creation |-> -t.id, prev |-> p, committed |-> -t.id,
                        num |-> k, order |-> BlockOrder(n + 1), entries |-> kept]
      OBVIOUS
    <3>6. PICK words : words = <<Word("block", q, 0)>> \o OwnWords(q, kept, t)
      OBVIOUS
    <3>7. PICK u : u = [t EXCEPT !.own = t.own \cup {q}]
      OBVIOUS
    <3>8. PICK chained : chained = Append(blocks, b)
      OBVIOUS
    <3>9. q <= MaxBlock /\ PutIn(c, u, l, d, q, k, chained, words)
      BY <1>1, <1>3, <1>4, <1>8, <2>6, <3>1, <3>2, <3>4, <3>5, <3>6, <3>7, <3>8 DEF PutEdge
    <3>10. q \in Nat /\ q \in Pointer /\ q \notin DOMAIN blocks
      BY <2>4, <3>1, <3>9, EdgesAssumption DEF Pointer
    <3>11. b \in BlockRec /\ b.num = k /\ b.entries = kept /\ b.prev = p /\ b.committed = -t.id /\ b.creation = -t.id
      <4>1. n + 1 \in Nat /\ BlockOrder(n + 1) \in Nat
        BY <2>2, BlockOrderFits
      <4>2. t.id \in Nat /\ -t.id \in Int
        BY <1>2 DEF TxnRec
      <4>3. p \in Nat /\ k \in Nat
        BY <2>1, <3>3, <3>4
      <4> QED BY <3>3, <3>5, <4>1, <4>2, <4>3 DEF BlockRec
    <3>12. /\ chained \in Seq(BlockRec) /\ Len(chained) = Len(blocks) + 1 /\ DOMAIN chained = 1 .. Len(blocks) + 1
           /\ chained[q] = b /\ \A o \in DOMAIN blocks : chained[o] = blocks[o]
      BY <2>4, <3>1, <3>8, <3>11, SeqAdd
    <3>13. q \in DOMAIN chained /\ k <= Len(chained[q].entries) /\ k \in Nat /\ chained[q].num <= k
      BY <2>4, <3>1, <3>3, <3>4, <3>11, <3>12
    <3>14. u \in TxnRec /\ u.own = txn[c].own \cup {q} /\ u.id = t.id /\ u.read = t.read /\ u.locked = t.locked
           /\ u.ptrs = t.ptrs /\ u.tails = t.tails /\ u.stamps = t.stamps /\ u.epoch = t.epoch /\ u.mine = t.mine
      <4>1. t.own \cup {q} \in SUBSET Nat
        BY <1>2, <3>10 DEF TxnRec
      <4> QED BY <1>2, <3>7, <4>1, TxnPut_own
    <3>15. /\ words \in Seq(WordRec) /\ Word("block", q, 0) \in Members(words)
           /\ \A w \in Members(words) : \/ w = Word("block", q, 0)
                                        \/ w.field \in {"creation", "deletion"} /\ w.p = q /\ w.i \in 1 .. k
      BY <3>3, <3>4, <3>6, <3>10, NewWords
    <3>16. /\ Len(chained) <= MaxBlock /\ Len(blocks) <= Len(chained)
           /\ \A o \in DOMAIN chained : o \in DOMAIN blocks \/ o = q
      BY <2>4, <3>1, <3>9, <3>12
    <3>17. /\ chained[q].prev \in 0 .. q - 1 /\ chained[q].committed <= sealed
           /\ chained[q].prev = TopOf(c, l) /\ chained[q].creation = -txn[c].id
      <4>1. t.id \in Nat /\ sealed \in Nat
        BY <1>0, <1>2 DEF TxnRec, EpochInv
      <4>2. -t.id <= sealed
        BY <4>1
      <4>3. p \in 0 .. q - 1
        BY <2>1, <2>4, <3>1
      <4> QED BY <1>2, <2>1, <3>11, <3>12, <4>2, <4>3
    <3>18. u.own = txn[c].own \cup ({q} \ DOMAIN blocks)
      BY <3>10, <3>14
    <3>19. Ready(c, l, q, k, u, words, chained)
      <4>1. /\ u.locked = TRUE /\ u.id = txn[c].id /\ u.read = txn[c].read /\ u.epoch = txn[c].epoch
            /\ u.ptrs = txn[c].ptrs /\ u.tails = txn[c].tails /\ u.stamps = txn[c].stamps /\ u.mine = txn[c].mine
        BY <1>2, <3>14
      <4>2. \A x \in committed : x.label = l => x.epoch <= txn[c].read
        BY <2>1
      <4>3. \A w \in Members(words) : \/ w = Word("block", q, 0) /\ q \notin DOMAIN blocks
                                      \/ w.field \in {"creation", "deletion"} /\ w.p = q /\ w.i \in 1 .. k
        BY <3>10, <3>15
      <4>4. \A o \in DOMAIN blocks : chained[o] = blocks[o]
        BY <3>12
      <4>5. q = Len(blocks) + 1 /\ Word("block", q, 0) \in Members(words) /\ chained[q].num <= k
        BY <3>1, <3>13, <3>15
      <4>6. /\ q \in DOMAIN blocks =>
                 /\ q = TopOf(c, l) /\ (q = HeadOf(l) \/ q \in txn[c].own)
                 /\ q \in txn[c].own => Word("block", q, 0) \in Members(txn[c].stamps)
                 /\ txn[c].tails[q] # NoTail => txn[c].tails[q] <= k
            /\ q \notin DOMAIN blocks =>
                 /\ q = Len(blocks) + 1 /\ chained[q].prev \in 0 .. q - 1 /\ chained[q].committed <= sealed
                 /\ chained[q].prev = TopOf(c, l) /\ chained[q].creation = -txn[c].id
                 /\ Word("block", q, 0) \in Members(words)
        BY <3>10, <3>17, <4>5
      <4>7. chained[q].num <= k /\ Len(chained) <= MaxBlock /\ Len(blocks) <= Len(chained)
        BY <3>16, <4>5
      <4>8. /\ u.own = txn[c].own \cup ({q} \ DOMAIN blocks)
            /\ Len(chained) <= MaxBlock /\ Len(blocks) <= Len(chained) /\ \A o \in DOMAIN blocks : chained[o] = blocks[o]
            /\ \A o \in DOMAIN chained : o \in DOMAIN blocks \/ o = q
            /\ chained[q].num <= k
        BY Zenon, <3>16, <3>18, <4>4, <4>7
      <4>9. /\ \A w \in Members(words) : \/ w = Word("block", q, 0) /\ q \notin DOMAIN blocks
                                         \/ w.field \in {"creation", "deletion"} /\ w.p = q /\ w.i \in 1 .. k
            /\ \A x \in committed : x.label = l => x.epoch <= txn[c].read
        BY Zenon, <4>2, <4>3
      <4>10. SameTxn(c, u)
        BY <4>1 DEF SameTxn
      <4>11. ReadyBlocks(c, q, k, u, chained)
        BY <4>8 DEF ReadyBlocks
      <4>12. ReadyBlock(c, l, q, k, words, chained)
        BY <4>6 DEF ReadyBlock
      <4> QED BY <4>9, <4>10, <4>11, <4>12 DEF Ready
    <3>20. \E e, m, ws : Edited(c, l, q, e, m, ws, chained)
      BY <1>0, <1>5, <2>3, <3>9, <3>10, <3>12, <3>13, <3>14, <3>15, <3>19, PutInEdits
    <3> QED BY <3>20
  <2> QED BY <2>5, <2>6
<1> QED BY <1>7, <1>8

LEMMA DelEdgeEdits ==
  ASSUME Basic, CommitsInv, NEW c \in Client, NEW l \in Label, NEW d \in Dst, DelEdge(c, l, d)
  PROVE  (\E p, e, m, ws, chained : Edited(c, l, p, e, m, ws, chained)) \/ Looked(c, l)
PROOF
<1>0. Types /\ TailInv /\ PlaceOf(c)
  BY DEF Basic, PlaceInv
<1>1. PICK t : t = Locked(c)
  OBVIOUS
<1>2. /\ t \in TxnRec /\ t.locked = TRUE /\ t.id = txn[c].id /\ t.read = txn[c].read /\ t.ptrs = txn[c].ptrs
      /\ t.tails = txn[c].tails /\ t.stamps = txn[c].stamps /\ t.own = txn[c].own
      /\ t.epoch = txn[c].epoch /\ t.mine = txn[c].mine
  BY <1>0, <1>1, LockedFacts
<1>3. PICK p : p = Located(t, l)
  OBVIOUS
<1>5. Operate(c)
  BY DEF DelEdge
<1>6. pc[c] = "open" /\ (txn[c].locked \/ vertex_futex = 0)
  BY <1>5, OperateFacts
<1>7. CASE Conflict(t, l)
  <2>1. SetTxn(c, Locked(c)) /\ blocks' = blocks
    BY <1>1, <1>7 DEF DelEdge
  <2>2. Looked(c, l)
    BY <1>0, <1>5, <2>1, JustLocked
  <2> QED BY <2>2
<1>8. CASE ~Conflict(t, l)
  <2>1. /\ p \in 0 .. Len(blocks) /\ p \in Pointer
        /\ p = TopOf(c, l) /\ (p = HeadOf(l) \/ p \in txn[c].own)
        /\ p # NULLPOINTER /\ p \in txn[c].own => Word("block", p, 0) \in Members(txn[c].stamps)
        /\ \A x \in committed : x.label = l => x.epoch <= txn[c].read
        /\ p # NULLPOINTER => /\ p \in DOMAIN blocks /\ NumEntries(t, p) \in Nat
                              /\ blocks[p].num <= NumEntries(t, p) /\ NumEntries(t, p) <= Len(blocks[p].entries)
    BY <1>2, <1>3, <1>6, <1>8, FirstLook
  <2>2. d \in AllDst
    BY DEF AllDst
  <2>3. /\ blocks \in Seq(BlockRec) /\ Len(blocks) <= MaxBlock /\ Len(blocks) \in Nat /\ DOMAIN blocks = 1 .. Len(blocks)
        /\ txn \in [Client -> TxnRec]
    BY <1>0 DEF Types
  <2>4. ASSUME p = NULLPOINTER PROVE Looked(c, l)
    <3>1. SetTxn(c, [t EXCEPT !.ptrs[l] = p]) /\ blocks' = blocks
      BY <1>1, <1>3, <1>8, <2>4 DEF DelEdge
    <3>2. PICK f : f = [t.ptrs EXCEPT ![l] = p]
      OBVIOUS
    <3>3. PICK u : u = [t EXCEPT !.ptrs = f]
      OBVIOUS
    <3>4. txn' = [txn EXCEPT ![c] = u]
      BY <3>1, <3>2, <3>3 DEF SetTxn
    <3>5. t.ptrs \in [Label -> Nat \cup {NoCache}] /\ p \in Nat
      BY <1>2, <2>4 DEF TxnRec
    <3>6. f \in [Label -> Nat \cup {NoCache}] /\ f[l] = p /\ \A k \in Label \ {l} : f[k] = t.ptrs[k]
      BY <3>2, <3>5
    <3>7. u \in TxnRec /\ u.ptrs = f /\ u.id = t.id /\ u.read = t.read /\ u.locked = t.locked
           /\ u.own = t.own /\ u.tails = t.tails /\ u.stamps = t.stamps /\ u.epoch = t.epoch /\ u.mine = t.mine
      BY <1>2, <3>3, <3>6, TxnPut_ptrs
    <3>8. txn' \in [Client -> TxnRec] /\ txn'[c] = u /\ \A e \in Client \ {c} : txn'[e] = txn[e]
      BY <2>3, <3>4, <3>7
    <3>9. HeadOf(l) = NULLPOINTER /\ txn[c].ptrs[l] \in {NoCache, NULLPOINTER}
      <4>1. txn[c].ptrs[l] \in {NoCache, NULLPOINTER}
        BY <1>2, <1>3, <2>4 DEF Located
      <4>2. p \notin txn[c].own
        <5>1. RefsOf(c) /\ Writer(c)
          BY <1>6 DEF Basic, RefsInv, Writer, Open
        <5>2. txn[c].own \subseteq DOMAIN blocks
          BY <5>1 DEF RefsOf
        <5> QED BY <2>3, <2>4, <5>2
      <4> QED BY <2>1, <2>4, <4>1, <4>2
    <3>10. /\ vertex_futex' = 1
           /\ UNCHANGED <<visible, sealed, stage, transaction_id, edge_label_ptr, labels, freed, freedLabels, scan, pc,
                          compaction, committed>>
      BY <1>5, OperateFacts
    <3>11. /\ txn'[c].id = txn[c].id /\ txn'[c].read = txn[c].read /\ txn'[c].epoch = txn[c].epoch /\ txn'[c].locked
           /\ txn'[c].tails = txn[c].tails /\ txn'[c].stamps = txn[c].stamps /\ txn'[c].own = txn[c].own
           /\ txn'[c].mine = txn[c].mine
      BY <1>2, <3>7, <3>8
    <3>12. txn'[c].ptrs[l] = NULLPOINTER /\ \A k \in Label \ {l} : txn'[c].ptrs[k] = txn[c].ptrs[k]
      BY <1>2, <2>4, <3>6, <3>7, <3>8
    <3> QED BY <2>1, <3>1, <3>8, <3>9, <3>10, <3>11, <3>12 DEF Looked
  <2>5. ASSUME p # NULLPOINTER PROVE \E e, m, ws : Edited(c, l, p, e, m, ws, blocks)
    <3>1. PICK n \in Nat : n = NumEntries(t, p)
      BY <2>1, <2>5
    <3>2. PICK old : old = FindEdge(blocks[p].entries, n, d, t)
      OBVIOUS
    <3>3. old \in 0 .. n
      BY <3>2, FindEdgeType
    <3>4. PICK ws : ws = IF old = 0 THEN <<>> ELSE <<Word("deletion", p, old)>>
      OBVIOUS
    <3>5. /\ blocks' = IF old = 0 THEN blocks ELSE [blocks EXCEPT ![p].entries[old].deletion = -t.id]
          /\ Wrote(c, t, l, d, p, n, ws, Absent)
      BY <1>1, <1>3, <1>8, <2>5, <3>1, <3>2, <3>4 DEF DelEdge
    <3>6. p \in DOMAIN blocks /\ p \in Nat /\ n <= Len(blocks[p].entries) /\ blocks[p].num <= n
      BY <2>1, <2>3, <2>5, <3>1
    <3>7. ws \in Seq(WordRec) /\ \A w \in Members(ws) : w.field \in {"creation", "deletion"} /\ w.p = p /\ w.i \in 1 .. n
      <4>1. CASE old = 0
        BY <3>4, <4>1, MembersFew
      <4>2. CASE old # 0
        <5>1. PICK w : w = Word("deletion", p, old)
          OBVIOUS
        <5>2. w \in WordRec /\ w.field = "deletion" /\ w.p = p /\ w.i = old
          BY <3>3, <3>6, <5>1 DEF Word, WordRec
        <5>3. ws = <<w>> /\ Members(ws) = {w}
          BY <3>4, <4>2, <5>1, MembersFew
        <5>4. <<w>> \in Seq(WordRec)
          BY <5>2
        <5> QED BY <3>3, <4>2, <5>2, <5>3, <5>4
      <4> QED BY <4>1, <4>2
    <3>8. PICK e \in Seq(EntryRec) : blocks' = [blocks EXCEPT ![p].entries = e] /\ Len(e) = Len(blocks[p].entries)
      <4>1. blocks[p] \in BlockRec /\ blocks[p].entries \in Seq(EntryRec)
        BY <1>0, <3>6, BlockFields
      <4>2. CASE old = 0
        <5>1. blocks' = [blocks EXCEPT ![p].entries = blocks[p].entries]
          BY <2>3, <3>5, <3>6, <4>1, <4>2 DEF BlockRec
        <5> QED BY <4>1, <5>1
      <4>3. CASE old # 0
        <5>1. PICK s \in Seq(EntryRec) : s = blocks[p].entries
          BY <4>1
        <5>2. PICK x \in Int : x = -t.id
          <6>1. t.id \in Nat
            BY <1>2 DEF TxnRec
          <6> QED BY <6>1
        <5>3. old \in DOMAIN s
          BY <3>3, <3>6, <4>3, <5>1
        <5>4. LET v == [s EXCEPT ![old] = [s[old] EXCEPT !.deletion = x]] IN
              /\ v \in Seq(EntryRec) /\ Len(v) = Len(s)
              /\ \A i \in 1 .. Len(s) : v[i] = s[i] \/ v[i] = [s[i] EXCEPT !.deletion = x]
          BY <5>3, MarkedType
        <5>5. PICK v \in Seq(EntryRec) : v = [s EXCEPT ![old] = [s[old] EXCEPT !.deletion = x]] /\ Len(v) = Len(s)
          BY <5>4
        <5>6. blocks' = [blocks EXCEPT ![p].entries = v]
          BY <3>5, <4>3, <5>1, <5>2, <5>5
        <5> QED BY <5>1, <5>5, <5>6
      <4> QED BY <4>2, <4>3
    <3>9. /\ txn' \in [Client -> TxnRec] /\ \A f \in Client \ {c} : txn'[f] = txn[f]
          /\ txn'[c].id = t.id /\ txn'[c].read = t.read /\ txn'[c].locked = t.locked /\ txn'[c].epoch = t.epoch
          /\ txn'[c].own = t.own
          /\ txn'[c].ptrs = Put(t.ptrs, l, p) /\ txn'[c].tails = Put(t.tails, p, n)
          /\ Members(txn'[c].stamps) = Members(t.stamps) \cup Members(ws)
          /\ \A k \in Label \ {l} : txn'[c].mine[k] = t.mine[k]
      <4>1. Absent \in Int /\ p \in Pointer
        BY <2>1 DEF Absent
      <4> QED BY <1>0, <1>2, <2>2, <3>5, <3>7, <4>1, WrotePut
    <3>10. txn[c].tails[p] # NoTail => txn[c].tails[p] <= n
      <4>1. txn[c].tails[p] # NoTail => n = txn[c].tails[p]
        BY <1>2, <3>1 DEF NumEntries
      <4> QED BY <4>1
    <3>11. /\ vertex_futex' = 1
           /\ UNCHANGED <<visible, sealed, stage, transaction_id, edge_label_ptr, labels, freed, freedLabels, scan, pc,
                          compaction, committed>>
      BY <1>5, OperateFacts
    <3>12. /\ txn'[c].own = txn[c].own \cup ({p} \ DOMAIN blocks) /\ txn'[c].locked
           /\ txn'[c].ptrs = [txn[c].ptrs EXCEPT ![l] = p] /\ txn'[c].tails = [txn[c].tails EXCEPT ![p] = n]
           /\ txn'[c].id = txn[c].id /\ txn'[c].read = txn[c].read /\ txn'[c].epoch = txn[c].epoch
      BY <1>2, <3>6, <3>9 DEF Put
    <3>13. /\ p = TopOf(c, l) /\ (p = HeadOf(l) \/ p \in txn[c].own)
           /\ p \in txn[c].own => Word("block", p, 0) \in Members(txn[c].stamps)
           /\ \A x \in committed : x.label = l => x.epoch <= txn[c].read
           /\ p \in Pointer /\ n <= Len(e) /\ Len(blocks) <= Len(blocks)
      BY <2>1, <2>3, <2>5, <3>6, <3>8
    <3>14. /\ Members(txn'[c].stamps) = Members(txn[c].stamps) \cup Members(ws)
           /\ \A k \in Label \ {l} : txn'[c].mine[k] = txn[c].mine[k]
      BY <1>2, <3>9
    <3>15. Edited(c, l, p, e, n, ws, blocks)
      BY <2>3, <3>6, <3>7, <3>8, <3>9, <3>10, <3>11, <3>12, <3>13, <3>14 DEF Edited
    <3> QED BY <3>15
  <2> QED BY <2>4, <2>5
<1> QED BY <1>7, <1>8

LEMMA WriteKeeps ==
  ASSUME Basic, CommitsInv, NEW c \in Client, NEW l \in Label, NEW d \in Dst, PutEdge(c, l, d) \/ DelEdge(c, l, d)
  PROVE  Basic' /\ CommitsInv' /\ committed' = committed
PROOF
<1>1. Operate(c)
  BY DEF PutEdge, DelEdge
<1>2. pc[c] = "open" /\ c \notin ReadOnly /\ (txn[c].locked \/ vertex_futex = 0) /\ committed' = committed
  BY <1>1, OperateFacts
<1>3. (\E p, e, m, ws, chained : Edited(c, l, p, e, m, ws, chained)) \/ Looked(c, l)
  BY PutEdgeEdits, DelEdgeEdits
<1>4. CASE \E p, e, m, ws, chained : Edited(c, l, p, e, m, ws, chained)
  <2>1. PICK p, e, m, ws, chained : Edited(c, l, p, e, m, ws, chained)
    BY <1>4
  <2> QED BY <1>2, <2>1, EditBasic, EditCommits
<1>5. CASE Looked(c, l)
  BY <1>2, <1>5, LookBasic
<1> QED BY <1>2, <1>3, <1>4, <1>5

-----------------------------------------------------------------------------
(* The server registers a group *)

\* What registering does to a transaction.
Granted(d) ==
  /\ pc[d] = "registered" /\ pc'[d] = "install" /\ stage'[d] = "granted"
  /\ txn'[d].id = txn[d].id /\ txn'[d].read = txn[d].read /\ txn'[d].locked = txn[d].locked
  /\ txn'[d].ptrs = txn[d].ptrs /\ txn'[d].tails = txn[d].tails /\ txn'[d].stamps = txn[d].stamps
  /\ txn'[d].own = txn[d].own /\ txn'[d].epoch = sealed + 1 /\ txn'[d].mine = txn[d].mine
  /\ d \notin ReadOnly /\ txn[d].read >= 0

NewCommit(c, l) == [label |-> l, epoch |-> sealed + 1, read |-> txn[c].read, writes |-> txn[c].mine[l]]

LEMMA GroupFacts ==
  ASSUME Basic, NEW G \in SUBSET Client, RegisterGroup(G)
  PROVE  /\ UNCHANGED <<visible, transaction_id, vertex_futex, edge_label_ptr, labels, blocks, scan, compaction>>
         /\ sealed' = sealed + 1 /\ stage' \in [Client -> {"idle", "queued", "granted"}]
         /\ pc' \in [Client -> Place] /\ txn' \in [Client -> TxnRec]
         /\ \A d \in G : Granted(d)
         /\ \A d \in Client \ G : Same(d) /\ stage'[d] = stage[d]
         /\ \A x \in committed' : x \in committed \/ \E c \in G : \E l \in Label :
              DOMAIN txn[c].mine[l] # {} /\ x = NewCommit(c, l)
         /\ committed \subseteq committed'
PROOF
<1>0. Types /\ PlaceInv
  BY DEF Basic
<1>1. /\ Grant(G)
      /\ pc' = [c \in Client |-> IF c \in G THEN "install" ELSE pc[c]]
      /\ txn' = [c \in Client |-> IF c \in G THEN [txn[c] EXCEPT !.epoch = sealed + 1] ELSE txn[c]]
      /\ UNCHANGED <<transaction_id, vertex_futex, store, compact_table, scan, compaction, bounds>>
  BY DEF RegisterGroup
<1>2. /\ UNCHANGED <<visible, transaction_id, vertex_futex, edge_label_ptr, labels, blocks, scan, compaction>>
      /\ sealed' = sealed + 1 /\ G \subseteq Queued
      /\ stage' = [c \in Client |-> IF c \in G THEN "granted" ELSE stage[c]]
  BY <1>1 DEF Grant, store
<1>3. sealed + 1 \in Nat
  BY <1>0 DEF Types, EpochInv
<1>4. ASSUME NEW d \in G PROVE Granted(d) /\ txn'[d] \in TxnRec
  <2>1. d \in Client /\ stage[d] = "queued"
    BY <1>2 DEF Queued
  <2>2. PlaceOf(d)
    BY <1>0, <2>1 DEF PlaceInv
  <2>3. pc[d] = "registered" /\ d \notin ReadOnly /\ txn[d].read >= 0
    BY <2>1, <2>2 DEF PlaceOf, Open
  <2>4. txn[d] \in TxnRec
    BY <1>0, <2>1, TxnFields
  <2>5. PICK e \in Nat : e = sealed + 1
    BY <1>3
  <2>6. txn'[d] = [txn[d] EXCEPT !.epoch = e]
    BY <1>1, <2>1, <2>5
  <2>7. PICK u : u = [txn[d] EXCEPT !.epoch = e]
    OBVIOUS
  <2>8. /\ u \in TxnRec /\ u.epoch = e /\ u.id = txn[d].id /\ u.read = txn[d].read /\ u.locked = txn[d].locked
        /\ u.ptrs = txn[d].ptrs /\ u.tails = txn[d].tails /\ u.stamps = txn[d].stamps /\ u.own = txn[d].own
        /\ u.mine = txn[d].mine
    BY <2>4, <2>7, TxnPut_epoch
  <2>9. txn'[d] = u
    BY <2>6, <2>7
  <2>10. pc'[d] = "install" /\ stage'[d] = "granted"
    BY <1>1, <1>2, <2>1
  <2> QED BY <2>3, <2>5, <2>8, <2>9, <2>10 DEF Granted
<1>5. ASSUME NEW d \in Client \ G PROVE Same(d) /\ stage'[d] = stage[d]
  BY <1>1, <1>2 DEF Same
<1>6. pc' \in [Client -> Place]
  BY <1>0, <1>1 DEF Types, Place
<1>7. txn' \in [Client -> TxnRec]
  <2>1. ASSUME NEW d \in Client PROVE txn'[d] \in TxnRec
    BY <1>0, <1>4, <1>5, TxnFields DEF Same
  <2>2. txn' = [d \in Client |-> txn'[d]]
    BY <1>1
  <2> QED BY <2>1, <2>2
<1>8. stage' \in [Client -> {"idle", "queued", "granted"}]
  BY <1>0, <1>2 DEF Types
<1>9. /\ \A x \in committed' : x \in committed \/ \E c \in G : \E l \in Label :
           DOMAIN txn[c].mine[l] # {} /\ x = NewCommit(c, l)
      /\ committed \subseteq committed'
  BY DEF RegisterGroup, NewCommit
<1> QED BY <1>2, <1>4, <1>5, <1>6, <1>7, <1>8, <1>9

\* Those in a group who have written hold the lock, and so there is one of them.
LEMMA GroupLock ==
  ASSUME Basic, NEW G \in SUBSET Client, RegisterGroup(G)
  PROVE  /\ \A d \in Client : Holds(d)' <=> Holds(d)
         /\ \A d \in Client : Writer(d)' <=> Writer(d)
         /\ \A d \in Client : Installing(d) => Installing(d)' /\ Same(d)
         /\ \A d \in G : Open(d) /\ ~Installing(d) /\ (txn[d].locked => Holds(d))
         /\ \A d \in Client \ G : Installing(d)' => Installing(d)
         /\ \A d \in Client : Open(d)' => Open(d) /\ d \notin G
         /\ LockInv'
PROOF
<1>1. /\ \A d \in G : Granted(d)
      /\ \A d \in Client \ G : Same(d)
      /\ vertex_futex' = vertex_futex
  BY GroupFacts
<1>2. ASSUME NEW d \in Client PROVE (Holds(d)' <=> Holds(d)) /\ (Writer(d)' <=> Writer(d))
  <2>1. CASE d \in G
    BY <1>1, <2>1 DEF Granted, Holds, Writer, Open
  <2>2. CASE d \notin G
    BY <1>1, <2>2 DEF Same, Holds, Writer, Open
  <2> QED BY <2>1, <2>2
<1>3. \A d \in G : Open(d) /\ ~Installing(d) /\ (txn[d].locked => Holds(d)) /\ ~Open(d)'
  BY <1>1 DEF Granted, Open, Installing, Holds, Writer, InScan
<1>4. \A d \in Client \ G : (Installing(d)' <=> Installing(d)) /\ (Open(d)' <=> Open(d))
  BY <1>1 DEF Same, Installing, Open
<1>5. LockInv'
  BY <1>1, <1>2 DEF Basic, LockInv
<1>6. \A d \in Client : Installing(d) => Installing(d)' /\ Same(d)
  BY <1>1, <1>3, <1>4
<1> QED BY <1>2, <1>3, <1>4, <1>5, <1>6

LEMMA GroupBasic ==
  ASSUME Basic, NEW G \in SUBSET Client, RegisterGroup(G)
  PROVE  Basic'
PROOF
<1>0. /\ Types /\ OlderInv /\ PlaceInv /\ LabelsInv /\ TailInv /\ RefsInv
  BY DEF Basic
<1>1. /\ UNCHANGED <<visible, transaction_id, vertex_futex, edge_label_ptr, labels, blocks, scan, compaction>>
      /\ sealed' = sealed + 1 /\ stage' \in [Client -> {"idle", "queued", "granted"}]
      /\ pc' \in [Client -> Place] /\ txn' \in [Client -> TxnRec]
      /\ \A d \in G : Granted(d)
      /\ \A d \in Client \ G : Same(d) /\ stage'[d] = stage[d]
      /\ \A x \in committed' : x \in committed \/ \E c \in G : \E l \in Label :
           DOMAIN txn[c].mine[l] # {} /\ x = NewCommit(c, l)
  BY GroupFacts
<1>2. sealed \in Nat /\ visible \in 0 .. sealed
  BY <1>0 DEF Types, EpochInv
<1>3. committed' \subseteq [label : AnyLabel, epoch : Nat, read : Int, writes : Writes]
  <2>1. ASSUME NEW c \in G, NEW l \in Label
        PROVE  NewCommit(c, l) \in [label : AnyLabel, epoch : Nat, read : Int, writes : Writes]
    <3>1. c \in Client /\ txn[c].read \in Int /\ txn[c].mine \in [Label -> Writes]
      BY <1>0, TxnFields
    <3> QED BY <1>2, <3>1 DEF NewCommit, AnyLabel
  <2>2. \A x \in committed : x \in [label : AnyLabel, epoch : Nat, read : Int, writes : Writes]
    BY <1>0 DEF Types
  <2> QED BY <1>1, <2>1, <2>2
<1>4. Types'
  <2>1. EpochInv'
    BY <1>1, <1>2 DEF EpochInv
  <2> QED BY <1>0, <1>1, <1>3, <2>1 DEF Types
<1>5. OlderInv' /\ LabelsInv' /\ TailInv'
  BY <1>0, <1>1 DEF OlderInv, Older, LabelsInv, TailInv
<1>6. ASSUME NEW d \in Client PROVE PlaceOf(d)' /\ RefsOf(d)'
  <2>0. PlaceOf(d) /\ RefsOf(d)
    BY <1>0 DEF PlaceInv, RefsInv
  <2>1. CASE d \in G
    <3>1. Granted(d)
      BY <1>1, <2>1
    <3>2. PlaceOf(d)'
      BY <1>1, <1>2, <2>0, <3>1 DEF Granted, PlaceOf, Bare, Open, Writer, InScan
    <3>3. RefsOf(d)'
      <4>1. Writer(d) /\ pc'[d] # "compact"
        BY <3>1 DEF Granted, Writer, Open
      <4> QED BY <1>1, <2>0, <3>1, <4>1 DEF Granted, RefsOf
    <3> QED BY <3>2, <3>3
  <2>2. CASE d \notin G
    <3>1. Same(d) /\ stage'[d] = stage[d]
      BY <1>1, <2>2
    <3>2. visible' \in Nat /\ visible <= visible' /\ sealed' \in Nat /\ sealed <= sealed'
          /\ transaction_id' \in Nat /\ transaction_id <= transaction_id'
      BY <1>0, <1>1, <1>2 DEF Types
    <3> QED BY <1>0, <1>1, <2>0, <3>1, <3>2, OtherPlace, OtherRefs
  <2> QED BY <2>1, <2>2
<1>7. LockInv'
  BY GroupLock
<1> QED BY <1>4, <1>5, <1>6, <1>7 DEF Basic, PlaceInv, RefsInv

\* Whoever in a group has written or located a label holds the lock.
LEMMA GroupHolder ==
  ASSUME Basic, NEW G \in SUBSET Client, RegisterGroup(G), NEW d \in Client, d \in G \/ Open(d),
         NEW l \in Label, txn[d].ptrs[l] # NoCache \/ DOMAIN txn[d].mine[l] # {}
  PROVE  txn[d].locked /\ Holds(d)
PROOF
<1>1. PlaceOf(d)
  BY DEF Basic, PlaceInv
<1>2. Open(d)
  BY GroupLock
<1>3. ~Bare(txn[d])
  BY DEF Bare
<1>4. txn[d].locked
  BY <1>1, <1>3 DEF PlaceOf
<1> QED BY <1>2, <1>4 DEF Holds, Writer

LEMMA GroupTops ==
  ASSUME Basic, CommitsInv, NEW G \in SUBSET Client, RegisterGroup(G), NEW d \in Client
  PROVE  TopsOf(d)' /\ TailsOf(d)' /\ BoundOf(d)'
PROOF
<1>0. /\ Types /\ TopsOf(d) /\ TailsOf(d) /\ BoundOf(d) /\ RefsOf(d) /\ LabelsInv
  BY DEF Basic, RefsInv, CommitsInv, TopsInv, TailsInv, BoundInv
<1>1. /\ UNCHANGED <<visible, transaction_id, vertex_futex, edge_label_ptr, labels, blocks, scan, compaction>>
      /\ \A e \in G : Granted(e)
      /\ \A e \in Client \ G : Same(e)
  BY GroupFacts
<1>2. \A l : HeadOf(l)' = HeadOf(l)
  BY <1>1 DEF HeadOf, Pointed
<1>3. \A e \in Client : txn'[e].read = txn[e].read
  BY <1>1 DEF Granted, Same
<1>4. CASE d \in G
  <2>1. Granted(d) /\ Open(d) /\ ~Open(d)' /\ pc'[d] = "install"
    BY <1>1, <1>4, GroupLock DEF Granted
  <2>2. ASSUME NEW l \in Label, txn[d].ptrs[l] # NoCache PROVE HeadOf(l) <= txn[d].ptrs[l]
    <3>1. txn[d].ptrs[l] = HeadOf(l) \/ txn[d].ptrs[l] \in txn[d].own
      BY <1>0, <2>1, <2>2 DEF TopsOf
    <3>2. HeadOf(l) \in Int /\ txn[d].ptrs[l] \in Int
      <4>1. edge_label_ptr \in 0 .. Len(labels)
        BY <1>0 DEF Types
      <4>2. HeadOf(l) \in 0 .. Len(blocks)
        BY <1>0, <4>1, PointedType DEF HeadOf
      <4>3. txn[d].ptrs[l] \in Nat \cup {NoCache}
        BY <1>0, TxnFields
      <4> QED BY <4>2, <4>3
    <3>3. l \in AnyLabel
      BY DEF AnyLabel
    <3>4. txn[d].ptrs[l] \in txn[d].own => HeadOf(l) < txn[d].ptrs[l]
      BY <1>0, <2>1, <3>3 DEF TopsOf
    <3> QED BY <3>1, <3>2, <3>4
  <2>3. TopsOf(d)'
    BY <1>2, <2>1, <2>2 DEF TopsOf, Granted
  <2>4. TailsOf(d)' /\ BoundOf(d)'
    BY <2>1 DEF TailsOf, BoundOf
  <2> QED BY <2>3, <2>4
<1>5. CASE d \notin G
  <2>1. Same(d)
    BY <1>1, <1>5
  <2>2. Open(d)' <=> Open(d)
    BY <2>1 DEF Same, Open
  <2>3. TopsOf(d)'
    BY <1>0, <1>2, <2>1, <2>2 DEF TopsOf, Same
  <2>4. TailsOf(d)'
    BY <1>0, <1>1, <2>1, <2>2 DEF TailsOf, Same
  <2>5. visible' \in Nat /\ visible <= visible'
    BY <1>0, <1>1 DEF Types, EpochInv
  <2>6. \A e \in Client : txn[e].read \in Int /\ txn'[e].read \in {txn[e].read, visible, -1}
    BY <1>0, <1>3, TxnFields
  <2>7. BoundOf(d)'
    BY <1>0, <2>1, <2>5, <2>6, BoundStays
  <2> QED BY <2>3, <2>4, <2>7
<1> QED BY <1>4, <1>5

LEMMA GroupPend ==
  ASSUME Basic, CommitsInv, NEW G \in SUBSET Client, RegisterGroup(G), NEW d \in Client
  PROVE  PendOf(d)'
PROOF
<1>0. PendOf(d)
  BY DEF CommitsInv, PendInv
<1>1. SUFFICES ASSUME Open(d)' PROVE PendOf(d)'
  BY DEF PendOf
<1>2. Open(d) /\ d \notin G
  BY <1>1, GroupLock
<1>3. /\ Same(d)
      /\ \A x \in committed' : x \in committed \/ \E c \in G : \E l \in Label :
           DOMAIN txn[c].mine[l] # {} /\ x = NewCommit(c, l)
  BY <1>2, GroupFacts
<1>4. ASSUME NEW l \in Label, txn[d].ptrs[l] # NoCache PROVE \A x \in committed' : x.label = l => x.epoch <= txn[d].read
  <2>1. Holds(d)
    BY <1>2, <1>4, GroupHolder
  <2>2. ASSUME NEW x \in committed', x \notin committed PROVE FALSE
    <3>1. PICK c \in G : \E k \in Label : DOMAIN txn[c].mine[k] # {} /\ x = NewCommit(c, k)
      BY <1>3, <2>2
    <3>2. c \in Client /\ Holds(c)
      BY <3>1, GroupHolder
    <3>3. c = d
      BY <2>1, <3>2 DEF Basic, LockInv
    <3> QED BY <1>2, <3>3
  <2>3. \A x \in committed : x.label = l => x.epoch <= txn[d].read
    BY <1>0, <1>2, <1>4 DEF PendOf
  <2> QED BY <2>2, <2>3
<1>5. txn'[d] = txn[d]
  BY <1>3 DEF Same
<1> QED BY <1>0, <1>2, <1>4, <1>5 DEF PendOf

\* Nobody installs when one who has written is registered.
LEMMA GroupInstall ==
  ASSUME Basic, CommitsInv, NEW G \in SUBSET Client, RegisterGroup(G), NEW d \in Client
  PROVE  InstallOf(d)'
PROOF
<1>0. /\ Types /\ InstallOf(d) /\ PendOf(d) /\ TopsOf(d) /\ SettledInv /\ RefsOf(d) /\ EpochInv /\ LabelsInv /\ CommittedInv
  BY DEF Basic, Types, RefsInv, CommitsInv, InstallInv, PendInv, TopsInv
<1>1. /\ UNCHANGED <<visible, transaction_id, vertex_futex, edge_label_ptr, labels, blocks, scan, compaction>>
      /\ sealed' = sealed + 1
      /\ \A e \in G : Granted(e)
      /\ \A e \in Client \ G : Same(e)
  BY GroupFacts
<1>2. \A l : HeadOf(l)' = HeadOf(l)
  BY <1>1 DEF HeadOf, Pointed
<1>3. \A e \in Client : txn'[e].read = txn[e].read
  BY <1>1 DEF Granted, Same
<1>4. \A p : Steady(p) => Steady(p)'
  BY <1>1, <1>3 DEF Steady, Old, Active
<1>5. SUFFICES ASSUME Installing(d)', NEW l \in AnyLabel, TopOf(d, l)' # NULLPOINTER
      PROVE  /\ (Word("block", TopOf(d, l), 0) \in Members(txn[d].stamps) \/ blocks[TopOf(d, l)].creation \in 0 .. txn[d].epoch)'
             /\ Timed(d, TopOf(d, l))' \/ (Steady(TopOf(d, l)) /\ TopOf(d, l) = HeadOf(l) /\ TopOf(d, l) \notin txn[d].own)'
  BY DEF InstallOf
<1>6. CASE d \in G
  <2>1. Granted(d) /\ Open(d) /\ Holds(d)
    BY <1>1, <1>5, <1>6, GroupLock DEF Installing, Granted
  <2>2. \A e \in Client : ~Installing(e)
    <3>1. ~Installing(d)
      BY <2>1 DEF Granted, Installing
    <3> QED BY <2>1, <3>1, OthersBare
  <2>3. PICK p : p = TopOf(d, l)
    OBVIOUS
  <2>4. TopOf(d, l)' = p
    BY <1>2, <2>1, <2>3 DEF TopOf, Granted
  <2>5. p # NULLPOINTER
    BY <1>5, <2>4
  <2>6. Len(blocks) \in Nat /\ DOMAIN blocks = 1 .. Len(blocks) /\ Len(blocks) <= MaxBlock /\ sealed \in Nat
        /\ visible \in Nat /\ visible <= sealed /\ HeadOf(l) \in 0 .. Len(blocks)
    <3>1. edge_label_ptr \in 0 .. Len(labels)
      BY <1>0 DEF Types
    <3>2. HeadOf(l) \in 0 .. Len(blocks)
      BY <1>0, <3>1, PointedType DEF HeadOf
    <3> QED BY <1>0, <3>2 DEF Types, EpochInv
  <2>7. ASSUME HeadOf(l) # NULLPOINTER
        PROVE  Steady(HeadOf(l)) /\ blocks[HeadOf(l)].creation \in 0 .. sealed + 1
    <3>1. PICK h \in DOMAIN blocks : h = HeadOf(l)
      BY <2>6, <2>7
    <3>2. Steady(h)
      BY <1>0, <2>2, <2>7, <3>1 DEF SettledInv
    <3>3. blocks[h].creation \in Int /\ blocks[h].committed \in Int /\ blocks[h].committed <= sealed
      BY <1>0, BlockFields DEF CommittedInv
    <3> QED BY <2>6, <3>1, <3>2, <3>3 DEF Steady, Old
  <2>8. CASE l \in Label /\ txn[d].ptrs[l] # NoCache
    <3>1. p = txn[d].ptrs[l]
      BY <2>3, <2>8 DEF TopOf
    <3>2. txn[d].ptrs[l] \in Nat \cup {NoCache} /\ txn[d].ptrs[l] <= Len(blocks)
      BY <1>0, <2>1, <2>8, TxnFields DEF RefsOf, Writer
    <3>3. p \in Pointer \ {NULLPOINTER}
      BY <2>5, <2>6, <2>8, <3>1, <3>2, EdgesAssumption DEF Pointer
    <3>4. p \notin {NoCache, NULLPOINTER}
      BY <2>5, <2>8, <3>1
    <3>5. (p \in txn[d].own => Word("block", p, 0) \in Members(txn[d].stamps)) /\ txn[d].tails[p] # NoTail
      BY <1>0, <2>1, <2>8, <3>1, <3>4 DEF PendOf
    <3>6. p = HeadOf(l) \/ p \in txn[d].own
      BY <1>0, <2>1, <2>8, <3>1 DEF TopsOf
    <3>7. (Timed(d, TopOf(d, l)))'
      BY <2>1, <2>4, <3>3, <3>5 DEF Timed, Tails, Granted
    <3>8. Word("block", p, 0) \in Members(txn'[d].stamps) \/ blocks'[p].creation \in 0 .. txn'[d].epoch
      BY <1>1, <2>1, <2>5, <2>7, <3>5, <3>6 DEF Granted
    <3> QED BY <2>4, <3>7, <3>8
  <2>9. CASE ~(l \in Label /\ txn[d].ptrs[l] # NoCache)
    <3>1. p = HeadOf(l)
      BY <2>3, <2>9 DEF TopOf
    <3>2. Steady(p) /\ blocks[p].creation \in 0 .. sealed + 1
      BY <2>5, <2>7, <3>1
    <3>3. p \notin txn[d].own
      <4>1. ASSUME p \in txn[d].own PROVE HeadOf(l) < p
        BY <1>0, <2>1, <4>1 DEF TopsOf
      <4> QED BY <2>6, <3>1, <4>1
    <3>4. Steady(p)' /\ blocks'[p].creation \in 0 .. txn'[d].epoch /\ p = HeadOf(l)' /\ p \notin txn'[d].own
      BY <1>1, <1>2, <1>4, <2>1, <3>1, <3>2, <3>3 DEF Granted
    <3>5. Steady(TopOf(d, l))'
      BY <2>4, <3>4 DEF Steady
    <3> QED BY <2>4, <3>4, <3>5
  <2> QED BY <2>8, <2>9
<1>7. CASE d \notin G
  <2>1. Same(d) /\ Installing(d)
    BY <1>1, <1>5, <1>7, GroupLock
  <2>2. PICK p : p = TopOf(d, l)
    OBVIOUS
  <2>3. TopOf(d, l)' = p
    BY <1>2, <2>1, <2>2 DEF TopOf, Same
  <2>4. /\ Word("block", p, 0) \in Members(txn[d].stamps) \/ blocks[p].creation \in 0 .. txn[d].epoch
        /\ Timed(d, p) \/ (Steady(p) /\ p = HeadOf(l) /\ p \notin txn[d].own)
    BY <1>0, <1>5, <2>1, <2>2, <2>3 DEF InstallOf
  <2>5. txn'[d] = txn[d]
    BY <2>1 DEF Same
  <2>6. Timed(d, p) => Timed(d, TopOf(d, l))'
    BY <1>1, <2>3, <2>5 DEF Timed, Tails
  <2>7. Steady(p) => Steady(TopOf(d, l))'
    BY <1>4, <2>3 DEF Steady
  <2>8. /\ Word("block", p, 0) \in Members(txn'[d].stamps) \/ blocks'[p].creation \in 0 .. txn'[d].epoch
        /\ p = HeadOf(l) => p = HeadOf(l)'
    BY <1>1, <1>2, <2>4, <2>5
  <2> QED BY <2>3, <2>4, <2>5, <2>6, <2>7, <2>8
<1> QED BY <1>6, <1>7

LEMMA GroupCommit ==
  ASSUME Basic, CommitsInv, NEW G \in SUBSET Client, RegisterGroup(G), NEW x \in committed'
  PROVE  CommitOf(x)'
PROOF
<1>0. /\ Types /\ CommitInv /\ PendInv /\ EpochInv /\ RefsInv /\ InstallInv /\ PlaceInv
  BY DEF Basic, Types, CommitsInv
<1>1. /\ UNCHANGED <<visible, transaction_id, vertex_futex, edge_label_ptr, labels, blocks, scan, compaction>>
      /\ sealed' = sealed + 1
      /\ \A e \in G : Granted(e)
      /\ \A e \in Client \ G : Same(e)
      /\ x \in committed \/ \E c \in G : \E l \in Label : DOMAIN txn[c].mine[l] # {} /\ x = NewCommit(c, l)
  BY GroupFacts
<1>2. \A l : HeadOf(l)' = HeadOf(l)
  BY <1>1 DEF HeadOf, Pointed
<1>3. sealed \in Nat /\ Len(blocks) \in Nat /\ Len(blocks) <= MaxBlock
  BY <1>0 DEF Types, EpochInv
<1>4. CASE x \in committed
  <2>1. CommitOf(x) /\ x.epoch \in Nat
    BY <1>0, <1>4 DEF CommitInv, Types
  <2>2. x.epoch <= sealed'
    BY <1>1, <1>3, <2>1 DEF CommitOf
  <2>3. ASSUME NEW c \in Client, Installing(c)' PROVE x.epoch <= txn'[c].epoch
    <3>1. CASE c \in G
      BY <1>1, <1>3, <2>1, <3>1 DEF Granted, CommitOf
    <3>2. CASE c \notin G
      BY <1>1, <2>1, <2>3, <3>2, GroupLock DEF Same, CommitOf
    <3> QED BY <3>1, <3>2
  <2>4. CASE HeadOf(x.label) # NULLPOINTER /\ x.epoch <= blocks[HeadOf(x.label)].committed
    BY <1>1, <1>2, <2>2, <2>3, <2>4 DEF CommitOf
  <2>5. CASE \E c \in Client : Installing(c) /\ TopOf(c, x.label) # NULLPOINTER /\ Timed(c, TopOf(c, x.label))
    <3>1. PICK c \in Client : Installing(c) /\ TopOf(c, x.label) # NULLPOINTER /\ Timed(c, TopOf(c, x.label))
      BY <2>5
    <3>2. Installing(c)' /\ Same(c)
      BY <3>1, GroupLock
    <3>3. TopOf(c, x.label)' = TopOf(c, x.label)
      BY <1>2, <3>2 DEF TopOf, Same
    <3>4. Timed(c, TopOf(c, x.label))'
      BY <1>1, <3>1, <3>2, <3>3 DEF Timed, Tails, Same
    <3>5. TopOf(c, x.label)' # NULLPOINTER
      BY <3>1, <3>3
    <3> QED BY <2>2, <2>3, <3>2, <3>4, <3>5 DEF CommitOf
  <2> QED BY <2>1, <2>4, <2>5 DEF CommitOf
<1>5. CASE x \notin committed
  <2>1. PICK c \in G : \E l \in Label : DOMAIN txn[c].mine[l] # {} /\ x = NewCommit(c, l)
    BY <1>1, <1>5
  <2>2. PICK l \in Label : DOMAIN txn[c].mine[l] # {} /\ x = NewCommit(c, l)
    BY <2>1
  <2>3. c \in Client /\ Granted(c) /\ txn[c].locked /\ Holds(c) /\ Open(c)
    BY <1>1, <2>2, GroupHolder, GroupLock
  <2>4. x.label = l /\ x.epoch = sealed + 1
    BY <2>2 DEF NewCommit
  <2>5. ASSUME NEW e \in Client, Installing(e)' PROVE x.epoch <= txn'[e].epoch
    <3>1. Holds(e)'
      BY <2>5 DEF Installing, Holds, Writer
    <3>2. Holds(e)
      BY <3>1, GroupLock
    <3>3. e = c
      BY <2>3, <3>2 DEF Basic, LockInv
    <3> QED BY <1>3, <2>3, <2>4, <3>3 DEF Granted
  <2>6. Installing(c)'
    BY <2>3 DEF Granted, Installing
  <2>7. txn[c].ptrs[l] \notin {NoCache, NULLPOINTER}
    BY <1>0, <2>2, <2>3 DEF PendInv, PendOf
  <2>8. TopOf(c, x.label)' = txn[c].ptrs[l]
    BY <2>3, <2>4, <2>7 DEF TopOf, Granted
  <2>9. txn[c].ptrs[l] \in Pointer \ {NULLPOINTER} /\ txn[c].tails[txn[c].ptrs[l]] # NoTail
    <3>1. txn[c].ptrs[l] \in Nat \cup {NoCache}
      BY <1>0, <2>3, TxnFields
    <3>2. RefsOf(c) /\ Writer(c)
      BY <1>0, <2>3 DEF RefsInv, Writer
    <3>3. txn[c].ptrs[l] <= Len(blocks)
      BY <3>2 DEF RefsOf
    <3>4. txn[c].tails[txn[c].ptrs[l]] # NoTail
      BY <1>0, <2>3, <2>7 DEF PendInv, PendOf
    <3> QED BY <1>3, <2>7, <3>1, <3>3, <3>4, EdgesAssumption DEF Pointer
  <2>10. Timed(c, TopOf(c, x.label))'
    BY <2>3, <2>8, <2>9 DEF Timed, Tails, Granted
  <2>11. TopOf(c, x.label)' # NULLPOINTER
    BY <2>7, <2>8
  <2>12. x.epoch <= sealed'
    BY <1>1, <1>3, <2>4
  <2> QED BY <2>3, <2>5, <2>6, <2>10, <2>11, <2>12 DEF CommitOf
<1> QED BY <1>4, <1>5

LEMMA GroupKeeps ==
  ASSUME Basic, CommitsInv, NEW G \in SUBSET Client, RegisterGroup(G)
  PROVE  Basic' /\ CommitsInv'
PROOF
<1>0. /\ Types /\ EpochInv /\ CommittedInv /\ SettledInv
  BY DEF Basic, Types, CommitsInv
<1>1. /\ UNCHANGED <<visible, transaction_id, vertex_futex, edge_label_ptr, labels, blocks, scan, compaction>>
      /\ sealed' = sealed + 1
      /\ \A e \in G : Granted(e)
      /\ \A e \in Client \ G : Same(e)
  BY GroupFacts
<1>2. TopsInv' /\ TailsInv' /\ BoundInv' /\ PendInv' /\ InstallInv' /\ CommitInv'
  BY GroupTops, GroupPend, GroupInstall, GroupCommit DEF TopsInv, TailsInv, BoundInv, PendInv, InstallInv, CommitInv
<1>3. CommittedInv'
  <2>1. ASSUME NEW p \in DOMAIN blocks PROVE blocks[p].committed <= sealed + 1
    <3>1. blocks[p].committed \in Int /\ blocks[p].committed <= sealed /\ sealed \in Nat
      BY <1>0, BlockFields DEF CommittedInv, EpochInv
    <3> QED BY <3>1
  <2> QED BY <1>1, <2>1 DEF CommittedInv
<1>4. SettledInv'
  <2>1. \A l : HeadOf(l)' = HeadOf(l)
    BY <1>1 DEF HeadOf, Pointed
  <2>2. \A e \in Client : txn'[e].read = txn[e].read
    BY <1>1 DEF Granted, Same
  <2>3. SUFFICES ASSUME \A c \in Client : ~Installing(c)', NEW l \in AnyLabel, HeadOf(l) # NULLPOINTER
        PROVE  Steady(HeadOf(l))'
    BY <2>1 DEF SettledInv
  <2>4. \A c \in Client : ~Installing(c)
    BY <2>3, GroupLock
  <2>5. PICK h : h = HeadOf(l)
    OBVIOUS
  <2>6. Steady(h)
    BY <1>0, <2>3, <2>4, <2>5 DEF SettledInv
  <2>7. HeadOf(l)' = h
    BY <2>1, <2>5
  <2>8. Steady(h)'
    BY <1>1, <2>2, <2>6 DEF Steady, Old, Active
  <2> QED BY <2>7, <2>8 DEF Steady
<1>5. CommitsInv'
  BY <1>2, <1>3, <1>4 DEF CommitsInv
<1> QED BY <1>5, GroupBasic

\* The commits of a group have those before in their snapshots, and are of one transaction.
LEMMA GroupLost ==
  ASSUME Basic, CommitsInv, NoLostUpdate, NEW G \in SUBSET Client, RegisterGroup(G)
  PROVE  NoLostUpdate'
PROOF
<1>0. Types /\ PendInv
  BY DEF Basic, CommitsInv
<1>1. \A x \in committed' : x \in committed \/ \E c \in G : \E l \in Label : DOMAIN txn[c].mine[l] # {} /\ x = NewCommit(c, l)
  BY GroupFacts
<1>2. ASSUME NEW x \in committed', x \notin committed, NEW y \in committed, x.label = y.label PROVE y.epoch <= x.read
  <2>1. PICK c \in G : \E l \in Label : DOMAIN txn[c].mine[l] # {} /\ x = NewCommit(c, l)
    BY <1>1, <1>2
  <2>2. PICK l \in Label : DOMAIN txn[c].mine[l] # {} /\ x = NewCommit(c, l)
    BY <2>1
  <2>3. c \in Client /\ Open(c)
    BY GroupLock
  <2>4. PendOf(c)
    BY <1>0, <2>3 DEF PendInv
  <2>5. txn[c].ptrs[l] # NoCache
    BY <2>2, <2>3, <2>4 DEF PendOf
  <2>6. y.epoch <= txn[c].read
    BY <1>2, <2>2, <2>3, <2>4, <2>5 DEF PendOf, NewCommit
  <2> QED BY <2>2, <2>6 DEF NewCommit
<1>3. ASSUME NEW x \in committed', x \notin committed, NEW y \in committed', y \notin committed, x.label = y.label
      PROVE  x = y
  <2>1. PICK c \in G : \E l \in Label : DOMAIN txn[c].mine[l] # {} /\ x = NewCommit(c, l)
    BY <1>1, <1>3
  <2>2. PICK l \in Label : DOMAIN txn[c].mine[l] # {} /\ x = NewCommit(c, l)
    BY <2>1
  <2>3. PICK d \in G : \E k \in Label : DOMAIN txn[d].mine[k] # {} /\ y = NewCommit(d, k)
    BY <1>1, <1>3
  <2>4. PICK k \in Label : DOMAIN txn[d].mine[k] # {} /\ y = NewCommit(d, k)
    BY <2>3
  <2>5. c \in Client /\ d \in Client /\ Holds(c) /\ Holds(d)
    BY <2>2, <2>4, GroupHolder
  <2>6. c = d
    BY <2>5 DEF Basic, LockInv
  <2>7. l = k
    BY <1>3, <2>2, <2>4 DEF NewCommit
  <2> QED BY <2>2, <2>4, <2>6, <2>7
<1>4. ASSUME NEW x \in committed', NEW y \in committed', x.label = y.label, x # y
      PROVE  x.epoch <= y.read \/ y.epoch <= x.read
  <2>1. CASE x \in committed /\ y \in committed
    BY <1>4, <2>1 DEF NoLostUpdate
  <2>2. CASE x \notin committed /\ y \in committed
    BY <1>2, <1>4, <2>2
  <2>3. CASE x \in committed /\ y \notin committed
    BY <1>2, <1>4, <2>3
  <2>4. CASE x \notin committed /\ y \notin committed
    BY <1>3, <1>4, <2>4
  <2> QED BY <2>1, <2>2, <2>3, <2>4
<1> QED BY <1>4 DEF NoLostUpdate

-----------------------------------------------------------------------------
(* Installing the tails *)

\* Whoever has something left to install has the lock.
LEMMA InstallerHolds ==
  ASSUME Basic, NEW c \in Client, pc[c] = "install", ~Bare(txn[c])
  PROVE  Installing(c) /\ Holds(c)
PROOF
<1>1. txn[c].locked
  BY DEF Basic, PlaceInv, PlaceOf
<1> QED BY <1>1 DEF Installing, Holds, Writer

\* The tops of a client that installs are blocks, and none is older than what there is to see.
LEMMA TopFacts ==
  ASSUME Basic, CommitsInv, NEW c \in Client, pc[c] = "install", NEW l
  PROVE  /\ TopOf(c, l) \in 0 .. Len(blocks) /\ HeadOf(l) \in 0 .. Len(blocks) /\ HeadOf(l) <= TopOf(c, l)
         /\ \A q \in 0 .. Len(blocks) : q # NULLPOINTER => q \in DOMAIN blocks
PROOF
<1>0. Types /\ LabelsInv /\ RefsOf(c) /\ TopsOf(c) /\ Writer(c)
  BY DEF Basic, RefsInv, CommitsInv, TopsInv, Writer
<1>1. Len(blocks) \in Nat /\ DOMAIN blocks = 1 .. Len(blocks) /\ edge_label_ptr \in 0 .. Len(labels)
  BY <1>0 DEF Types
<1>2. HeadOf(l) \in 0 .. Len(blocks)
  BY <1>0, <1>1, PointedType DEF HeadOf
<1>3. CASE l \in Label /\ txn[c].ptrs[l] # NoCache
  <2>1. TopOf(c, l) = txn[c].ptrs[l]
    BY <1>3 DEF TopOf
  <2>2. txn[c].ptrs[l] \in Nat \cup {NoCache} /\ txn[c].ptrs[l] <= Len(blocks) /\ HeadOf(l) <= txn[c].ptrs[l]
    BY <1>0, <1>3, TxnFields DEF RefsOf, TopsOf
  <2> QED BY <1>1, <1>2, <1>3, <2>1, <2>2
<1>4. CASE ~(l \in Label /\ txn[c].ptrs[l] # NoCache)
  <2>1. TopOf(c, l) = HeadOf(l)
    BY <1>4 DEF TopOf
  <2> QED BY <1>1, <1>2, <2>1
<1> QED BY <1>3, <1>4

\* What a step of an installing client leaves alone.
Installs(c) ==
  /\ UNCHANGED <<visible, sealed, stage, transaction_id, vertex_futex, scan, pc, compaction, committed>>
  /\ txn' \in [Client -> TxnRec] /\ \A d \in Client \ {c} : txn'[d] = txn[d]
  /\ txn'[c].id = txn[c].id /\ txn'[c].read = txn[c].read /\ txn'[c].epoch = txn[c].epoch
  /\ txn'[c].locked = txn[c].locked /\ txn'[c].own = txn[c].own /\ txn'[c].mine = txn[c].mine

\* What such a step has to keep.
LEMMA InstallsKeep ==
  ASSUME Basic, CommitsInv, NEW c \in Client, Installing(c), Installs(c),
         blocks' \in Seq(BlockRec), labels' \in Seq(LabelRec), Len(blocks') = Len(blocks), Len(labels) <= Len(labels'),
         edge_label_ptr' \in 0 .. Len(labels'),
         OlderInv', LabelsInv', TailInv', RefsOf(c)', CommittedInv', TopsOf(c)', InstallOf(c)',
         \A x \in committed :
           \/ HeadOf(x.label)' # NULLPOINTER /\ x.epoch <= blocks'[HeadOf(x.label)'].committed
           \/ TopOf(c, x.label)' # NULLPOINTER /\ Timed(c, TopOf(c, x.label))'
  PROVE  Basic' /\ CommitsInv'
PROOF
<1>0. /\ Types /\ PlaceOf(c) /\ CommitInv /\ pc[c] = "install" /\ txn[c].locked
  BY DEF Basic, PlaceInv, CommitsInv, Installing
<1>1. /\ UNCHANGED <<visible, sealed, stage, transaction_id, vertex_futex, scan, pc, compaction, committed>>
      /\ txn' \in [Client -> TxnRec] /\ \A d \in Client \ {c} : txn'[d] = txn[d]
      /\ txn'[c].id = txn[c].id /\ txn'[c].read = txn[c].read /\ txn'[c].epoch = txn[c].epoch
      /\ txn'[c].locked = txn[c].locked /\ txn'[c].own = txn[c].own /\ txn'[c].mine = txn[c].mine
  BY DEF Installs
<1>2. Alone(c)
  BY <1>1 DEF Alone, Same
<1>3. Holds(c) /\ Installing(c)' /\ Writer(c) /\ Writer(c)' /\ pc'[c] = "install" /\ ~Open(c)'
  BY <1>0, <1>1 DEF Holds, Installing, Writer, Open, InScan
<1>4. Types'
  <2>1. Len(blocks') <= MaxBlock /\ EpochInv'
    BY <1>0, <1>1 DEF Types, EpochInv
  <2> QED BY <1>0, <1>1, <2>1 DEF Types
<1>5. PlaceOf(c)'
  BY <1>0, <1>1, <1>3 DEF PlaceOf
<1>6. LockInv'
  BY <1>1, <1>2, <1>3, LockKept
<1>7. Len(blocks) <= Len(blocks') /\ Len(labels) \in Nat
  BY <1>0 DEF Types
<1>8. Basic'
  BY <1>1, <1>2, <1>3, <1>4, <1>5, <1>6, <1>7, HolderBasic
<1>9. PendOf(c)' /\ TailsOf(c)' /\ BoundOf(c)' /\ SettledInv'
  BY <1>3 DEF PendOf, TailsOf, BoundOf, SettledInv
<1>10. \A d \in Client \ {c} : ~Installing(d)'
  BY <1>1, <1>2, <1>3, OthersCommit
<1>11. CommitInv'
  <2>1. SUFFICES ASSUME NEW x \in committed PROVE CommitOf(x)'
    BY <1>1 DEF CommitInv
  <2>2. x.epoch <= sealed /\ x.epoch <= txn[c].epoch
    BY <1>0 DEF CommitInv, CommitOf
  <2>3. x.epoch <= sealed' /\ \A d \in Client : Installing(d)' => x.epoch <= txn'[d].epoch
    BY <1>1, <1>10, <2>2
  <2>4. CASE HeadOf(x.label)' # NULLPOINTER /\ x.epoch <= blocks'[HeadOf(x.label)'].committed
    BY <2>3, <2>4 DEF CommitOf
  <2>5. CASE TopOf(c, x.label)' # NULLPOINTER /\ Timed(c, TopOf(c, x.label))'
    <3>1. Timed(c, TopOf(c, x.label))'
      BY <2>5 DEF Timed
    <3> QED BY <1>3, <2>3, <2>5, <3>1 DEF CommitOf
  <2> QED BY <2>4, <2>5
<1>12. CommitsInv'
  BY <1>1, <1>2, <1>3, <1>9, <1>11, HolderCommit
<1> QED BY <1>8, <1>12

LEMMA CommittingFacts ==
  ASSUME Basic, NEW c \in Client, Committing(c)
  PROVE  /\ pc[c] = "install"
         /\ UNCHANGED <<visible, sealed, stage, transaction_id, vertex_futex, freed, freedLabels, scan, compaction, committed>>
BY DEF Committing, epochsVars

\* A block with another tail and another committed time.
LEMMA BlockTail ==
  ASSUME NEW chained \in Seq(BlockRec), NEW p \in DOMAIN chained, NEW n \in Nat, NEW x \in Int
  PROVE  LET q == [chained EXCEPT ![p] = [chained[p] EXCEPT !.num = n, !.committed = x]] IN
         /\ q \in Seq(BlockRec) /\ Len(q) = Len(chained) /\ DOMAIN q = DOMAIN chained
         /\ q[p].entries = chained[p].entries /\ q[p].creation = chained[p].creation /\ q[p].prev = chained[p].prev
         /\ q[p].committed = x /\ q[p].num = n
         /\ \A o \in DOMAIN chained : o # p => q[o] = chained[o]
PROOF
<1> DEFINE b == [chained[p] EXCEPT !.num = n, !.committed = x]
           q == [chained EXCEPT ![p] = b]
<1>1. chained[p] \in BlockRec
  OBVIOUS
<1>2. /\ b \in BlockRec /\ b.entries = chained[p].entries /\ b.creation = chained[p].creation
      /\ b.prev = chained[p].prev /\ b.committed = x /\ b.num = n
  BY <1>1 DEF BlockRec
<1> HIDE DEF b
<1>4. /\ q \in Seq(BlockRec) /\ Len(q) = Len(chained) /\ DOMAIN q = DOMAIN chained /\ q[p] = b
      /\ \A o \in DOMAIN chained : o # p => q[o] = chained[o]
  BY <1>2, SeqPut
<1> HIDE DEF q
<1>5. /\ q \in Seq(BlockRec) /\ Len(q) = Len(chained) /\ DOMAIN q = DOMAIN chained
      /\ q[p].entries = chained[p].entries /\ q[p].creation = chained[p].creation /\ q[p].prev = chained[p].prev
      /\ q[p].committed = x /\ q[p].num = n
      /\ \A o \in DOMAIN chained : o # p => q[o] = chained[o]
  BY <1>2, <1>4
<1> QED BY <1>5 DEF q, b

LEMMA InstallTailDoes ==
  ASSUME Basic, CommitsInv, NEW c \in Client, NEW p \in Pointer, InstallTail(c, p)
  PROVE  /\ Installing(c) /\ Installs(c) /\ UNCHANGED <<labels, edge_label_ptr>>
         /\ p \in DOMAIN blocks /\ p # NULLPOINTER /\ txn[c].tails[p] \in Nat /\ txn[c].tails[p] <= Len(blocks[p].entries)
         /\ txn'[c].ptrs = txn[c].ptrs /\ txn'[c].tails = [txn[c].tails EXCEPT ![p] = NoTail]
         /\ Members(txn'[c].stamps) = Members(txn[c].stamps) \cup {Word("committed", p, 0)}
         /\ blocks' \in Seq(BlockRec) /\ Len(blocks') = Len(blocks) /\ DOMAIN blocks' = DOMAIN blocks
         /\ blocks'[p].entries = blocks[p].entries /\ blocks'[p].creation = blocks[p].creation
         /\ blocks'[p].prev = blocks[p].prev
         /\ blocks'[p].committed <= sealed /\ blocks'[p].num = txn[c].tails[p]
         /\ \A o \in DOMAIN blocks : o # p => blocks'[o] = blocks[o]
PROOF
<1>0. Types /\ RefsOf(c) /\ EpochInv
  BY DEF Basic, RefsInv, Types
<1>1. /\ Committing(c) /\ p \in Tails(txn[c])
      /\ blocks' = [blocks EXCEPT ![p].num = txn[c].tails[p], ![p].committed = -txn[c].id]
      /\ SetTxn(c, [txn[c] EXCEPT !.tails[p] = NoTail, !.stamps = Append(@, Word("committed", p, 0))])
      /\ UNCHANGED <<pc, edge_label_ptr, labels>>
  BY DEF InstallTail
<1>2. /\ pc[c] = "install"
      /\ UNCHANGED <<visible, sealed, stage, transaction_id, vertex_futex, freed, freedLabels, scan, compaction, committed>>
  BY <1>1, CommittingFacts
<1>3. p # NULLPOINTER /\ txn[c].tails[p] # NoTail
  BY <1>1 DEF Tails
<1>4. Installing(c)
  <2>1. ~Bare(txn[c])
    BY <1>3 DEF Bare
  <2> QED BY <1>2, <2>1, InstallerHolds
<1>5. p \in DOMAIN blocks /\ txn[c].tails[p] <= Len(blocks[p].entries)
  BY <1>0, <1>2, <1>3 DEF RefsOf, Writer
<1>6. /\ txn[c] \in TxnRec /\ txn[c].id \in Nat /\ txn[c].tails \in [Pointer -> Nat \cup {NoTail}]
      /\ txn[c].stamps \in Seq(WordRec) /\ txn \in [Client -> TxnRec]
  BY <1>0, TxnFields DEF Types
<1>7. txn[c].tails[p] \in Nat
  BY <1>3, <1>6
<1>8. PICK n \in Nat, x \in Int : n = txn[c].tails[p] /\ x = -txn[c].id
  BY <1>6, <1>7
<1>9. x <= sealed
  <2>1. sealed \in Nat
    BY <1>0 DEF EpochInv
  <2> QED BY <1>6, <1>8, <2>1
<1>10. blocks \in Seq(BlockRec)
  BY <1>0 DEF Types
<1>11. blocks' = [blocks EXCEPT ![p] = [blocks[p] EXCEPT !.num = n, !.committed = x]]
  BY <1>1, <1>5, <1>8, <1>10
<1>12. LET q == [blocks EXCEPT ![p] = [blocks[p] EXCEPT !.num = n, !.committed = x]] IN
       /\ q \in Seq(BlockRec) /\ Len(q) = Len(blocks) /\ DOMAIN q = DOMAIN blocks
       /\ q[p].entries = blocks[p].entries /\ q[p].creation = blocks[p].creation /\ q[p].prev = blocks[p].prev
       /\ q[p].committed = x /\ q[p].num = n
       /\ \A o \in DOMAIN blocks : o # p => q[o] = blocks[o]
  BY <1>5, <1>10, BlockTail
<1>13. PICK w \in WordRec : w = Word("committed", p, 0)
  <2>1. p \in Nat
    BY <1>5, <1>10
  <2>2. Word("committed", p, 0) \in WordRec
    BY <2>1 DEF Word, WordRec
  <2> QED BY <2>2
<1>14. PICK f, s : f = [txn[c].tails EXCEPT ![p] = NoTail] /\ s = Append(txn[c].stamps, w)
  OBVIOUS
<1>15. f \in [Pointer -> Nat \cup {NoTail}] /\ s \in Seq(WordRec) /\ Members(s) = Members(txn[c].stamps) \cup {w}
  <2>1. f \in [Pointer -> Nat \cup {NoTail}]
    BY <1>6, <1>14
  <2>2. s \in Seq(WordRec)
    BY <1>6, <1>14
  <2>3. Members(s) = Members(txn[c].stamps) \cup {w}
    BY <1>6, <1>14, MembersAdd
  <2> QED BY <2>1, <2>2, <2>3
<1>16. PICK u1, u : u1 = [txn[c] EXCEPT !.tails = f] /\ u = [u1 EXCEPT !.stamps = s]
  OBVIOUS
<1>17. /\ u1 \in TxnRec /\ u1.tails = f /\ u1.id = txn[c].id /\ u1.read = txn[c].read
       /\ u1.locked = txn[c].locked /\ u1.ptrs = txn[c].ptrs /\ u1.stamps = txn[c].stamps /\ u1.own = txn[c].own
       /\ u1.epoch = txn[c].epoch /\ u1.mine = txn[c].mine
  BY <1>6, <1>15, <1>16, TxnPut_tails
<1>18. /\ u \in TxnRec /\ u.stamps = s /\ u.id = u1.id /\ u.read = u1.read
       /\ u.locked = u1.locked /\ u.ptrs = u1.ptrs /\ u.tails = u1.tails /\ u.own = u1.own
       /\ u.epoch = u1.epoch /\ u.mine = u1.mine
  BY <1>15, <1>16, <1>17, TxnPut_stamps
<1>19. txn' = [txn EXCEPT ![c] = u]
  BY <1>1, <1>13, <1>14, <1>16 DEF SetTxn
<1>20. txn' \in [Client -> TxnRec] /\ txn'[c] = u /\ \A d \in Client \ {c} : txn'[d] = txn[d]
  BY <1>6, <1>18, <1>19
<1>21. Installs(c)
  BY <1>1, <1>2, <1>17, <1>18, <1>20 DEF Installs
<1>22. /\ txn'[c].ptrs = txn[c].ptrs /\ txn'[c].tails = [txn[c].tails EXCEPT ![p] = NoTail]
       /\ Members(txn'[c].stamps) = Members(txn[c].stamps) \cup {Word("committed", p, 0)}
  BY <1>13, <1>14, <1>15, <1>17, <1>18, <1>20
<1>23. /\ blocks' \in Seq(BlockRec) /\ Len(blocks') = Len(blocks) /\ DOMAIN blocks' = DOMAIN blocks
       /\ blocks'[p].entries = blocks[p].entries /\ blocks'[p].creation = blocks[p].creation
       /\ blocks'[p].prev = blocks[p].prev
       /\ blocks'[p].committed <= sealed /\ blocks'[p].num = txn[c].tails[p]
       /\ \A o \in DOMAIN blocks : o # p => blocks'[o] = blocks[o]
  BY <1>8, <1>9, <1>11, <1>12
<1> QED BY <1>1, <1>3, <1>4, <1>5, <1>7, <1>21, <1>22, <1>23

LEMMA InstallTailKeeps ==
  ASSUME Basic, CommitsInv, NEW c \in Client, NEW p \in Pointer, InstallTail(c, p)
  PROVE  Basic' /\ CommitsInv' /\ committed' = committed
PROOF
<1>0. /\ Types /\ OlderInv /\ LabelsInv /\ TailInv /\ RefsOf(c) /\ TopsOf(c) /\ InstallOf(c) /\ CommitInv /\ CommittedInv
  BY DEF Basic, RefsInv, CommitsInv, TopsInv, InstallInv
<1>1. /\ Installing(c) /\ Installs(c) /\ UNCHANGED <<labels, edge_label_ptr>>
      /\ p \in DOMAIN blocks /\ p # NULLPOINTER /\ txn[c].tails[p] \in Nat /\ txn[c].tails[p] <= Len(blocks[p].entries)
      /\ txn'[c].ptrs = txn[c].ptrs /\ txn'[c].tails = [txn[c].tails EXCEPT ![p] = NoTail]
      /\ Members(txn'[c].stamps) = Members(txn[c].stamps) \cup {Word("committed", p, 0)}
      /\ blocks' \in Seq(BlockRec) /\ Len(blocks') = Len(blocks) /\ DOMAIN blocks' = DOMAIN blocks
      /\ blocks'[p].entries = blocks[p].entries /\ blocks'[p].creation = blocks[p].creation
      /\ blocks'[p].prev = blocks[p].prev
      /\ blocks'[p].committed <= sealed /\ blocks'[p].num = txn[c].tails[p]
      /\ \A o \in DOMAIN blocks : o # p => blocks'[o] = blocks[o]
  BY InstallTailDoes
<1>2. /\ UNCHANGED <<visible, sealed, stage, transaction_id, vertex_futex, scan, pc, compaction, committed>>
      /\ txn'[c].read = txn[c].read /\ txn'[c].epoch = txn[c].epoch /\ txn'[c].own = txn[c].own
      /\ \A d \in Client \ {c} : txn'[d] = txn[d]
  BY <1>1 DEF Installs
<1>3. pc[c] = "install" /\ txn[c].locked /\ Writer(c) /\ ~Open(c)' /\ Writer(c)' /\ pc'[c] = "install"
  BY <1>1, <1>2 DEF Installing, Writer, Open, InScan
<1>4. \A l : HeadOf(l)' = HeadOf(l)
  BY <1>1 DEF HeadOf, Pointed
<1>5. \A l : TopOf(c, l)' = TopOf(c, l)
  BY <1>1, <1>4 DEF TopOf
<1>6. ASSUME NEW o \in DOMAIN blocks
      PROVE  /\ blocks'[o].entries = blocks[o].entries /\ blocks'[o].creation = blocks[o].creation
             /\ blocks'[o].prev = blocks[o].prev /\ (o # p => blocks'[o].committed = blocks[o].committed /\ blocks'[o].num = blocks[o].num)
  BY <1>1
<1>7. OlderInv'
  <2>1. Older(blocks)'
    BY <1>0, <1>1, <1>6 DEF OlderInv, Older
  <2>2. Older(labels)'
    BY <1>0, <1>1 DEF OlderInv, Older
  <2> QED BY <2>1, <2>2 DEF OlderInv
<1>8. LabelsInv'
  BY <1>0, <1>1 DEF LabelsInv
<1>9. TailInv'
  BY <1>0, <1>1, <1>6 DEF TailInv
<1>10. CommittedInv'
  BY <1>0, <1>1, <1>2, <1>6 DEF CommittedInv
<1>11. txn[c].tails \in [Pointer -> Nat \cup {NoTail}]
  BY <1>0, TxnFields
<1>12. RefsOf(c)'
  <2>1. (\A l \in Label : txn[c].ptrs[l] <= Len(blocks))'
    BY <1>0, <1>1, <1>3 DEF RefsOf
  <2>2. (\A o \in Pointer : txn[c].tails[o] # NoTail => o \in DOMAIN blocks /\ txn[c].tails[o] <= Len(blocks[o].entries))'
    <3>1. ASSUME NEW o \in Pointer, txn'[c].tails[o] # NoTail
          PROVE  o \in DOMAIN blocks' /\ txn'[c].tails[o] <= Len(blocks'[o].entries)
      <4>1. o # p /\ txn'[c].tails[o] = txn[c].tails[o]
        BY <1>1, <1>11, <3>1
      <4>2. o \in DOMAIN blocks /\ txn[c].tails[o] <= Len(blocks[o].entries)
        BY <1>0, <1>3, <3>1, <4>1 DEF RefsOf
      <4> QED BY <1>1, <4>1, <4>2
    <3> QED BY <3>1
  <2>3. (txn[c].own \subseteq DOMAIN blocks)'
    BY <1>0, <1>1, <1>2, <1>3 DEF RefsOf
  <2>4. (\A w \in Members(txn[c].stamps) :
            /\ w.field = "label" => w.p \in DOMAIN labels
            /\ w.field # "label" => w.p \in DOMAIN blocks
            /\ w.field \in {"creation", "deletion"} => w.i \in DOMAIN blocks[w.p].entries
            /\ w.field = "block" => w.p \in txn[c].own
            /\ w.field = "committed" => pc[c] = "install")'
    <3>1. ASSUME NEW w \in Members(txn'[c].stamps)
          PROVE  /\ w.field = "label" => w.p \in DOMAIN labels'
                 /\ w.field # "label" => w.p \in DOMAIN blocks'
                 /\ w.field \in {"creation", "deletion"} => w.i \in DOMAIN blocks'[w.p].entries
                 /\ w.field = "block" => w.p \in txn'[c].own
                 /\ w.field = "committed" => pc'[c] = "install"
      <4>1. CASE w \in Members(txn[c].stamps)
        <5>1. /\ w.field = "label" => w.p \in DOMAIN labels
              /\ w.field # "label" => w.p \in DOMAIN blocks
              /\ w.field \in {"creation", "deletion"} => w.i \in DOMAIN blocks[w.p].entries
              /\ w.field = "block" => w.p \in txn[c].own
          BY <1>0, <1>3, <4>1 DEF RefsOf
        <5>2. w.field \in {"creation", "deletion"} => w.p \in DOMAIN blocks /\ blocks'[w.p].entries = blocks[w.p].entries
          BY <1>6, <5>1
        <5> QED BY <1>1, <1>2, <1>3, <5>1, <5>2
      <4>2. CASE w = Word("committed", p, 0)
        <5>1. w.field = "committed" /\ w.p = p
          BY <4>2 DEF Word
        <5> QED BY <1>1, <1>3, <5>1
      <4> QED BY <1>1, <4>1, <4>2
    <3> QED BY <3>1
  <2>5. (scan[c].ptr <= Len(blocks) /\ scan[c].lb <= Len(labels))'
    BY <1>0, <1>1, <1>2 DEF RefsOf
  <2> QED BY <1>3, <2>1, <2>2, <2>3, <2>4, <2>5 DEF RefsOf
<1>13. TopsOf(c)'
  BY <1>0, <1>1, <1>3, <1>4 DEF TopsOf
<1>14. ASSUME NEW q \in DOMAIN blocks, Timed(c, q) PROVE Timed(c, q)'
  <2>1. CASE q = p
    BY <1>1, <2>1 DEF Timed
  <2>2. CASE q # p
    <3>1. CASE q \in Tails(txn[c])
      BY <1>1, <1>11, <2>2, <3>1 DEF Timed, Tails
    <3>2. CASE Word("committed", q, 0) \in Members(txn[c].stamps)
      BY <1>1, <3>2 DEF Timed
    <3>3. CASE blocks[q].committed = txn[c].epoch
      BY <1>2, <1>6, <2>2, <3>3 DEF Timed
    <3> QED BY <1>14, <3>1, <3>2, <3>3 DEF Timed
  <2> QED BY <2>1, <2>2
<1>15. Timed(c, p)'
  BY <1>1 DEF Timed
<1>16. /\ \A l : HeadOf(l) \in 0 .. Len(blocks) /\ TopOf(c, l) \in 0 .. Len(blocks) /\ HeadOf(l) <= TopOf(c, l)
       /\ \A q \in 0 .. Len(blocks) : q # NULLPOINTER => q \in DOMAIN blocks
  BY <1>3, TopFacts
<1>17. ASSUME NEW q \in DOMAIN blocks, q # p, Steady(q) PROVE Steady(q)'
  <2>1. \A d \in Client : txn'[d].read = txn[d].read
    BY <1>2
  <2>2. blocks'[q] = blocks[q]
    BY <1>1, <1>17
  <2> QED BY <1>2, <1>17, <2>1, <2>2 DEF Steady, Old, Active
<1>18. InstallOf(c)'
  <2>1. SUFFICES ASSUME NEW l \in AnyLabel, TopOf(c, l)' # NULLPOINTER
        PROVE  /\ (Word("block", TopOf(c, l), 0) \in Members(txn[c].stamps) \/ blocks[TopOf(c, l)].creation \in 0 .. txn[c].epoch)'
               /\ Timed(c, TopOf(c, l))' \/ (Steady(TopOf(c, l)) /\ TopOf(c, l) = HeadOf(l) /\ TopOf(c, l) \notin txn[c].own)'
    BY DEF InstallOf
  <2>2. PICK q : q = TopOf(c, l)
    OBVIOUS
  <2>3. TopOf(c, l)' = q /\ q # NULLPOINTER /\ q \in DOMAIN blocks
    BY <1>5, <1>16, <2>1, <2>2
  <2>4. /\ Word("block", q, 0) \in Members(txn[c].stamps) \/ blocks[q].creation \in 0 .. txn[c].epoch
        /\ Timed(c, q) \/ (Steady(q) /\ q = HeadOf(l) /\ q \notin txn[c].own)
    BY <1>0, <1>1, <2>2, <2>3 DEF InstallOf
  <2>5. Word("block", q, 0) \in Members(txn'[c].stamps) \/ blocks'[q].creation \in 0 .. txn'[c].epoch
    BY <1>1, <1>2, <1>6, <2>3, <2>4
  <2>6. Timed(c, q)' => Timed(c, TopOf(c, l))'
    BY <2>3 DEF Timed
  <2>7. Steady(q)' => Steady(TopOf(c, l))'
    BY <2>3 DEF Steady
  <2>8. CASE Timed(c, q) \/ q = p
    <3>1. Timed(c, q)'
      BY <1>14, <1>15, <2>3, <2>8
    <3> QED BY <2>3, <2>5, <2>6, <3>1
  <2>9. CASE Steady(q) /\ q = HeadOf(l) /\ q \notin txn[c].own /\ q # p
    <3>1. Steady(q)'
      BY <1>17, <2>3, <2>9
    <3>2. q = HeadOf(l)' /\ q \notin txn'[c].own
      BY <1>2, <1>4, <2>9
    <3> QED BY <2>3, <2>5, <2>7, <3>1, <3>2
  <2> QED BY <2>4, <2>8, <2>9
<1>19. ASSUME NEW x \in committed
       PROVE  \/ HeadOf(x.label)' # NULLPOINTER /\ x.epoch <= blocks'[HeadOf(x.label)'].committed
              \/ TopOf(c, x.label)' # NULLPOINTER /\ Timed(c, TopOf(c, x.label))'
  <2>1. PICK q, h : q = TopOf(c, x.label) /\ h = HeadOf(x.label)
    OBVIOUS
  <2>2. TopOf(c, x.label)' = q /\ HeadOf(x.label)' = h /\ q \in 0 .. Len(blocks) /\ h \in 0 .. Len(blocks) /\ h <= q
    BY <1>4, <1>5, <1>16, <2>1
  <2>3. Timed(c, q)' => Timed(c, TopOf(c, x.label))'
    BY <2>2 DEF Timed
  <2>4. /\ CommitOf(x) /\ x.label \in AnyLabel
    BY <1>0 DEF CommitInv, Types
  <2>5. \A d \in Client : Installing(d) => d = c
    <3>1. Holds(c)
      BY <1>1, <1>3 DEF Holds
    <3> QED BY <3>1, OthersBare
  <2>6. CASE q # NULLPOINTER /\ Timed(c, q)
    <3>1. q \in DOMAIN blocks
      BY <1>16, <2>2, <2>6
    <3> QED BY <1>14, <2>2, <2>3, <2>6, <3>1
  <2>7. CASE h # NULLPOINTER /\ x.epoch <= blocks[h].committed
    <3>1. h \in DOMAIN blocks /\ q \in DOMAIN blocks /\ q # NULLPOINTER
      BY <1>16, <2>2, <2>7
    <3>2. CASE h # p
      <4>1. blocks'[h].committed = blocks[h].committed
        BY <1>6, <3>1, <3>2
      <4> QED BY <2>2, <2>7, <4>1
    <3>3. CASE h = p
      <4>1. Timed(c, q) \/ q = h
        BY <1>0, <1>1, <2>1, <2>4, <3>1 DEF InstallOf
      <4>2. Timed(c, q)'
        BY <1>14, <1>15, <3>1, <3>3, <4>1
      <4> QED BY <2>2, <2>3, <3>1, <4>2
    <3> QED BY <3>2, <3>3
  <2> QED BY <2>1, <2>4, <2>5, <2>6, <2>7 DEF CommitOf
<1>20. labels' \in Seq(LabelRec) /\ Len(labels) <= Len(labels') /\ edge_label_ptr' \in 0 .. Len(labels')
  BY <1>0, <1>1 DEF Types
<1> QED BY <1>1, <1>2, <1>7, <1>8, <1>9, <1>10, <1>12, <1>13, <1>18, <1>19, <1>20, InstallsKeep

-----------------------------------------------------------------------------
(* Stamping *)

\* One block is another: its chain, its tail and how many entries it has stay.
Restamped(chained, chained2, w, time) ==
  /\ chained2 \in Seq(BlockRec) /\ Len(chained2) = Len(chained) /\ DOMAIN chained2 = DOMAIN chained
  /\ \A o \in DOMAIN chained :
       /\ chained2[o].prev = chained[o].prev /\ chained2[o].num = chained[o].num
       /\ chained2[o].order = chained[o].order
       /\ Len(chained2[o].entries) = Len(chained[o].entries) /\ DOMAIN chained2[o].entries = DOMAIN chained[o].entries
       /\ chained2[o].creation = (IF w.field = "block" /\ w.p = o THEN time ELSE chained[o].creation)
       /\ chained2[o].committed = (IF w.field = "committed" /\ w.p = o THEN time ELSE chained[o].committed)

LEMMA BlockWith ==
  ASSUME NEW chained \in Seq(BlockRec), NEW p \in DOMAIN chained, NEW b \in BlockRec
  PROVE  LET q == [chained EXCEPT ![p] = b] IN
         /\ q \in Seq(BlockRec) /\ Len(q) = Len(chained) /\ DOMAIN q = DOMAIN chained
         /\ q[p] = b /\ \A o \in DOMAIN chained : o # p => q[o] = chained[o]
BY SeqPut

LEMMA BlockTimes ==
  ASSUME NEW b \in BlockRec, NEW time \in Int
  PROVE  /\ [b EXCEPT !.creation = time] \in BlockRec /\ [b EXCEPT !.creation = time].creation = time
         /\ [b EXCEPT !.creation = time].prev = b.prev /\ [b EXCEPT !.creation = time].num = b.num
         /\ [b EXCEPT !.creation = time].committed = b.committed /\ [b EXCEPT !.creation = time].entries = b.entries
         /\ [b EXCEPT !.creation = time].order = b.order
         /\ [b EXCEPT !.committed = time] \in BlockRec /\ [b EXCEPT !.committed = time].committed = time
         /\ [b EXCEPT !.committed = time].prev = b.prev /\ [b EXCEPT !.committed = time].num = b.num
         /\ [b EXCEPT !.committed = time].creation = b.creation /\ [b EXCEPT !.committed = time].entries = b.entries
         /\ [b EXCEPT !.committed = time].order = b.order
BY DEF BlockRec

LEMMA EntryTimes ==
  ASSUME NEW s \in Seq(EntryRec), NEW i \in DOMAIN s, NEW time \in Int
  PROVE  /\ [s EXCEPT ![i] = [s[i] EXCEPT !.creation = time]] \in Seq(EntryRec)
         /\ Len([s EXCEPT ![i] = [s[i] EXCEPT !.creation = time]]) = Len(s)
         /\ [s EXCEPT ![i] = [s[i] EXCEPT !.deletion = time]] \in Seq(EntryRec)
         /\ Len([s EXCEPT ![i] = [s[i] EXCEPT !.deletion = time]]) = Len(s)
PROOF
<1>1. s[i] \in EntryRec
  OBVIOUS
<1>2. PICK e1 \in EntryRec : e1 = [s[i] EXCEPT !.creation = time]
  BY <1>1 DEF EntryRec
<1>3. PICK e2 \in EntryRec : e2 = [s[i] EXCEPT !.deletion = time]
  BY <1>1 DEF EntryRec
<1>4. [s EXCEPT ![i] = e1] \in Seq(EntryRec) /\ Len([s EXCEPT ![i] = e1]) = Len(s)
  BY <1>2, SeqPut
<1>5. [s EXCEPT ![i] = e2] \in Seq(EntryRec) /\ Len([s EXCEPT ![i] = e2]) = Len(s)
  BY <1>3, SeqPut
<1> QED BY <1>2, <1>3, <1>4, <1>5

\* A block with one entry's time set.
LEMMA RestampedEntry ==
  ASSUME NEW chained \in Seq(BlockRec), NEW p \in DOMAIN chained, NEW e \in Seq(EntryRec),
         Len(e) = Len(chained[p].entries), NEW w \in WordRec, w.field \notin {"block", "committed"}, NEW time \in Int
  PROVE  Restamped(chained, [chained EXCEPT ![p] = [chained[p] EXCEPT !.entries = e]], w, time)
PROOF
<1> DEFINE q == [chained EXCEPT ![p] = [chained[p] EXCEPT !.entries = e]]
<1>1. /\ q \in Seq(BlockRec) /\ Len(q) = Len(chained) /\ DOMAIN q = DOMAIN chained
      /\ q[p].entries = e /\ q[p].creation = chained[p].creation /\ q[p].prev = chained[p].prev
      /\ q[p].committed = chained[p].committed /\ q[p].num = chained[p].num /\ q[p].order = chained[p].order
      /\ \A o \in DOMAIN chained : o # p => q[o] = chained[o]
  BY BlockPut
<1> HIDE DEF q
<1>2. DOMAIN e = DOMAIN chained[p].entries
  <2>1. chained[p].entries \in Seq(EntryRec)
    <3>1. chained[p] \in BlockRec
      OBVIOUS
    <3> QED BY <3>1 DEF BlockRec
  <2>2. DOMAIN e = 1 .. Len(e) /\ DOMAIN chained[p].entries = 1 .. Len(chained[p].entries)
    BY <2>1
  <2> QED BY <2>2
<1>3. Restamped(chained, q, w, time)
  BY <1>1, <1>2 DEF Restamped
<1> QED BY <1>3 DEF q

LEMMA SetWordDoes ==
  ASSUME NEW chained \in Seq(BlockRec), NEW w \in WordRec, NEW time \in Int,
         w.field # "label" => w.p \in DOMAIN chained,
         w.field \in {"creation", "deletion"} => w.i \in DOMAIN chained[w.p].entries
  PROVE  Restamped(chained, SetWord(chained, w, time), w, time)
PROOF
<1>0. w.field \in {"block", "committed", "creation", "deletion", "label"}
  BY DEF WordRec
<1>1. CASE w.field = "block"
  <2>1. SetWord(chained, w, time) = [chained EXCEPT ![w.p].creation = time]
    BY <1>1 DEF SetWord
  <2>2. PICK p \in DOMAIN chained : p = w.p
    BY <1>1
  <2>3. chained[p] \in BlockRec
    OBVIOUS
  <2>4. PICK b : b = [chained[p] EXCEPT !.creation = time]
    OBVIOUS
  <2>5. b \in BlockRec /\ b.creation = time /\ b.prev = chained[p].prev /\ b.num = chained[p].num /\ b.order = chained[p].order
        /\ b.committed = chained[p].committed /\ b.entries = chained[p].entries
    BY <2>3, <2>4, BlockTimes
  <2>6. PICK q : q = [chained EXCEPT ![p] = b]
    OBVIOUS
  <2>7. /\ q \in Seq(BlockRec) /\ Len(q) = Len(chained) /\ DOMAIN q = DOMAIN chained
        /\ q[p] = b /\ \A o \in DOMAIN chained : o # p => q[o] = chained[o]
    BY <2>5, <2>6, BlockWith
  <2>8. Restamped(chained, q, w, time)
    BY <1>1, <2>2, <2>5, <2>7 DEF Restamped
  <2>9. SetWord(chained, w, time) = q
    BY <2>1, <2>2, <2>4, <2>6
  <2> QED BY <2>8, <2>9
<1>2. CASE w.field = "committed"
  <2>1. SetWord(chained, w, time) = [chained EXCEPT ![w.p].committed = time]
    BY <1>2 DEF SetWord
  <2>2. PICK p \in DOMAIN chained : p = w.p
    BY <1>2
  <2>3. chained[p] \in BlockRec
    OBVIOUS
  <2>4. PICK b : b = [chained[p] EXCEPT !.committed = time]
    OBVIOUS
  <2>5. b \in BlockRec /\ b.committed = time /\ b.prev = chained[p].prev /\ b.num = chained[p].num /\ b.order = chained[p].order
        /\ b.creation = chained[p].creation /\ b.entries = chained[p].entries
    BY <2>3, <2>4, BlockTimes
  <2>6. PICK q : q = [chained EXCEPT ![p] = b]
    OBVIOUS
  <2>7. /\ q \in Seq(BlockRec) /\ Len(q) = Len(chained) /\ DOMAIN q = DOMAIN chained
        /\ q[p] = b /\ \A o \in DOMAIN chained : o # p => q[o] = chained[o]
    BY <2>5, <2>6, BlockWith
  <2>8. Restamped(chained, q, w, time)
    BY <1>2, <2>2, <2>5, <2>7 DEF Restamped
  <2>9. SetWord(chained, w, time) = q
    BY <2>1, <2>2, <2>4, <2>6
  <2> QED BY <2>8, <2>9
<1>3. CASE w.field \in {"creation", "deletion"}
  <2>1. PICK p \in DOMAIN chained : p = w.p
    BY <1>3
  <2>2. PICK s, i : s = chained[p].entries /\ i = w.i
    OBVIOUS
  <2>3. s \in Seq(EntryRec) /\ i \in DOMAIN s
    <3>1. chained[p] \in BlockRec
      OBVIOUS
    <3> QED BY <1>3, <2>1, <2>2, <3>1 DEF BlockRec
  <2>4. PICK e : e = IF w.field = "creation" THEN [s EXCEPT ![i] = [s[i] EXCEPT !.creation = time]]
                     ELSE [s EXCEPT ![i] = [s[i] EXCEPT !.deletion = time]]
    OBVIOUS
  <2>5. e \in Seq(EntryRec) /\ Len(e) = Len(chained[p].entries)
    BY <2>2, <2>3, <2>4, EntryTimes
  <2>6. SetWord(chained, w, time) = [chained EXCEPT ![p] = [chained[p] EXCEPT !.entries = e]]
    <3>1. CASE w.field = "creation"
      <4>1. SetWord(chained, w, time) = [chained EXCEPT ![w.p].entries[w.i].creation = time]
        BY <3>1 DEF SetWord
      <4> QED BY <2>1, <2>2, <2>4, <3>1, <4>1
    <3>2. CASE w.field = "deletion"
      <4>1. SetWord(chained, w, time) = [chained EXCEPT ![w.p].entries[w.i].deletion = time]
        BY <3>2 DEF SetWord
      <4>2. e = [s EXCEPT ![i] = [s[i] EXCEPT !.deletion = time]]
        BY <2>4, <3>2
      <4> QED BY <2>1, <2>2, <4>1, <4>2
    <3> QED BY <1>3, <3>1, <3>2
  <2>7. w.field \notin {"block", "committed"}
    BY <1>3
  <2>8. \A u \in WordRec, k \in Int : u.field \notin {"block", "committed"} =>
           Restamped(chained, [chained EXCEPT ![p] = [chained[p] EXCEPT !.entries = e]], u, k)
    BY <2>5, RestampedEntry
  <2>9. PICK q : q = [chained EXCEPT ![p] = [chained[p] EXCEPT !.entries = e]]
    OBVIOUS
  <2>10. \A u \in WordRec, k \in Int : u.field \notin {"block", "committed"} => Restamped(chained, q, u, k)
    BY <2>8, <2>9
  <2>11. Restamped(chained, q, w, time)
    BY <2>7, <2>10
  <2>12. SetWord(chained, w, time) = q
    BY <2>6, <2>9
  <2> QED BY <2>11, <2>12
<1>4. CASE w.field = "label"
  <2>1. SetWord(chained, w, time) = chained
    BY <1>4 DEF SetWord
  <2> QED BY <1>4, <2>1 DEF Restamped
<1> QED BY <1>0, <1>1, <1>2, <1>3, <1>4

\* Label blocks but for their creation times.
SameLabels(labs, labs2) ==
  /\ labs2 \in Seq(LabelRec) /\ Len(labs2) = Len(labs) /\ DOMAIN labs2 = DOMAIN labs
  /\ \A q \in DOMAIN labs : labs2[q].prev = labs[q].prev /\ labs2[q].entries = labs[q].entries /\ labs2[q].order = labs[q].order

LEMMA LabelTime ==
  ASSUME NEW labs \in Seq(LabelRec), NEW p \in DOMAIN labs, NEW time \in Int
  PROVE  SameLabels(labs, [labs EXCEPT ![p].creation = time])
PROOF
<1>1. labs[p] \in LabelRec
  OBVIOUS
<1>2. PICK b : b = [labs[p] EXCEPT !.creation = time]
  OBVIOUS
<1>3. b \in LabelRec /\ b.prev = labs[p].prev /\ b.entries = labs[p].entries /\ b.order = labs[p].order
  BY <1>1, <1>2 DEF LabelRec
<1>4. PICK q : q = [labs EXCEPT ![p] = b]
  OBVIOUS
<1>5. /\ q \in Seq(LabelRec) /\ Len(q) = Len(labs) /\ DOMAIN q = DOMAIN labs
      /\ q[p] = b /\ \A o \in DOMAIN labs : o # p => q[o] = labs[o]
  BY <1>3, <1>4, SeqPut
<1>6. SameLabels(labs, q)
  BY <1>3, <1>5 DEF SameLabels
<1>7. [labs EXCEPT ![p].creation = time] = q
  BY <1>2, <1>4
<1> QED BY <1>6, <1>7

LEMMA SamePointed ==
  ASSUME Types, OlderInv, LabelsInv, SameLabels(labels, labels'), edge_label_ptr' = edge_label_ptr, DOMAIN blocks \subseteq DOMAIN blocks'
  PROVE  /\ \A l : HeadOf(l)' = HeadOf(l)
         /\ Older(labels)' /\ LabelsInv' /\ edge_label_ptr' \in 0 .. Len(labels')
PROOF
<1>1. /\ labels' \in Seq(LabelRec) /\ Len(labels') = Len(labels) /\ DOMAIN labels' = DOMAIN labels
      /\ \A q \in DOMAIN labels : labels'[q].prev = labels[q].prev /\ labels'[q].entries = labels[q].entries
  BY DEF SameLabels
<1>2. edge_label_ptr \in 0 .. Len(labels) /\ DOMAIN labels = 1 .. Len(labels)
  BY DEF Types
<1>3. Older(labels)'
  BY <1>1 DEF OlderInv, Older
<1>4. LabelsInv'
  BY <1>1 DEF LabelsInv
<1>5. ASSUME NEW l PROVE HeadOf(l)' = HeadOf(l)
  <2>1. CASE edge_label_ptr = NULLPOINTER
    BY <2>1 DEF HeadOf, Pointed
  <2>2. CASE edge_label_ptr # NULLPOINTER
    <3>1. labels'[edge_label_ptr].entries = labels[edge_label_ptr].entries
      BY <1>1, <1>2, <2>2
    <3> QED BY <3>1 DEF HeadOf, Pointed
  <2> QED BY <2>1, <2>2
<1> QED BY <1>1, <1>2, <1>3, <1>4, <1>5

LEMMA StampDoes ==
  ASSUME Basic, CommitsInv, NEW c \in Client, Stamp(c)
  PROVE  /\ Installing(c) /\ Installs(c) /\ SameLabels(labels, labels') /\ edge_label_ptr' = edge_label_ptr
         /\ Tails(txn[c]) = {} /\ Pending(txn[c]) = {}
         /\ txn'[c].ptrs = txn[c].ptrs /\ txn'[c].tails = txn[c].tails
         /\ \E w \in WordRec :
              /\ Members(txn[c].stamps) = {w} \cup Members(txn'[c].stamps)
              /\ Restamped(blocks, blocks', w, txn[c].epoch)
PROOF
<1>0. Types /\ RefsOf(c)
  BY DEF Basic, RefsInv
<1>1. PICK s : s = txn[c].stamps
  OBVIOUS
<1>2. PICK w : w = Head(s)
  OBVIOUS
<1>3. /\ Committing(c) /\ Tails(txn[c]) = {} /\ Pending(txn[c]) = {} /\ s # <<>>
      /\ blocks' = SetWord(blocks, w, txn[c].epoch)
      /\ labels' = IF w.field = "label" THEN [labels EXCEPT ![w.p].creation = txn[c].epoch] ELSE labels
      /\ SetTxn(c, [txn[c] EXCEPT !.stamps = Tail(@)])
      /\ UNCHANGED <<pc, edge_label_ptr>>
  BY <1>1, <1>2 DEF Stamp
<1>4. /\ pc[c] = "install"
      /\ UNCHANGED <<visible, sealed, stage, transaction_id, vertex_futex, freed, freedLabels, scan, compaction, committed>>
  BY <1>3, CommittingFacts
<1>5. Installing(c)
  <2>1. ~Bare(txn[c])
    BY <1>1, <1>3 DEF Bare
  <2> QED BY <1>4, <2>1, InstallerHolds
<1>6. /\ txn[c] \in TxnRec /\ txn[c].epoch \in Nat /\ s \in Seq(WordRec) /\ txn \in [Client -> TxnRec]
      /\ blocks \in Seq(BlockRec) /\ labels \in Seq(LabelRec)
  BY <1>0, <1>1, TxnFields DEF Types
<1>7. w \in WordRec /\ Tail(s) \in Seq(WordRec) /\ w \in Members(s) /\ Members(s) = {w} \cup Members(Tail(s))
  BY <1>2, <1>3, <1>6, TailOf
<1>8. /\ w.field = "label" => w.p \in DOMAIN labels
      /\ w.field # "label" => w.p \in DOMAIN blocks
      /\ w.field \in {"creation", "deletion"} => w.i \in DOMAIN blocks[w.p].entries
  BY <1>0, <1>1, <1>4, <1>7 DEF RefsOf, Writer
<1>9. PICK k \in Int : k = txn[c].epoch
  BY <1>6
<1>10. Restamped(blocks, SetWord(blocks, w, k), w, k)
  BY <1>6, <1>7, <1>8, SetWordDoes
<1>11. Restamped(blocks, blocks', w, txn[c].epoch)
  <2>1. PICK q : q = SetWord(blocks, w, k)
    OBVIOUS
  <2>2. Restamped(blocks, q, w, k)
    BY <1>10, <2>1
  <2>3. blocks' = q
    BY <1>3, <1>9, <2>1
  <2> QED BY <1>9, <2>2, <2>3
<1>12. SameLabels(labels, labels')
  <2>1. CASE w.field = "label"
    <3>1. PICK p \in DOMAIN labels : p = w.p
      BY <1>8, <2>1
    <3>2. SameLabels(labels, [labels EXCEPT ![p].creation = k])
      BY <1>6, LabelTime
    <3>3. labels' = [labels EXCEPT ![p].creation = k]
      BY <1>3, <1>9, <2>1, <3>1
    <3>4. PICK q : q = [labels EXCEPT ![p].creation = k]
      OBVIOUS
    <3>5. SameLabels(labels, q) /\ labels' = q
      BY <3>2, <3>3, <3>4
    <3> QED BY <3>5
  <2>2. CASE w.field # "label"
    <3>1. labels' = labels
      BY <1>3, <2>2
    <3> QED BY <1>6, <3>1 DEF SameLabels
  <2> QED BY <2>1, <2>2
<1>13. PICK u : u = [txn[c] EXCEPT !.stamps = Tail(s)]
  OBVIOUS
<1>14. /\ u \in TxnRec /\ u.stamps = Tail(s) /\ u.id = txn[c].id /\ u.read = txn[c].read
       /\ u.locked = txn[c].locked /\ u.ptrs = txn[c].ptrs /\ u.tails = txn[c].tails /\ u.own = txn[c].own
       /\ u.epoch = txn[c].epoch /\ u.mine = txn[c].mine
  BY <1>6, <1>7, <1>13, TxnPut_stamps
<1>15. txn' = [txn EXCEPT ![c] = u]
  BY <1>1, <1>3, <1>13 DEF SetTxn
<1>16. txn' \in [Client -> TxnRec] /\ txn'[c] = u /\ \A d \in Client \ {c} : txn'[d] = txn[d]
  BY <1>6, <1>14, <1>15
<1>17. Installs(c)
  BY <1>3, <1>4, <1>14, <1>16 DEF Installs
<1>18. txn'[c].ptrs = txn[c].ptrs /\ txn'[c].tails = txn[c].tails /\ txn'[c].stamps = Tail(s)
  BY <1>14, <1>16
<1>19. Members(txn[c].stamps) = {w} \cup Members(txn'[c].stamps)
  BY <1>1, <1>7, <1>18
<1> QED BY <1>3, <1>5, <1>7, <1>11, <1>12, <1>17, <1>18, <1>19

LEMMA StampKeeps ==
  ASSUME Basic, CommitsInv, NEW c \in Client, Stamp(c)
  PROVE  Basic' /\ CommitsInv' /\ committed' = committed
PROOF
<1>0. /\ Types /\ OlderInv /\ LabelsInv /\ TailInv /\ RefsOf(c) /\ TopsOf(c) /\ InstallOf(c) /\ CommitInv /\ CommittedInv
      /\ PlaceOf(c)
  BY DEF Basic, RefsInv, CommitsInv, TopsInv, InstallInv, PlaceInv
<1>1. /\ Installing(c) /\ Installs(c) /\ SameLabels(labels, labels') /\ edge_label_ptr' = edge_label_ptr
      /\ Tails(txn[c]) = {} /\ Pending(txn[c]) = {}
      /\ txn'[c].ptrs = txn[c].ptrs /\ txn'[c].tails = txn[c].tails
  BY StampDoes
<1>2. PICK w \in WordRec :
        /\ Members(txn[c].stamps) = {w} \cup Members(txn'[c].stamps)
        /\ Restamped(blocks, blocks', w, txn[c].epoch)
  BY StampDoes
<1>3. PICK e \in Nat : e = txn[c].epoch
  BY <1>0, TxnFields
<1>4. /\ blocks' \in Seq(BlockRec) /\ Len(blocks') = Len(blocks) /\ DOMAIN blocks' = DOMAIN blocks
      /\ \A o \in DOMAIN blocks :
           /\ blocks'[o].prev = blocks[o].prev /\ blocks'[o].num = blocks[o].num
           /\ Len(blocks'[o].entries) = Len(blocks[o].entries) /\ DOMAIN blocks'[o].entries = DOMAIN blocks[o].entries
           /\ blocks'[o].creation = (IF w.field = "block" /\ w.p = o THEN e ELSE blocks[o].creation)
           /\ blocks'[o].committed = (IF w.field = "committed" /\ w.p = o THEN e ELSE blocks[o].committed)
  BY <1>2, <1>3 DEF Restamped
<1>5. /\ UNCHANGED <<visible, sealed, stage, transaction_id, vertex_futex, scan, pc, compaction, committed>>
      /\ txn'[c].read = txn[c].read /\ txn'[c].epoch = e /\ txn'[c].own = txn[c].own
      /\ \A d \in Client \ {c} : txn'[d] = txn[d]
  BY <1>1, <1>3 DEF Installs
<1>6. pc[c] = "install" /\ txn[c].locked /\ Writer(c) /\ ~Open(c)' /\ Writer(c)' /\ pc'[c] = "install"
  BY <1>1, <1>5 DEF Installing, Writer, Open, InScan
<1>7. /\ labels' \in Seq(LabelRec) /\ Len(labels') = Len(labels) /\ DOMAIN labels' = DOMAIN labels
      /\ \A q \in DOMAIN labels : labels'[q].entries = labels[q].entries
  BY <1>1 DEF SameLabels
<1>8. (\A l : HeadOf(l)' = HeadOf(l)) /\ Older(labels)' /\ LabelsInv' /\ edge_label_ptr' \in 0 .. Len(labels')
  BY <1>0, <1>1, <1>4, SamePointed
<1>9. \A l : TopOf(c, l) = HeadOf(l) /\ TopOf(c, l)' = HeadOf(l)
  BY <1>1, <1>8 DEF TopOf, Pending
<1>10. e \in 1 .. sealed
  BY <1>0, <1>3, <1>6 DEF PlaceOf
<1>11. /\ \A l : HeadOf(l) \in 0 .. Len(blocks)
       /\ \A q \in 0 .. Len(blocks) : q # NULLPOINTER => q \in DOMAIN blocks
  BY <1>6, TopFacts
<1>12. OlderInv'
  <2>1. Older(blocks)'
    BY <1>0, <1>4 DEF OlderInv, Older
  <2> QED BY <1>8, <2>1 DEF OlderInv
<1>13. TailInv'
  BY <1>0, <1>4 DEF TailInv
<1>14. CommittedInv'
  BY <1>0, <1>4, <1>5, <1>10 DEF CommittedInv
<1>15. RefsOf(c)'
  <2>1. (\A l \in Label : txn[c].ptrs[l] <= Len(blocks))'
    BY <1>0, <1>1, <1>4, <1>6 DEF RefsOf
  <2>2. (\A o \in Pointer : txn[c].tails[o] # NoTail => o \in DOMAIN blocks /\ txn[c].tails[o] <= Len(blocks[o].entries))'
    BY <1>0, <1>1, <1>4, <1>6 DEF RefsOf
  <2>3. (txn[c].own \subseteq DOMAIN blocks)'
    BY <1>0, <1>4, <1>5, <1>6 DEF RefsOf
  <2>4. (\A v \in Members(txn[c].stamps) :
            /\ v.field = "label" => v.p \in DOMAIN labels
            /\ v.field # "label" => v.p \in DOMAIN blocks
            /\ v.field \in {"creation", "deletion"} => v.i \in DOMAIN blocks[v.p].entries
            /\ v.field = "block" => v.p \in txn[c].own
            /\ v.field = "committed" => pc[c] = "install")'
    <3>1. ASSUME NEW v \in Members(txn'[c].stamps)
          PROVE  /\ v.field = "label" => v.p \in DOMAIN labels'
                 /\ v.field # "label" => v.p \in DOMAIN blocks'
                 /\ v.field \in {"creation", "deletion"} => v.i \in DOMAIN blocks'[v.p].entries
                 /\ v.field = "block" => v.p \in txn'[c].own
                 /\ v.field = "committed" => pc'[c] = "install"
      <4>1. v \in Members(txn[c].stamps)
        BY <1>2
      <4>2. /\ v.field = "label" => v.p \in DOMAIN labels
            /\ v.field # "label" => v.p \in DOMAIN blocks
            /\ v.field \in {"creation", "deletion"} => v.i \in DOMAIN blocks[v.p].entries
            /\ v.field = "block" => v.p \in txn[c].own
        BY <1>0, <1>6, <4>1 DEF RefsOf
      <4>3. v.field \in {"creation", "deletion"} => v.p \in DOMAIN blocks /\ DOMAIN blocks'[v.p].entries = DOMAIN blocks[v.p].entries
        BY <1>4, <4>2
      <4> QED BY <1>4, <1>5, <1>6, <1>7, <4>2, <4>3
    <3> QED BY <3>1
  <2>5. (scan[c].ptr <= Len(blocks) /\ scan[c].lb <= Len(labels))'
    BY <1>0, <1>4, <1>5, <1>7 DEF RefsOf
  <2> QED BY <1>6, <2>1, <2>2, <2>3, <2>4, <2>5 DEF RefsOf
<1>16. TopsOf(c)'
  BY <1>1, <1>6 DEF TopsOf, Pending
<1>17. ASSUME NEW q \in DOMAIN blocks, Timed(c, q) PROVE Timed(c, q)'
  <2>1. CASE q \in Tails(txn[c])
    BY <1>1, <2>1
  <2>2. CASE Word("committed", q, 0) \in Members(txn'[c].stamps)
    BY <2>2 DEF Timed
  <2>3. CASE w = Word("committed", q, 0)
    <3>1. w.field = "committed" /\ w.p = q
      BY <2>3 DEF Word
    <3>2. blocks'[q].committed = e
      BY <1>4, <3>1
    <3> QED BY <1>5, <3>2 DEF Timed
  <2>4. CASE blocks[q].committed = e
    <3>1. blocks'[q].committed = e
      BY <1>4, <2>4
    <3> QED BY <1>5, <3>1 DEF Timed
  <2> QED BY <1>2, <1>3, <1>17, <2>1, <2>2, <2>3, <2>4 DEF Timed
<1>18. InstallOf(c)'
  <2>1. SUFFICES ASSUME NEW l \in AnyLabel, TopOf(c, l)' # NULLPOINTER
        PROVE  /\ (Word("block", TopOf(c, l), 0) \in Members(txn[c].stamps) \/ blocks[TopOf(c, l)].creation \in 0 .. txn[c].epoch)'
               /\ Timed(c, TopOf(c, l))' \/ (Steady(TopOf(c, l)) /\ TopOf(c, l) = HeadOf(l) /\ TopOf(c, l) \notin txn[c].own)'
    BY DEF InstallOf
  <2>2. PICK q : q = HeadOf(l)
    OBVIOUS
  <2>3. TopOf(c, l)' = q /\ TopOf(c, l) = q /\ HeadOf(l)' = q /\ q # NULLPOINTER /\ q \in DOMAIN blocks
    BY <1>8, <1>9, <1>11, <2>1, <2>2
  <2>4. /\ Word("block", q, 0) \in Members(txn[c].stamps) \/ blocks[q].creation \in 0 .. e
        /\ Timed(c, q) \/ (Steady(q) /\ q \notin txn[c].own)
    BY <1>0, <1>1, <1>3, <2>3 DEF InstallOf
  <2>5. Word("block", q, 0) \in Members(txn'[c].stamps) \/ blocks'[q].creation \in 0 .. txn'[c].epoch
    <3>1. CASE w.field = "block" /\ w.p = q
      <4>1. blocks'[q].creation = e
        BY <1>4, <2>3, <3>1
      <4> QED BY <1>3, <1>5, <4>1
    <3>2. CASE ~(w.field = "block" /\ w.p = q)
      <4>1. blocks'[q].creation = blocks[q].creation
        BY <1>4, <2>3, <3>2
      <4>2. w # Word("block", q, 0)
        BY <3>2 DEF Word
      <4> QED BY <1>2, <1>5, <2>4, <4>1, <4>2
    <3> QED BY <3>1, <3>2
  <2>6. Timed(c, q)' => Timed(c, TopOf(c, l))'
    BY <2>3 DEF Timed
  <2>7. Steady(q)' => Steady(TopOf(c, l))'
    BY <2>3 DEF Steady
  <2>8. CASE Timed(c, q)
    <3>1. Timed(c, q)'
      BY <1>17, <2>3, <2>8
    <3> QED BY <2>3, <2>5, <2>6, <3>1
  <2>9. CASE Steady(q) /\ q \notin txn[c].own
    <3>1. ~(w.field = "block" /\ w.p = q)
      <4>1. w \in Members(txn[c].stamps)
        BY <1>2
      <4> QED BY <1>0, <1>6, <2>9, <4>1 DEF RefsOf
    <3>2. blocks'[q].creation = blocks[q].creation
      BY <1>4, <2>3, <3>1
    <3>3. CASE w.field = "committed" /\ w.p = q
      <4>1. blocks'[q].committed = e
        BY <1>4, <2>3, <3>3
      <4>2. Timed(c, q)'
        BY <1>5, <4>1 DEF Timed
      <4> QED BY <2>3, <2>5, <2>6, <4>2
    <3>4. CASE ~(w.field = "committed" /\ w.p = q)
      <4>1. blocks'[q].committed = blocks[q].committed
        BY <1>4, <2>3, <3>4
      <4>2. \A d \in Client : txn'[d].read = txn[d].read
        BY <1>5
      <4>3. Steady(q)'
        BY <1>5, <2>9, <3>2, <4>1, <4>2 DEF Steady, Old, Active
      <4> QED BY <1>5, <2>3, <2>5, <2>7, <2>9, <4>3
    <3> QED BY <3>3, <3>4
  <2> QED BY <2>4, <2>8, <2>9
<1>19. ASSUME NEW x \in committed
       PROVE  \/ HeadOf(x.label)' # NULLPOINTER /\ x.epoch <= blocks'[HeadOf(x.label)].committed
              \/ TopOf(c, x.label)' # NULLPOINTER /\ Timed(c, TopOf(c, x.label))'
  <2>1. PICK q : q = HeadOf(x.label)
    OBVIOUS
  <2>2. TopOf(c, x.label)' = q /\ TopOf(c, x.label) = q /\ HeadOf(x.label)' = q
    BY <1>8, <1>9, <2>1
  <2>3. Timed(c, q)' => Timed(c, TopOf(c, x.label))'
    BY <2>2 DEF Timed
  <2>4. CommitOf(x) /\ x.epoch <= e
    BY <1>0, <1>1, <1>3 DEF CommitInv, CommitOf
  <2>5. \A d \in Client : Installing(d) => d = c
    <3>1. Holds(c)
      BY <1>1, <1>6 DEF Holds
    <3> QED BY <3>1, OthersBare
  <2>6. CASE q # NULLPOINTER /\ Timed(c, q)
    <3>1. q \in DOMAIN blocks
      BY <1>11, <2>1, <2>6
    <3> QED BY <1>17, <2>2, <2>3, <2>6, <3>1
  <2>7. CASE q # NULLPOINTER /\ x.epoch <= blocks[q].committed
    <3>1. q \in DOMAIN blocks
      BY <1>11, <2>1, <2>7
    <3>2. x.epoch <= blocks'[q].committed
      BY <1>4, <2>4, <2>7, <3>1
    <3> QED BY <2>1, <2>2, <2>7, <3>2
  <2>8. \/ q # NULLPOINTER /\ x.epoch <= blocks[q].committed
        \/ q # NULLPOINTER /\ Timed(c, q)
    <3>1. CASE HeadOf(x.label) # NULLPOINTER /\ x.epoch <= blocks[HeadOf(x.label)].committed
      BY <2>1, <3>1
    <3>2. ASSUME NEW d \in Client, Installing(d), TopOf(d, x.label) # NULLPOINTER, Timed(d, TopOf(d, x.label))
          PROVE  q # NULLPOINTER /\ Timed(c, q)
      <4>1. d = c
        BY <2>5, <3>2
      <4> QED BY <2>2, <3>2, <4>1
    <3> QED BY <2>4, <3>1, <3>2 DEF CommitOf
  <2> QED BY <2>6, <2>7, <2>8
<1>20. Len(labels) <= Len(labels')
  BY <1>0, <1>7 DEF Types
<1> QED BY <1>1, <1>4, <1>5, <1>7, <1>8, <1>12, <1>13, <1>14, <1>15, <1>16, <1>18, <1>19, <1>20, InstallsKeep

-----------------------------------------------------------------------------
(* Pointing a label to another block *)

\* What the entries of a label block have for label l.
EntryPtr(es, l) ==
  LET S == {i \in DOMAIN es : es[i].label = l}
  IN  IF S = {} THEN NULLPOINTER ELSE es[CHOOSE i \in S : TRUE].ptr
Heads(labs, lb, l) == IF lb = NULLPOINTER THEN NULLPOINTER ELSE EntryPtr(labs[lb].entries, l)

LabelEntry == [label : AnyLabel, ptr : Nat]
Distinct(es, D) ==
  \A i \in DOMAIN es : es[i].ptr \in D /\ \A j \in DOMAIN es : es[i].label = es[j].label => i = j

LEMMA HeadsAre ==
  /\ \A l : HeadOf(l) = Heads(labels, edge_label_ptr, l)
  /\ \A l : HeadOf(l)' = Heads(labels', edge_label_ptr', l)
  /\ LabelsInv <=> \A q \in DOMAIN labels : Distinct(labels[q].entries, DOMAIN blocks)
  /\ LabelsInv' <=> \A q \in DOMAIN labels' : Distinct(labels'[q].entries, DOMAIN blocks')
PROOF
<1>1. \A l : HeadOf(l) = Heads(labels, edge_label_ptr, l)
  BY DEF HeadOf, Pointed, Heads, EntryPtr
<1>2. \A l : HeadOf(l)' = Heads(labels', edge_label_ptr', l)
  BY DEF HeadOf, Pointed, Heads, EntryPtr
<1>3. LabelsInv <=> \A q \in DOMAIN labels : Distinct(labels[q].entries, DOMAIN blocks)
  BY DEF LabelsInv, Distinct
<1>4. LabelsInv' <=> \A q \in DOMAIN labels' : Distinct(labels'[q].entries, DOMAIN blocks')
  BY DEF LabelsInv, Distinct
<1> QED BY <1>1, <1>2, <1>3, <1>4

LEMMA EntriesTyped ==
  ASSUME NEW labs \in Seq(LabelRec), NEW lb \in DOMAIN labs
  PROVE  labs[lb].entries \in Seq(LabelEntry)
PROOF
<1>1. labs[lb] \in LabelRec
  OBVIOUS
<1> QED BY <1>1 DEF LabelRec, LabelEntry

\* The entry of a label is the only one with it.
LEMMA EntryAt ==
  ASSUME NEW es, NEW D, Distinct(es, D)
  PROVE  /\ \A i \in DOMAIN es : EntryPtr(es, es[i].label) = es[i].ptr
         /\ \A l : (\A i \in DOMAIN es : es[i].label # l) => EntryPtr(es, l) = NULLPOINTER
PROOF
<1>1. ASSUME NEW i \in DOMAIN es PROVE EntryPtr(es, es[i].label) = es[i].ptr
  <2>1. PICK S : S = {j \in DOMAIN es : es[j].label = es[i].label}
    OBVIOUS
  <2>2. S = {i}
    BY <1>1, <2>1 DEF Distinct
  <2>3. (CHOOSE j \in S : TRUE) = i
    BY <2>2
  <2> QED BY <2>1, <2>2, <2>3 DEF EntryPtr
<1>2. ASSUME NEW l, \A i \in DOMAIN es : es[i].label # l PROVE EntryPtr(es, l) = NULLPOINTER
  BY <1>2 DEF EntryPtr
<1> QED BY <1>1, <1>2

PutPtr(es, i, p) == [es EXCEPT ![i].ptr = p]
AddPtr(es, l, p) == Append(es, [label |-> l, ptr |-> p])

LEMMA EntryPut ==
  ASSUME NEW es \in Seq(LabelEntry), NEW D, Distinct(es, D), NEW i \in DOMAIN es, NEW p \in Nat, p \in D
  PROVE  /\ PutPtr(es, i, p) \in Seq(LabelEntry) /\ Len(PutPtr(es, i, p)) = Len(es)
         /\ DOMAIN PutPtr(es, i, p) = DOMAIN es
         /\ \A j \in DOMAIN es : PutPtr(es, i, p)[j].label = es[j].label
         /\ Distinct(PutPtr(es, i, p), D)
         /\ EntryPtr(PutPtr(es, i, p), es[i].label) = p
         /\ \A k : k # es[i].label => EntryPtr(PutPtr(es, i, p), k) = EntryPtr(es, k)
PROOF
<1>1. PICK x : x = [es[i] EXCEPT !.ptr = p]
  OBVIOUS
<1>2. es[i] \in LabelEntry
  OBVIOUS
<1>3. x \in LabelEntry /\ x.ptr = p /\ x.label = es[i].label
  BY <1>1, <1>2 DEF LabelEntry
<1>4. PICK es2 : es2 = [es EXCEPT ![i] = x]
  OBVIOUS
<1>5. PutPtr(es, i, p) = es2
  BY <1>1, <1>4 DEF PutPtr
<1>6. /\ es2 \in Seq(LabelEntry) /\ Len(es2) = Len(es) /\ DOMAIN es2 = DOMAIN es /\ es2[i] = x
      /\ \A j \in DOMAIN es : j # i => es2[j] = es[j]
  BY <1>3, <1>4, SeqPut
<1>7. \A j \in DOMAIN es : es2[j].label = es[j].label
  BY <1>3, <1>6
<1>8. Distinct(es2, D)
  BY <1>3, <1>6, <1>7 DEF Distinct
<1>9. EntryPtr(es2, es[i].label) = p
  BY <1>3, <1>6, <1>8, EntryAt
<1>10. ASSUME NEW k, k # es[i].label PROVE EntryPtr(es2, k) = EntryPtr(es, k)
  <2>1. CASE \E j \in DOMAIN es : es[j].label = k
    <3>1. PICK j \in DOMAIN es : es[j].label = k
      BY <2>1
    <3>2. EntryPtr(es, k) = es[j].ptr
      BY <3>1, EntryAt
    <3>3. EntryPtr(es2, k) = es2[j].ptr
      BY <1>6, <1>7, <1>8, <3>1, EntryAt
    <3> QED BY <1>6, <1>10, <3>1, <3>2, <3>3
  <2>2. CASE \A j \in DOMAIN es : es[j].label # k
    <3>1. EntryPtr(es, k) = NULLPOINTER
      BY <2>2, EntryAt
    <3>2. EntryPtr(es2, k) = NULLPOINTER
      BY <1>6, <1>7, <1>8, <2>2, EntryAt
    <3> QED BY <3>1, <3>2
  <2> QED BY <2>1, <2>2
<1> QED BY <1>5, <1>6, <1>7, <1>8, <1>9, <1>10

LEMMA EntryAdd ==
  ASSUME NEW es \in Seq(LabelEntry), NEW D, Distinct(es, D), NEW l \in AnyLabel, NEW p \in Nat, p \in D,
         \A i \in DOMAIN es : es[i].label # l
  PROVE  /\ AddPtr(es, l, p) \in Seq(LabelEntry)
         /\ Len(AddPtr(es, l, p)) = Len(es) + 1
         /\ Distinct(AddPtr(es, l, p), D)
         /\ EntryPtr(AddPtr(es, l, p), l) = p
         /\ \A k : k # l => EntryPtr(AddPtr(es, l, p), k) = EntryPtr(es, k)
PROOF
<1>1. PICK x : x = [label |-> l, ptr |-> p]
  OBVIOUS
<1>2. x \in LabelEntry /\ x.label = l /\ x.ptr = p
  BY <1>1 DEF LabelEntry
<1>3. PICK es2 : es2 = Append(es, x)
  OBVIOUS
<1>10. AddPtr(es, l, p) = es2
  BY <1>1, <1>3 DEF AddPtr
<1>4. /\ es2 \in Seq(LabelEntry) /\ Len(es2) = Len(es) + 1 /\ DOMAIN es2 = 1 .. Len(es) + 1
      /\ DOMAIN es = 1 .. Len(es) /\ Len(es) \in Nat /\ es2[Len(es) + 1] = x
      /\ \A j \in DOMAIN es : j \in DOMAIN es2 /\ es2[j] = es[j]
  BY <1>2, <1>3, SeqAdd
<1>5. PICK n : n = Len(es) + 1
  OBVIOUS
<1>6. /\ es2[n] = x /\ DOMAIN es2 = DOMAIN es \cup {n} /\ n \notin DOMAIN es
  BY <1>4, <1>5
<1>7. Distinct(es2, D)
  BY <1>2, <1>4, <1>6 DEF Distinct
<1>8. EntryPtr(es2, l) = p
  BY <1>2, <1>6, <1>7, EntryAt
<1>9. ASSUME NEW k, k # l PROVE EntryPtr(es2, k) = EntryPtr(es, k)
  <2>1. CASE \E j \in DOMAIN es : es[j].label = k
    <3>1. PICK j \in DOMAIN es : es[j].label = k
      BY <2>1
    <3>2. EntryPtr(es, k) = es[j].ptr
      BY <3>1, EntryAt
    <3>3. EntryPtr(es2, k) = es2[j].ptr
      BY <1>4, <1>7, <3>1, EntryAt
    <3> QED BY <1>4, <3>1, <3>2, <3>3
  <2>2. CASE \A j \in DOMAIN es : es[j].label # k
    <3>1. EntryPtr(es, k) = NULLPOINTER
      BY <2>2, EntryAt
    <3>2. EntryPtr(es2, k) = NULLPOINTER
      BY <1>2, <1>4, <1>6, <1>7, <1>9, <2>2, EntryAt
    <3> QED BY <3>1, <3>2
  <2> QED BY <2>1, <2>2
<1> QED BY <1>4, <1>7, <1>8, <1>9, <1>10

\* No label block has more entries than fit into it.
EntriesFit(es, order) == 32 + Len(es) * 16 <= Bytes[order]
LabelsFit(labs) == \A q \in DOMAIN labs : EntriesFit(labs[q].entries, labs[q].order)

\* The label blocks labs2 under lb2 point as labs under lb do, but for l, which they have point to p.
Points(labs, lb, labs2, lb2, l, p, D) ==
  /\ labs2 \in Seq(LabelRec) /\ Len(labs) <= Len(labs2) /\ lb2 \in 0 .. Len(labs2) /\ Older(labs2)
  /\ \A q \in DOMAIN labs : q \in DOMAIN labs2 /\ labs2[q].prev = labs[q].prev /\ labs2[q].creation = labs[q].creation
  /\ \A q \in DOMAIN labs2 : Distinct(labs2[q].entries, D)
  /\ Heads(labs2, lb2, l) = p
  /\ \A k : k # l => Heads(labs2, lb2, k) = Heads(labs, lb, k)
  /\ LabelsFit(labs) => LabelsFit(labs2)

PutEntries(labs, lb, es) == [labs EXCEPT ![lb].entries = es]

\* Another list of entries in the label block on top.
LEMMA LabelEntries ==
  ASSUME NEW labs \in Seq(LabelRec), Older(labs), NEW lb \in DOMAIN labs, NEW D, NEW l, NEW p,
         \A q \in DOMAIN labs : Distinct(labs[q].entries, D),
         NEW es \in Seq(LabelEntry), Distinct(es, D), EntryPtr(es, l) = p,
         \A k : k # l => EntryPtr(es, k) = EntryPtr(labs[lb].entries, k),
         EntriesFit(labs[lb].entries, labs[lb].order) => EntriesFit(es, labs[lb].order)
  PROVE  /\ Points(labs, lb, PutEntries(labs, lb, es), lb, l, p, D)
         /\ Len(PutEntries(labs, lb, es)) = Len(labs) /\ PutEntries(labs, lb, es)[lb].entries = es
PROOF
<1>1. PICK b : b = [labs[lb] EXCEPT !.entries = es]
  OBVIOUS
<1>2. labs[lb] \in LabelRec
  OBVIOUS
<1>3. /\ b \in LabelRec /\ b.prev = labs[lb].prev /\ b.creation = labs[lb].creation /\ b.order = labs[lb].order
      /\ b.entries = es
  BY <1>1, <1>2 DEF LabelRec, LabelEntry
<1>4. PICK labs2 : labs2 = [labs EXCEPT ![lb] = b]
  OBVIOUS
<1>5. PutEntries(labs, lb, es) = labs2
  BY <1>1, <1>4 DEF PutEntries
<1>6. /\ labs2 \in Seq(LabelRec) /\ Len(labs2) = Len(labs) /\ DOMAIN labs2 = DOMAIN labs /\ labs2[lb] = b
      /\ \A q \in DOMAIN labs : q # lb => labs2[q] = labs[q]
  BY <1>3, <1>4, SeqPut
<1>7. /\ lb \in 1 .. Len(labs) /\ Len(labs) \in Nat
  BY DEF Older
<1>8. \A q \in DOMAIN labs : q \in DOMAIN labs2 /\ labs2[q].prev = labs[q].prev /\ labs2[q].creation = labs[q].creation
  BY <1>3, <1>6
<1>9. Older(labs2)
  BY <1>6, <1>8 DEF Older
<1>10. \A q \in DOMAIN labs2 : Distinct(labs2[q].entries, D)
  BY <1>3, <1>6
<1>11. lb # NULLPOINTER
  BY <1>7
<1>12. Heads(labs2, lb, l) = p /\ \A k : k # l => Heads(labs2, lb, k) = Heads(labs, lb, k)
  BY <1>3, <1>6, <1>11 DEF Heads
<1>13. LabelsFit(labs) => LabelsFit(labs2)
  BY <1>3, <1>6 DEF LabelsFit
<1>14. Points(labs, lb, labs2, lb, l, p, D)
  BY <1>6, <1>7, <1>8, <1>9, <1>10, <1>12, <1>13 DEF Points
<1> QED BY <1>3, <1>5, <1>6, <1>14

PutLabel(labs, lb, i, p) == [labs EXCEPT ![lb].entries[i].ptr = p]
NewTop(labs, lb, l, p, time, es) ==
  Append(labs, [creation |-> time, prev |-> lb, order |-> LabelOrder(Len(es) + 1),
                entries |-> Append(es, [label |-> l, ptr |-> p])])

OnTop(labs, lb, es) == es = IF lb = NULLPOINTER THEN <<>> ELSE labs[lb].entries

Topped(labs, lb, labs2, l, p, time, D) ==
  /\ Points(labs, lb, labs2, Len(labs) + 1, l, p, D)
  /\ Len(labs2) = Len(labs) + 1 /\ labs2[Len(labs) + 1].creation = time

LEMMA LabelPut ==
  ASSUME NEW labs \in Seq(LabelRec), Older(labs), NEW lb \in DOMAIN labs, NEW D,
         \A q \in DOMAIN labs : Distinct(labs[q].entries, D),
         NEW i \in DOMAIN labs[lb].entries, NEW p \in Nat, p \in D
  PROVE  /\ Points(labs, lb, PutLabel(labs, lb, i, p), lb, labs[lb].entries[i].label, p, D)
         /\ Len(PutLabel(labs, lb, i, p)) = Len(labs)
         /\ DOMAIN PutLabel(labs, lb, i, p)[lb].entries = DOMAIN labs[lb].entries
PROOF
<1>1. PICK es : es = labs[lb].entries
  OBVIOUS
<1>2. es \in Seq(LabelEntry) /\ Distinct(es, D) /\ i \in DOMAIN es
  BY <1>1, EntriesTyped
<1>3. PICK es2 : es2 = PutPtr(es, i, p)
  OBVIOUS
<1>4. /\ es2 \in Seq(LabelEntry) /\ Len(es2) = Len(es) /\ Distinct(es2, D) /\ EntryPtr(es2, es[i].label) = p
      /\ DOMAIN es2 = DOMAIN es
      /\ \A k : k # es[i].label => EntryPtr(es2, k) = EntryPtr(es, k)
  BY <1>2, <1>3, EntryPut
<1>5. PutLabel(labs, lb, i, p) = PutEntries(labs, lb, es2)
  BY <1>1, <1>3 DEF PutPtr, PutEntries, PutLabel
<1>6. PICK l : l = es[i].label
  OBVIOUS
<1>7. PICK labs2 : labs2 = PutEntries(labs, lb, es2)
  OBVIOUS
<1>8. EntryPtr(es2, l) = p /\ (\A k : k # l => EntryPtr(es2, k) = EntryPtr(labs[lb].entries, k))
  BY <1>1, <1>4, <1>6
<1>9. Len(es2) = Len(labs[lb].entries)
  BY <1>1, <1>4
<1>10. EntriesFit(labs[lb].entries, labs[lb].order) => EntriesFit(es2, labs[lb].order)
  BY <1>9 DEF EntriesFit
<1>12. es2 \in Seq(LabelEntry) /\ Distinct(es2, D)
  BY <1>4
<1>11. Points(labs, lb, PutEntries(labs, lb, es2), lb, l, p, D)
  BY <1>8, <1>10, <1>12, LabelEntries
<1>13. Len(PutEntries(labs, lb, es2)) = Len(labs)
  BY DEF PutEntries
<1>14. PutEntries(labs, lb, es2)[lb].entries = es2
  <2>1. labs[lb] \in LabelRec
    OBVIOUS
  <2>2. PICK x : x = [labs[lb] EXCEPT !.entries = es2]
    OBVIOUS
  <2>3. x.entries = es2
    BY <2>1, <2>2 DEF LabelRec
  <2>4. [labs EXCEPT ![lb] = x][lb] = x
    OBVIOUS
  <2> QED BY <2>2, <2>3, <2>4 DEF PutEntries
<1> QED BY <1>1, <1>4, <1>5, <1>6, <1>7, <1>11, <1>13, <1>14

LEMMA LabelAdd ==
  ASSUME NEW labs \in Seq(LabelRec), Older(labs), NEW lb \in DOMAIN labs, NEW D,
         \A q \in DOMAIN labs : Distinct(labs[q].entries, D), NEW l \in AnyLabel, NEW p \in Nat, p \in D,
         \A i \in DOMAIN labs[lb].entries : labs[lb].entries[i].label # l,
         HasLabelSpace(labs[lb].order, Len(labs[lb].entries))
  PROVE  Points(labs, lb, [labs EXCEPT ![lb].entries = Append(@, [label |-> l, ptr |-> p])], lb, l, p, D)
PROOF
<1>1. PICK es : es = labs[lb].entries
  OBVIOUS
<1>2. es \in Seq(LabelEntry) /\ Distinct(es, D)
  BY <1>1, EntriesTyped
<1>3. PICK es2 : es2 = AddPtr(es, l, p)
  OBVIOUS
<1>4. /\ es2 \in Seq(LabelEntry) /\ Len(es2) = Len(es) + 1 /\ Distinct(es2, D) /\ EntryPtr(es2, l) = p
      /\ \A k : k # l => EntryPtr(es2, k) = EntryPtr(es, k)
  BY <1>1, <1>2, <1>3, EntryAdd
<1>5. PICK labs2 : labs2 = PutEntries(labs, lb, es2)
  OBVIOUS
<1>6. [labs EXCEPT ![lb].entries = Append(@, [label |-> l, ptr |-> p])] = labs2
  BY <1>1, <1>3, <1>5 DEF PutEntries, AddPtr
<1>7. (\A k : k # l => EntryPtr(es2, k) = EntryPtr(labs[lb].entries, k))
  BY <1>1, <1>4
<1>8. EntriesFit(es2, labs[lb].order)
  BY <1>1, <1>4 DEF HasLabelSpace, EntriesFit
<1>9. Points(labs, lb, labs2, lb, l, p, D)
  BY <1>4, <1>5, <1>7, <1>8, LabelEntries
<1> QED BY <1>6, <1>9

LEMMA LabelNew ==
  ASSUME NEW labs \in Seq(LabelRec), Older(labs), NEW lb \in 0 .. Len(labs), NEW D,
         \A q \in DOMAIN labs : Distinct(labs[q].entries, D), NEW l \in AnyLabel, NEW p \in Nat, p \in D,
         NEW time \in Int, NEW es \in Seq(LabelEntry), Distinct(es, D),
         OnTop(labs, lb, es),
         \A i \in DOMAIN es : es[i].label # l
  PROVE  Topped(labs, lb, NewTop(labs, lb, l, p, time, es), l, p, time, D)
PROOF
<1>0. DOMAIN labs = 1 .. Len(labs) /\ Len(labs) \in Nat
  BY DEF Older
<1>2. PICK es2 : es2 = AddPtr(es, l, p)
  OBVIOUS
<1>3. /\ es2 \in Seq(LabelEntry) /\ Len(es2) = Len(es) + 1 /\ Distinct(es2, D) /\ EntryPtr(es2, l) = p
      /\ \A k : k # l => EntryPtr(es2, k) = EntryPtr(es, k)
  BY <1>2, EntryAdd
<1>4. PICK n \in Nat : n = Len(es) + 1 /\ Len(es2) = n
  BY <1>3
<1>5. LabelOrder(n) \in Nat /\ 32 + n * 16 <= Bytes[LabelOrder(n)]
  BY LabelOrderFits
<1>6. PICK b : b = [creation |-> time, prev |-> lb, order |-> LabelOrder(n), entries |-> es2]
  OBVIOUS
<1>7. b \in LabelRec /\ b.creation = time /\ b.prev = lb /\ b.order = LabelOrder(n) /\ b.entries = es2
  BY <1>0, <1>3, <1>5, <1>6 DEF LabelRec, LabelEntry
<1>8. PICK labs2 : labs2 = Append(labs, b)
  OBVIOUS
<1>9. PICK m : m = Len(labs) + 1
  OBVIOUS
<1>10. /\ labs2 \in Seq(LabelRec) /\ Len(labs2) = m /\ DOMAIN labs2 = 1 .. m /\ labs2[m] = b
       /\ \A q \in DOMAIN labs : q \in DOMAIN labs2 /\ labs2[q] = labs[q]
  BY <1>7, <1>8, <1>9, SeqAdd
<1>11. m \in Nat /\ m # NULLPOINTER /\ lb \in 0 .. m - 1 /\ DOMAIN labs2 = DOMAIN labs \cup {m} /\ m \in 0 .. Len(labs2)
       /\ Len(labs) <= Len(labs2)
  BY <1>0, <1>9, <1>10
<1>12. Older(labs2)
  BY <1>7, <1>10, <1>11 DEF Older
<1>13. \A q \in DOMAIN labs2 : Distinct(labs2[q].entries, D)
  BY <1>3, <1>7, <1>10, <1>11
<1>14. Heads(labs2, m, l) = p
  BY <1>3, <1>7, <1>10, <1>11 DEF Heads
<1>15. ASSUME NEW k, k # l PROVE Heads(labs2, m, k) = Heads(labs, lb, k)
  <2>1. Heads(labs2, m, k) = EntryPtr(es, k)
    BY <1>3, <1>7, <1>10, <1>11, <1>15 DEF Heads
  <2>2. CASE lb = NULLPOINTER
    <3>1. es = <<>>
      BY <2>2 DEF OnTop
    <3>2. EntryPtr(es, k) = NULLPOINTER
      BY <3>1 DEF EntryPtr
    <3> QED BY <2>1, <2>2, <3>2 DEF Heads
  <2>3. CASE lb # NULLPOINTER
    BY <2>1, <2>3 DEF Heads, OnTop
  <2> QED BY <2>2, <2>3
<1>16. LabelsFit(labs) => LabelsFit(labs2)
  <2> SUFFICES ASSUME LabelsFit(labs), NEW q \in DOMAIN labs2
      PROVE EntriesFit(labs2[q].entries, labs2[q].order)
    BY DEF LabelsFit
  <2>1. CASE q = m
    BY <1>4, <1>5, <1>7, <1>10, <2>1 DEF EntriesFit
  <2>2. CASE q \in DOMAIN labs
    BY <1>10, <2>2 DEF LabelsFit
  <2> QED BY <1>11, <2>1, <2>2
<1>17. Points(labs, lb, labs2, m, l, p, D)
  BY <1>10, <1>11, <1>12, <1>13, <1>14, <1>15, <1>16 DEF Points
<1>18. PICK x : x = [label |-> l, ptr |-> p]
  OBVIOUS
<1>19. NewTop(labs, lb, l, p, time, es) = labs2
  BY <1>2, <1>4, <1>6, <1>8, <1>18 DEF AddPtr, NewTop, Topped
<1>20. labs2[m].creation = time
  BY <1>7, <1>10
<1>21. Topped(labs, lb, labs2, l, p, time, D)
  BY <1>9, <1>10, <1>17, <1>20 DEF Topped
<1> QED BY <1>19, <1>21

-----------------------------------------------------------------------------
(* Installing a label *)

\* The word to be stamped in a new label block.
NewLabel(t) == [t EXCEPT !.stamps = Append(@, Word("label", Len(labels) + 1, 0))]

LEMMA UpdateDoes ==
  ASSUME Types, OlderInv, LabelsInv, NEW c \in Client, NEW t, t.id \in Nat, NEW l \in Label, NEW p \in DOMAIN blocks,
         UpdateLabel(c, t, l, p)
  PROVE  /\ Points(labels, edge_label_ptr, labels', edge_label_ptr', l, p, DOMAIN blocks)
         /\ \A q \in DOMAIN labels' : q \in DOMAIN labels \/ labels'[q].creation = -t.id
         /\ SetTxn(c, t) \/ (SetTxn(c, NewLabel(t)) /\ Len(labels) + 1 \in DOMAIN labels')
PROOF
<1>1. PICK lb \in 0 .. Len(labels) : lb = edge_label_ptr
  BY DEF Types
<1>2. /\ labels \in Seq(LabelRec) /\ Older(labels) /\ DOMAIN labels = 1 .. Len(labels) /\ Len(labels) \in Nat
      /\ \A q \in DOMAIN labels : Distinct(labels[q].entries, DOMAIN blocks)
      /\ p \in Nat /\ l \in AnyLabel
  BY HeadsAre, BlockFields DEF Types, OlderInv, Older, AnyLabel
<1>3. PICK D : D = DOMAIN blocks
  OBVIOUS
<1>4. p \in D /\ \A q \in DOMAIN labels : Distinct(labels[q].entries, D)
  BY <1>2, <1>3
<1>5. CASE LabelAt(lb, l) # {}
  <2>1. PICK i : i = CHOOSE j \in LabelAt(lb, l) : TRUE
    OBVIOUS
  <2>2. lb # NULLPOINTER /\ i \in LabelAt(lb, l)
    BY <1>5, <2>1 DEF LabelAt
  <2>3. lb \in DOMAIN labels /\ i \in DOMAIN labels[lb].entries /\ labels[lb].entries[i].label = l
    BY <1>2, <2>2 DEF LabelAt
  <2>4. labels' = [labels EXCEPT ![lb].entries[i].ptr = p] /\ SetTxn(c, t) /\ edge_label_ptr' = lb
    BY <1>1, <1>5, <2>1 DEF UpdateLabel
  <2>5. PICK labs : labs = PutLabel(labels, lb, i, p)
    OBVIOUS
  <2>9. Points(labels, lb, labs, lb, labels[lb].entries[i].label, p, D) /\ Len(labs) = Len(labels)
    BY <1>2, <1>4, <2>3, <2>5, LabelPut
  <2>6. Points(labels, lb, labs, lb, l, p, D) /\ Len(labs) = Len(labels)
    BY <2>3, <2>9
  <2>7. DOMAIN labs = 1 .. Len(labs)
    BY <2>6 DEF Points
  <2>8. labels' = labs
    BY <2>4, <2>5 DEF PutLabel
  <2> QED BY <1>1, <1>2, <1>3, <2>4, <2>6, <2>7, <2>8
<1>6. CASE LabelAt(lb, l) = {} /\ lb # NULLPOINTER /\ HasLabelSpace(labels[lb].order, Len(labels[lb].entries))
  <2>1. lb \in DOMAIN labels /\ \A i \in DOMAIN labels[lb].entries : labels[lb].entries[i].label # l
    BY <1>2, <1>6 DEF LabelAt
  <2>2. labels' = [labels EXCEPT ![lb].entries = Append(@, [label |-> l, ptr |-> p])] /\ SetTxn(c, t) /\ edge_label_ptr' = lb
    BY <1>1, <1>6 DEF UpdateLabel
  <2>3. PICK labs : labs = [labels EXCEPT ![lb].entries = Append(@, [label |-> l, ptr |-> p])]
    OBVIOUS
  <2>4. Points(labels, lb, labs, lb, l, p, D)
    BY <1>2, <1>4, <1>6, <2>1, <2>3, LabelAdd
  <2>5. Len(labs) = Len(labels) /\ DOMAIN labs = DOMAIN labels
    BY <1>2, <2>3
  <2>6. labels' = labs
    BY <2>2, <2>3
  <2> QED BY <1>1, <1>3, <2>2, <2>4, <2>5, <2>6
<1>7. CASE LabelAt(lb, l) = {} /\ (lb = NULLPOINTER \/ ~HasLabelSpace(labels[lb].order, Len(labels[lb].entries)))
  <2>1. PICK es : es = IF lb = NULLPOINTER THEN <<>> ELSE labels[lb].entries
    OBVIOUS
  <2>2. (lb = NULLPOINTER => es = <<>>) /\ (lb # NULLPOINTER => es = labels[lb].entries)
    BY <2>1
  <2>3. es \in Seq(LabelEntry) /\ Distinct(es, D) /\ \A i \in DOMAIN es : es[i].label # l
    <3>1. CASE lb = NULLPOINTER
      <4>1. <<>> \in Seq(LabelEntry) /\ DOMAIN <<>> = {}
        OBVIOUS
      <4>2. es \in Seq(LabelEntry) /\ DOMAIN es = {}
        BY <2>2, <3>1, <4>1
      <4> QED BY <4>2 DEF Distinct
    <3>2. CASE lb # NULLPOINTER
      <4>1. lb \in DOMAIN labels /\ es = labels[lb].entries
        BY <1>2, <2>2, <3>2
      <4>2. es \in Seq(LabelEntry)
        BY <1>2, <4>1, EntriesTyped
      <4>3. \A i \in DOMAIN es : es[i].label # l
        BY <1>7, <3>2, <4>1 DEF LabelAt
      <4> QED BY <1>4, <4>1, <4>2, <4>3
    <3> QED BY <3>1, <3>2
  <2>4. PICK k \in Int : k = -t.id
    OBVIOUS
  <2>5. Len(es) = IF lb = NULLPOINTER THEN 0 ELSE Len(labels[lb].entries)
    <3>1. Len(<<>>) = 0
      OBVIOUS
    <3> QED BY <2>2, <3>1
  <2>6. PICK labs : labs = NewTop(labels, lb, l, p, k, es)
    OBVIOUS
  <2>7. labels' = labs /\ edge_label_ptr' = Len(labels) + 1 /\ SetTxn(c, NewLabel(t))
    <3>1. PICK n : n = IF lb = NULLPOINTER THEN 0 ELSE Len(labels[lb].entries)
      OBVIOUS
    <3>2. ~(IF lb = NULLPOINTER THEN FALSE ELSE HasLabelSpace(labels[lb].order, n))
      BY <1>7, <3>1
    <3>3. /\ labels' = Append(labels, [creation |-> -t.id, prev |-> lb, order |-> LabelOrder(n + 1),
                 entries |-> Append(es, [label |-> l, ptr |-> p])])
          /\ edge_label_ptr' = Len(labels) + 1
          /\ SetTxn(c, [t EXCEPT !.stamps = Append(@, Word("label", Len(labels) + 1, 0))])
      BY <1>1, <1>7, <2>1, <3>1, <3>2 DEF UpdateLabel
    <3>4. Len(es) = n
      BY <2>5, <3>1
    <3> QED BY <2>4, <2>6, <3>3, <3>4 DEF NewLabel, NewTop
  <2>12. Topped(labels, lb, NewTop(labels, lb, l, p, k, es), l, p, k, D)
    <3>1. /\ labels \in Seq(LabelRec) /\ Older(labels) /\ p \in Nat /\ p \in D /\ l \in AnyLabel
          /\ \A q \in DOMAIN labels : Distinct(labels[q].entries, D)
      BY <1>2, <1>4
    <3>2. OnTop(labels, lb, es)
      BY <2>1 DEF OnTop
    <3> QED BY <2>3, <3>1, <3>2, LabelNew
  <2>8. Points(labels, lb, labs, Len(labels) + 1, l, p, D) /\ Len(labs) = Len(labels) + 1
        /\ labs[Len(labels) + 1].creation = k
    BY <2>6, <2>12 DEF Topped
  <2>9. DOMAIN labs = 1 .. Len(labs)
    BY <2>8 DEF Points
  <2>10. DOMAIN labs = DOMAIN labels \cup {Len(labels) + 1}
    BY <1>2, <2>8, <2>9
  <2>11. \A q \in DOMAIN labs : q \in DOMAIN labels \/ labs[q].creation = -t.id
    BY <2>4, <2>8, <2>10
  <2> QED BY <1>1, <1>3, <2>7, <2>8, <2>10, <2>11
<1> QED BY <1>5, <1>6, <1>7

LEMMA InstallLabelDoes ==
  ASSUME Basic, CommitsInv, NEW c \in Client, NEW l \in Label, InstallLabel(c, l)
  PROVE  /\ Installing(c) /\ Installs(c) /\ blocks' = blocks /\ Tails(txn[c]) = {}
         /\ \A k : HeadOf(k)' = IF k = l THEN TopOf(c, l) ELSE HeadOf(k)
         /\ txn[c].ptrs[l] # NoCache
         /\ labels' \in Seq(LabelRec) /\ Len(labels) <= Len(labels') /\ edge_label_ptr' \in 0 .. Len(labels')
         /\ OlderInv' /\ LabelsInv'
         /\ txn'[c].tails = txn[c].tails /\ txn'[c].ptrs = [txn[c].ptrs EXCEPT ![l] = NoCache]
         /\ Members(txn[c].stamps) \subseteq Members(txn'[c].stamps)
         /\ \A w \in Members(txn'[c].stamps) : w \in Members(txn[c].stamps) \/ (w.field = "label" /\ w.p \in DOMAIN labels')
         /\ LabelsFit(labels) => LabelsFit(labels')
         /\ \A q \in DOMAIN labels : q \in DOMAIN labels' /\ labels'[q].prev = labels[q].prev /\ labels'[q].creation = labels[q].creation
         /\ \A q \in DOMAIN labels' : q \in DOMAIN labels \/ labels'[q].creation = -txn[c].id
PROOF
<1>0. Types /\ OlderInv /\ LabelsInv
  BY DEF Basic
<1>1. PICK t : t = [txn[c] EXCEPT !.ptrs[l] = NoCache]
  OBVIOUS
<1>2. /\ Committing(c) /\ Tails(txn[c]) = {} /\ l \in Pending(txn[c])
      /\ IF txn[c].ptrs[l] # Locate(l, txn[c])
         THEN UpdateLabel(c, t, l, txn[c].ptrs[l])
         ELSE SetTxn(c, t) /\ UNCHANGED <<labels, edge_label_ptr>>
      /\ pc' = pc /\ blocks' = blocks
  BY <1>1 DEF InstallLabel
<1>3. /\ pc[c] = "install"
      /\ UNCHANGED <<visible, sealed, stage, transaction_id, vertex_futex, freed, freedLabels, scan, compaction, committed>>
  BY <1>2, CommittingFacts
<1>4. txn[c].ptrs[l] # NoCache
  BY <1>2 DEF Pending
<1>5. Installing(c)
  <2>1. ~Bare(txn[c])
    BY <1>4 DEF Bare
  <2> QED BY <1>3, <2>1, InstallerHolds
<1>6. /\ txn[c] \in TxnRec /\ txn[c].id \in Nat /\ txn[c].ptrs \in [Label -> Nat \cup {NoCache}]
      /\ txn[c].stamps \in Seq(WordRec) /\ txn \in [Client -> TxnRec]
  BY <1>0, TxnFields DEF Types
<1>7. PICK f : f = [txn[c].ptrs EXCEPT ![l] = NoCache]
  OBVIOUS
<1>8. f \in [Label -> Nat \cup {NoCache}]
  BY <1>6, <1>7
<1>9. t = [txn[c] EXCEPT !.ptrs = f]
  BY <1>1, <1>7
<1>10. /\ t \in TxnRec /\ t.ptrs = f /\ t.id = txn[c].id /\ t.read = txn[c].read
       /\ t.locked = txn[c].locked /\ t.tails = txn[c].tails /\ t.stamps = txn[c].stamps /\ t.own = txn[c].own
       /\ t.epoch = txn[c].epoch /\ t.mine = txn[c].mine
  BY <1>6, <1>8, <1>9, TxnPut_ptrs
<1>11. PICK p \in 0 .. Len(blocks) : p = txn[c].ptrs[l] /\ p = TopOf(c, l) /\ HeadOf(l) <= p
  <2>1. TopOf(c, l) = txn[c].ptrs[l]
    BY <1>4 DEF TopOf
  <2> QED BY <1>3, <2>1, TopFacts
<1>12. /\ Locate(l, txn[c]) \in 0 .. HeadOf(l) /\ HeadOf(l) \in 0 .. Len(blocks) /\ DOMAIN blocks = 1 .. Len(blocks)
       /\ Len(blocks) \in Nat
  BY <1>0, LocateFacts DEF Types
<1>13. ASSUME SetTxn(c, t) \/ (SetTxn(c, NewLabel(t)) /\ Len(labels) + 1 \in DOMAIN labels')
       PROVE  /\ Installs(c)
              /\ txn'[c].tails = txn[c].tails /\ txn'[c].ptrs = f
              /\ Members(txn[c].stamps) \subseteq Members(txn'[c].stamps)
              /\ \A w \in Members(txn'[c].stamps) : w \in Members(txn[c].stamps) \/ (w.field = "label" /\ w.p \in DOMAIN labels')
  <2>1. CASE SetTxn(c, t)
    <3>1. txn' = [txn EXCEPT ![c] = t]
      BY <2>1 DEF SetTxn
    <3>2. txn' \in [Client -> TxnRec] /\ txn'[c] = t /\ \A d \in Client \ {c} : txn'[d] = txn[d]
      BY <1>6, <1>10, <3>1
    <3>3. Installs(c)
      BY <1>2, <1>3, <1>10, <3>2 DEF Installs
    <3> QED BY <1>10, <3>2, <3>3
  <2>2. CASE SetTxn(c, NewLabel(t)) /\ Len(labels) + 1 \in DOMAIN labels'
    <3>1. PICK w : w = Word("label", Len(labels) + 1, 0)
      OBVIOUS
    <3>2. w \in WordRec /\ w.field = "label" /\ w.p \in DOMAIN labels'
      <4>1. Len(labels) \in Nat
        BY <1>0 DEF Types
      <4> QED BY <2>2, <3>1, <4>1 DEF Word, WordRec
    <3>3. PICK s : s = Append(t.stamps, w)
      OBVIOUS
    <3>4. s \in Seq(WordRec)
      BY <1>6, <1>10, <3>2, <3>3
    <3>5. Members(s) = Members(txn[c].stamps) \cup {w}
      BY <1>6, <1>10, <3>2, <3>3, MembersAdd
    <3>6. PICK u : u = [t EXCEPT !.stamps = s]
      OBVIOUS
    <3>7. /\ u \in TxnRec /\ u.stamps = s /\ u.id = t.id /\ u.read = t.read
          /\ u.locked = t.locked /\ u.ptrs = t.ptrs /\ u.tails = t.tails /\ u.own = t.own
          /\ u.epoch = t.epoch /\ u.mine = t.mine
      BY <1>10, <3>4, <3>6, TxnPut_stamps
    <3>8. txn' = [txn EXCEPT ![c] = u]
      BY <2>2, <3>1, <3>3, <3>6 DEF SetTxn, NewLabel
    <3>9. txn' \in [Client -> TxnRec] /\ txn'[c] = u /\ \A d \in Client \ {c} : txn'[d] = txn[d]
      BY <1>6, <3>7, <3>8
    <3>10. Installs(c)
      BY <1>2, <1>3, <1>10, <3>7, <3>9 DEF Installs
    <3> QED BY <1>10, <3>2, <3>5, <3>7, <3>9, <3>10
  <2> QED BY <1>13, <2>1, <2>2
<1>14. CASE p = Locate(l, txn[c])
  <2>1. SetTxn(c, t) /\ labels' = labels /\ edge_label_ptr' = edge_label_ptr
    BY <1>2, <1>11, <1>14
  <2>2. p = HeadOf(l)
    BY <1>11, <1>12, <1>14
  <2>3. \A k : HeadOf(k)' = HeadOf(k)
    BY <2>1 DEF HeadOf, Pointed
  <2>4. /\ labels' \in Seq(LabelRec) /\ Len(labels) <= Len(labels') /\ edge_label_ptr' \in 0 .. Len(labels')
    BY <1>0, <2>1 DEF Types
  <2>5. OlderInv' /\ LabelsInv'
    BY <1>0, <1>2, <2>1 DEF OlderInv, Older, LabelsInv
  <2>6. \A k : HeadOf(k)' = IF k = l THEN TopOf(c, l) ELSE HeadOf(k)
    BY <1>11, <2>2, <2>3
  <2> QED BY <1>2, <1>4, <1>5, <1>7, <1>13, <2>1, <2>4, <2>5, <2>6
<1>15. CASE p # Locate(l, txn[c])
  <2>1. p \in DOMAIN blocks
    BY <1>11, <1>12, <1>15
  <2>2. UpdateLabel(c, t, l, p)
    BY <1>2, <1>11, <1>15
  <2>3. t.id \in Nat
    BY <1>6, <1>10
  <2>4. /\ Points(labels, edge_label_ptr, labels', edge_label_ptr', l, p, DOMAIN blocks)
        /\ \A q \in DOMAIN labels' : q \in DOMAIN labels \/ labels'[q].creation = -t.id
        /\ SetTxn(c, t) \/ (SetTxn(c, NewLabel(t)) /\ Len(labels) + 1 \in DOMAIN labels')
    BY <1>0, <2>1, <2>2, <2>3, UpdateDoes
  <2>5. /\ labels' \in Seq(LabelRec) /\ Len(labels) <= Len(labels') /\ edge_label_ptr' \in 0 .. Len(labels') /\ Older(labels')
        /\ \A q \in DOMAIN labels : q \in DOMAIN labels' /\ labels'[q].prev = labels[q].prev /\ labels'[q].creation = labels[q].creation
        /\ \A q \in DOMAIN labels' : Distinct(labels'[q].entries, DOMAIN blocks)
        /\ Heads(labels', edge_label_ptr', l) = p
        /\ \A k : k # l => Heads(labels', edge_label_ptr', k) = Heads(labels, edge_label_ptr, k)
        /\ LabelsFit(labels) => LabelsFit(labels')
    BY <2>4 DEF Points
  <2>6. OlderInv' /\ LabelsInv'
    <3>1. Older(blocks)'
      BY <1>0, <1>2 DEF OlderInv, Older
    <3>2. Older(labels)'
      BY <2>5 DEF Older
    <3>3. LabelsInv'
      BY <1>2, <2>5, HeadsAre
    <3> QED BY <3>1, <3>2, <3>3 DEF OlderInv
  <2>7. \A k : HeadOf(k)' = IF k = l THEN TopOf(c, l) ELSE HeadOf(k)
    BY <1>11, <2>5, HeadsAre
  <2>8. \A q \in DOMAIN labels' : q \in DOMAIN labels \/ labels'[q].creation = -txn[c].id
    BY <1>10, <2>4
  <2> QED BY <1>2, <1>4, <1>5, <1>7, <1>13, <2>4, <2>5, <2>6, <2>7, <2>8
<1> QED BY <1>14, <1>15

LEMMA InstallLabelKeeps ==
  ASSUME Basic, CommitsInv, NEW c \in Client, NEW l \in Label, InstallLabel(c, l)
  PROVE  Basic' /\ CommitsInv' /\ committed' = committed
PROOF
<1>0. /\ Types /\ OlderInv /\ LabelsInv /\ TailInv /\ RefsOf(c) /\ TopsOf(c) /\ InstallOf(c) /\ CommitInv /\ CommittedInv
  BY DEF Basic, RefsInv, CommitsInv, TopsInv, InstallInv
<1>1. /\ Installing(c) /\ Installs(c) /\ blocks' = blocks /\ Tails(txn[c]) = {}
      /\ \A k : HeadOf(k)' = IF k = l THEN TopOf(c, l) ELSE HeadOf(k)
      /\ labels' \in Seq(LabelRec) /\ Len(labels) <= Len(labels') /\ edge_label_ptr' \in 0 .. Len(labels')
      /\ OlderInv' /\ LabelsInv'
      /\ txn'[c].tails = txn[c].tails /\ txn'[c].ptrs = [txn[c].ptrs EXCEPT ![l] = NoCache]
      /\ Members(txn[c].stamps) \subseteq Members(txn'[c].stamps)
      /\ \A w \in Members(txn'[c].stamps) : w \in Members(txn[c].stamps) \/ (w.field = "label" /\ w.p \in DOMAIN labels')
  BY InstallLabelDoes
<1>2. /\ UNCHANGED <<visible, sealed, stage, transaction_id, vertex_futex, scan, pc, compaction, committed>>
      /\ txn'[c].read = txn[c].read /\ txn'[c].epoch = txn[c].epoch /\ txn'[c].own = txn[c].own
      /\ \A d \in Client \ {c} : txn'[d] = txn[d]
  BY <1>1 DEF Installs
<1>3. pc[c] = "install" /\ txn[c].locked /\ Writer(c) /\ ~Open(c)' /\ Writer(c)' /\ pc'[c] = "install"
  BY <1>1, <1>2 DEF Installing, Writer, Open, InScan
<1>4. /\ txn[c].ptrs \in [Label -> Nat \cup {NoCache}]
      /\ txn'[c].ptrs[l] = NoCache /\ \A k \in Label \ {l} : txn'[c].ptrs[k] = txn[c].ptrs[k]
  <2>1. txn[c].ptrs \in [Label -> Nat \cup {NoCache}]
    BY <1>0, TxnFields
  <2> QED BY <1>1, <2>1
<1>5. \A k : TopOf(c, k)' = TopOf(c, k)
  <2> SUFFICES ASSUME NEW k PROVE TopOf(c, k)' = TopOf(c, k)
    OBVIOUS
  <2>1. CASE k = l
    BY <1>1, <1>4, <2>1 DEF TopOf
  <2>2. CASE k # l
    BY <1>1, <1>4, <2>2 DEF TopOf
  <2> QED BY <2>1, <2>2
<1>6. \A k : /\ TopOf(c, k) \in 0 .. Len(blocks) /\ HeadOf(k) \in 0 .. Len(blocks) /\ HeadOf(k) <= TopOf(c, k)
             /\ \A q \in 0 .. Len(blocks) : q # NULLPOINTER => q \in DOMAIN blocks
  BY <1>3, TopFacts
<1>7. TailInv' /\ CommittedInv' /\ blocks' \in Seq(BlockRec) /\ Len(blocks') = Len(blocks)
  BY <1>0, <1>1, <1>2 DEF TailInv, CommittedInv, Types
<1>8. RefsOf(c)'
  <2>1. (\A k \in Label : txn[c].ptrs[k] <= Len(blocks))'
    <3>1. Len(blocks) \in Nat
      BY <1>0 DEF Types
    <3>2. \A k \in Label : txn[c].ptrs[k] <= Len(blocks)
      BY <1>0, <1>3 DEF RefsOf
    <3> QED BY <1>1, <1>4, <3>1, <3>2
  <2>2. (\A o \in Pointer : txn[c].tails[o] # NoTail => o \in DOMAIN blocks /\ txn[c].tails[o] <= Len(blocks[o].entries))'
    BY <1>0, <1>1, <1>3 DEF RefsOf
  <2>3. (txn[c].own \subseteq DOMAIN blocks)'
    BY <1>0, <1>1, <1>2, <1>3 DEF RefsOf
  <2>4. (\A v \in Members(txn[c].stamps) :
            /\ v.field = "label" => v.p \in DOMAIN labels
            /\ v.field # "label" => v.p \in DOMAIN blocks
            /\ v.field \in {"creation", "deletion"} => v.i \in DOMAIN blocks[v.p].entries
            /\ v.field = "block" => v.p \in txn[c].own
            /\ v.field = "committed" => pc[c] = "install")'
    <3> SUFFICES ASSUME NEW v \in Members(txn'[c].stamps)
        PROVE (/\ v.field = "label" => v.p \in DOMAIN labels
               /\ v.field # "label" => v.p \in DOMAIN blocks
               /\ v.field \in {"creation", "deletion"} => v.i \in DOMAIN blocks[v.p].entries
               /\ v.field = "block" => v.p \in txn[c].own
               /\ v.field = "committed" => pc[c] = "install")'
      OBVIOUS
    <3>1. CASE v \in Members(txn[c].stamps)
      <4>1. DOMAIN labels \subseteq DOMAIN labels'
        BY <1>0, <1>1 DEF Types
      <4>2. /\ v.field = "label" => v.p \in DOMAIN labels
            /\ v.field # "label" => v.p \in DOMAIN blocks
            /\ v.field \in {"creation", "deletion"} => v.i \in DOMAIN blocks[v.p].entries
            /\ v.field = "block" => v.p \in txn[c].own
        BY <1>0, <1>3, <3>1 DEF RefsOf
      <4> QED BY <1>1, <1>2, <1>3, <4>1, <4>2
    <3>2. CASE v.field = "label" /\ v.p \in DOMAIN labels'
      BY <3>2
    <3> QED BY <1>1, <3>1, <3>2
  <2>5. (scan[c].ptr <= Len(blocks))' /\ (scan[c].lb <= Len(labels))'
    <3>1. Len(labels) \in Nat /\ Len(labels') \in Nat /\ scan[c].lb \in Nat
      BY <1>0, <1>1 DEF Types, IsScan
    <3>2. scan[c].ptr <= Len(blocks) /\ scan[c].lb <= Len(labels)
      BY <1>0 DEF RefsOf
    <3> QED BY <1>1, <1>2, <3>1, <3>2
  <2> QED BY <1>3, <2>1, <2>2, <2>3, <2>4, <2>5 DEF RefsOf
<1>9. TopsOf(c)'
  <2> SUFFICES ASSUME NEW k \in Label, txn'[c].ptrs[k] # NoCache PROVE HeadOf(k)' <= txn'[c].ptrs[k]
    BY <1>3 DEF TopsOf
  <2>1. k # l /\ txn'[c].ptrs[k] = txn[c].ptrs[k]
    BY <1>4
  <2>2. HeadOf(k) <= txn[c].ptrs[k]
    BY <1>0, <1>3, <2>1 DEF TopsOf
  <2> QED BY <1>1, <2>1, <2>2
<1>10. ASSUME NEW q, Timed(c, q) PROVE Timed(c, q)'
  <2>1. q \notin Tails(txn[c])
    BY <1>1
  <2> QED BY <1>1, <1>2, <1>10, <2>1 DEF Timed
<1>11. InstallOf(c)'
  <2> SUFFICES ASSUME NEW k \in AnyLabel, TopOf(c, k)' # NULLPOINTER
      PROVE  (LET p == TopOf(c, k) IN
                /\ Word("block", p, 0) \in Members(txn[c].stamps) \/ blocks[p].creation \in 0 .. txn[c].epoch
                /\ Timed(c, p) \/ (Steady(p) /\ p = HeadOf(k) /\ p \notin txn[c].own))'
    BY DEF InstallOf
  <2>1. PICK q : q = TopOf(c, k)
    OBVIOUS
  <2>2. TopOf(c, k)' = q /\ q # NULLPOINTER
    BY <1>5, <2>1
  <2>3. /\ Word("block", q, 0) \in Members(txn[c].stamps) \/ blocks[q].creation \in 0 .. txn[c].epoch
        /\ Timed(c, q) \/ (Steady(q) /\ q = HeadOf(k) /\ q \notin txn[c].own)
    BY <1>0, <1>1, <2>1, <2>2 DEF InstallOf
  <2>4. Word("block", q, 0) \in Members(txn'[c].stamps) \/ blocks'[q].creation \in 0 .. txn'[c].epoch
    BY <1>1, <1>2, <2>3
  <2>5. Timed(c, q)' => Timed(c, TopOf(c, k))'
    BY <2>2 DEF Timed
  <2>6. Steady(q)' => Steady(TopOf(c, k))'
    BY <2>2 DEF Steady
  <2>7. CASE Timed(c, q)
    BY <1>10, <2>2, <2>4, <2>5, <2>7 DEF Word
  <2>8. CASE Steady(q) /\ q = HeadOf(k) /\ q \notin txn[c].own
    <3>1. HeadOf(k)' = q
      BY <1>1, <2>1, <2>8
    <3>2. \A d \in Client : txn'[d].read = txn[d].read
      BY <1>2
    <3>3. Steady(q)'
      BY <1>1, <1>2, <2>8, <3>2 DEF Steady, Old, Active
    <3> QED BY <1>2, <2>2, <2>4, <2>6, <2>8, <3>1, <3>3 DEF Word
  <2> QED BY <2>3, <2>7, <2>8
<1>12. ASSUME NEW x \in committed
       PROVE  \/ HeadOf(x.label)' # NULLPOINTER /\ x.epoch <= blocks'[HeadOf(x.label)'].committed
              \/ TopOf(c, x.label)' # NULLPOINTER /\ Timed(c, TopOf(c, x.label))'
  <2>1. PICK q, h : q = TopOf(c, x.label) /\ h = HeadOf(x.label)
    OBVIOUS
  <2>2. TopOf(c, x.label)' = q
    BY <1>5, <2>1
  <2>3. Timed(c, q)' => Timed(c, TopOf(c, x.label))'
    BY <2>2 DEF Timed
  <2>4. CommitOf(x) /\ x.epoch <= sealed /\ x.epoch <= txn[c].epoch
    BY <1>0, <1>1 DEF CommitInv, CommitOf
  <2>5. \A d \in Client : Installing(d) => d = c
    <3>1. Holds(c)
      BY <1>3 DEF Holds
    <3> QED BY <3>1, OthersBare
  <2>6. CASE q # NULLPOINTER /\ Timed(c, q)
    BY <1>10, <2>2, <2>3, <2>6
  <2>7. CASE h # NULLPOINTER /\ x.epoch <= blocks[h].committed
    <3>1. CASE x.label # l
      <4>1. HeadOf(x.label)' = h
        BY <1>1, <2>1, <3>1
      <4> QED BY <1>1, <2>7, <4>1
    <3>2. CASE x.label = l
      <4>1. HeadOf(x.label)' = q
        BY <1>1, <2>1, <3>2
      <4>2. q \in DOMAIN blocks /\ q # NULLPOINTER
        BY <1>6, <2>1, <2>7
      <4>3. l \in AnyLabel
        BY DEF AnyLabel
      <4>4. Timed(c, q) \/ q = h
        BY <1>0, <1>1, <2>1, <3>2, <4>2, <4>3 DEF InstallOf
      <4>5. q = h => x.epoch <= blocks'[HeadOf(x.label)'].committed
        BY <1>1, <2>7, <4>1
      <4> QED BY <2>6, <4>1, <4>2, <4>4, <4>5
    <3> QED BY <3>1, <3>2
  <2>8. \/ h # NULLPOINTER /\ x.epoch <= blocks[h].committed
        \/ q # NULLPOINTER /\ Timed(c, q)
    <3>1. CASE HeadOf(x.label) # NULLPOINTER /\ x.epoch <= blocks[HeadOf(x.label)].committed
      BY <2>1, <3>1
    <3>2. ASSUME NEW d \in Client, Installing(d), TopOf(d, x.label) # NULLPOINTER, Timed(d, TopOf(d, x.label))
          PROVE  q # NULLPOINTER /\ Timed(c, q)
      <4>1. d = c
        BY <2>5, <3>2
      <4> QED BY <2>1, <3>2, <4>1
    <3> QED BY <2>4, <3>1, <3>2 DEF CommitOf
  <2> QED BY <2>6, <2>7, <2>8
<1> QED BY <1>1, <1>2, <1>7, <1>8, <1>9, <1>11, <1>12, InstallsKeep

=============================================================================
