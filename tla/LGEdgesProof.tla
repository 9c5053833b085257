----------------------------- MODULE LGEdgesProof -----------------------------
(***************************************************************************)
(* The edges of LGEdges, continued: the steps that end a commit, abort and *)
(* compact, and the theorems.  The invariant is about who has the vertex's *)
(* lock and what transactions refer to (Basic), and about which block is a *)
(* label's newest and what its times say of the commits under the label    *)
(* (CommitsInv); what the blocks hold (StoreInv) is invariant with it, and *)
(* so is that every scan is above what its snapshot needs, or a copy has   *)
(* overtaken it (KeepInv).                                                 *)
(***************************************************************************)
EXTENDS LGEdgesLemmas

USE DEF NULLPOINTER, NoTail, NoCache, ROLLBACK_TOMBSTONE

-----------------------------------------------------------------------------
(* The end of a commit *)

LEMMA CleanInstalled ==
  ASSUME Basic, CommitsInv, NEW c \in Client, Clean(c), Installing(c)
  PROVE  Basic' /\ CommitsInv' /\ committed' = committed
PROOF
<1>0. /\ Types /\ OlderInv /\ LabelsInv /\ TailInv /\ RefsOf(c) /\ InstallOf(c) /\ CommitInv /\ CommittedInv /\ PlaceOf(c)
  BY DEF Basic, RefsInv, PlaceInv, CommitsInv, InstallInv
<1>1. /\ pc[c] = "install" /\ txn[c].locked
      /\ Tails(txn[c]) = {} /\ Pending(txn[c]) = {} /\ txn[c].stamps = <<>>
      /\ vertex_futex' = 0 /\ Goto(c, "leave")
      /\ UNCHANGED <<epochsVars, transaction_id, store, compact_table, txn, scan, compaction, bounds, committed>>
  BY DEF Clean, Installing
<1>2. /\ UNCHANGED <<visible, sealed, stage, transaction_id, txn, scan, compaction, committed>>
      /\ UNCHANGED <<edge_label_ptr, labels, blocks>>
  BY <1>1 DEF epochsVars, store
<1>3. /\ pc' = [pc EXCEPT ![c] = "leave"] /\ pc \in [Client -> Place]
  BY <1>0, <1>1 DEF Goto, Types
<1>4. /\ pc'[c] = "leave" /\ pc' \in [Client -> Place] /\ \A d \in Client \ {c} : pc'[d] = pc[d]
  BY <1>3 DEF Place
<1>5. Holds(c) /\ ~Holds(c)' /\ ~Open(c)' /\ ~Writer(c)' /\ ~Installing(c)'
  BY <1>1, <1>4 DEF Holds, Writer, Open, InScan, Installing
<1>6. Alone(c)
  BY <1>2, <1>4 DEF Alone, Same
<1>7. LockInv'
  BY <1>1, <1>5, <1>6, LockFreed
<1>8. Types' /\ OlderInv' /\ LabelsInv' /\ TailInv'
  BY <1>0, <1>2, <1>4 DEF Types, EpochInv, OlderInv, Older, LabelsInv, TailInv
<1>9. PlaceOf(c)'
  BY <1>0, <1>1, <1>2, <1>4, <1>5 DEF PlaceOf
<1>10. RefsOf(c)'
  BY <1>0, <1>2, <1>4, <1>5 DEF RefsOf
<1>11. Len(blocks) <= Len(blocks') /\ Len(labels) <= Len(labels')
  BY <1>0, <1>2 DEF Types
<1>12. visible' = visible /\ sealed' = sealed /\ transaction_id' = transaction_id /\ txn'[c].read = txn[c].read
  BY <1>2
<1>13. Basic'
  BY <1>5, <1>6, <1>7, <1>8, <1>9, <1>10, <1>11, <1>12, HolderBasic
<1>14. TopsOf(c)' /\ PendOf(c)' /\ TailsOf(c)' /\ InstallOf(c)' /\ BoundOf(c)'
  BY <1>4, <1>5 DEF TopsOf, PendOf, TailsOf, InstallOf, BoundOf
<1>15. CommittedInv'
  BY <1>0, <1>2 DEF CommittedInv
<1>16. \A d \in Client : ~Installing(d)'
  BY <1>5, <1>6, <1>12, OthersCommit
<1>17. Members(txn[c].stamps) = {}
  BY <1>1, MembersFew
<1>18. \A l : TopOf(c, l) = HeadOf(l) /\ HeadOf(l)' = HeadOf(l)
  BY <1>1, <1>2 DEF TopOf, Pending, HeadOf, Pointed
<1>19. \A q : Timed(c, q) => blocks[q].committed = txn[c].epoch
  BY <1>1, <1>17 DEF Timed
<1>20. SettledInv'
  <2> SUFFICES ASSUME NEW l \in AnyLabel, HeadOf(l)' # NULLPOINTER PROVE Steady(HeadOf(l))'
    BY DEF SettledInv
  <2>1. PICK q : q = HeadOf(l) /\ q # NULLPOINTER /\ TopOf(c, l) = q /\ HeadOf(l)' = q
    BY <1>18
  <2>2. blocks[q].creation \in 0 .. txn[c].epoch /\ (Timed(c, q) \/ Steady(q))
    <3>1. /\ Word("block", q, 0) \in Members(txn[c].stamps) \/ blocks[q].creation \in 0 .. txn[c].epoch
          /\ Timed(c, q) \/ (Steady(q) /\ q = HeadOf(l) /\ q \notin txn[c].own)
      BY <1>0, <1>1, <2>1 DEF InstallOf, Installing
    <3> QED BY <1>17, <3>1
  <2>3. Steady(q)
    <3>1. CASE Timed(c, q)
      <4>1. blocks[q].committed = txn[c].epoch
        BY <1>19, <3>1
      <4> QED BY <2>2, <4>1 DEF Steady
    <3> QED BY <2>2, <3>1
  <2>4. Steady(q)'
    BY <1>2, <2>3 DEF Steady, Old, Active
  <2> QED BY <2>1, <2>4 DEF Steady
<1>21. CommitInv'
  <2> SUFFICES ASSUME NEW x \in committed PROVE CommitOf(x)'
    BY <1>2 DEF CommitInv
  <2>1. CommitOf(x)
    BY <1>0 DEF CommitInv
  <2>2. \A d \in Client : Installing(d) => d = c
    BY <1>5, OthersBare
  <2>3. x.epoch <= sealed /\ x.epoch <= txn[c].epoch
    BY <1>1, <2>1 DEF CommitOf, Installing
  <2>4. HeadOf(x.label) # NULLPOINTER /\ x.epoch <= blocks[HeadOf(x.label)].committed
    <3>1. ASSUME NEW d \in Client, Installing(d), TopOf(d, x.label) # NULLPOINTER, Timed(d, TopOf(d, x.label))
          PROVE  HeadOf(x.label) # NULLPOINTER /\ x.epoch <= blocks[HeadOf(x.label)].committed
      <4>1. d = c
        BY <2>2, <3>1
      <4>2. PICK q : q = HeadOf(x.label) /\ TopOf(c, x.label) = q
        BY <1>18
      <4>3. blocks[q].committed = txn[c].epoch /\ q # NULLPOINTER
        BY <1>19, <3>1, <4>1, <4>2
      <4> QED BY <2>3, <4>2, <4>3
    <3> QED BY <2>1, <3>1 DEF CommitOf
  <2>5. PICK q : q = HeadOf(x.label) /\ HeadOf(x.label)' = q
    BY <1>18
  <2>6. q # NULLPOINTER /\ x.epoch <= blocks'[q].committed /\ x.epoch <= sealed'
    BY <1>2, <2>3, <2>4, <2>5
  <2> QED BY <1>16, <2>5, <2>6 DEF CommitOf
<1>22. CommitsInv'
  BY <1>5, <1>6, <1>12, <1>14, <1>15, <1>20, <1>21, HolderCommit
<1> QED BY <1>2, <1>13, <1>22

-----------------------------------------------------------------------------
(* Abort *)

\* What rolling the words back leaves of block p.
BlockUndone(b, b2, p, words) ==
  /\ b2 \in BlockRec /\ b2.prev = b.prev /\ b2.committed = b.committed /\ b2.num = b.num /\ b2.order = b.order
  /\ b2.creation = IF Word("block", p, 0) \in words THEN ROLLBACK_TOMBSTONE ELSE b.creation
  /\ Len(b2.entries) = Len(b.entries) /\ DOMAIN b2.entries = DOMAIN b.entries
  /\ \A i \in DOMAIN b.entries :
       /\ b2.entries[i].dst = b.entries[i].dst /\ b2.entries[i].data = b.entries[i].data
       /\ b2.entries[i].creation = IF Word("creation", p, i) \in words THEN ROLLBACK_TOMBSTONE ELSE b.entries[i].creation
       /\ b2.entries[i].deletion = IF Word("deletion", p, i) \in words THEN ROLLBACK_TOMBSTONE ELSE b.entries[i].deletion

LEMMA AbortDoes ==
  ASSUME Types, NEW c \in Client, Abort(c)
  PROVE  /\ blocks' \in Seq(BlockRec) /\ Len(blocks') = Len(blocks) /\ DOMAIN blocks' = DOMAIN blocks
         /\ \A p \in DOMAIN blocks : BlockUndone(blocks[p], blocks'[p], p, Members(txn[c].stamps))
PROOF
<1>1. PICK words : words = Members(txn[c].stamps)
  OBVIOUS
<1>2. blocks' = [p \in DOMAIN blocks |->
       [blocks[p] EXCEPT
          !.creation = RolledBack(blocks[p].creation, Word("block", p, 0), words),
          !.entries = [i \in DOMAIN blocks[p].entries |-> RolledEntry(blocks[p].entries[i], p, i, words)]]]
  BY <1>1 DEF Abort
<1>3. blocks \in Seq(BlockRec) /\ DOMAIN blocks = 1 .. Len(blocks) /\ Len(blocks) \in Nat
  BY DEF Types
<1>4. ASSUME NEW p \in DOMAIN blocks PROVE BlockUndone(blocks[p], blocks'[p], p, words)
  <2>1. PICK b : b = blocks[p]
    OBVIOUS
  <2>2. b \in BlockRec
    BY <1>3, <2>1
  <2>3. b.entries \in Seq(EntryRec) /\ b.creation \in Int
    BY <2>2 DEF BlockRec
  <2>4. PICK x \in Int : x = RolledBack(b.creation, Word("block", p, 0), words)
    BY <2>3 DEF RolledBack
  <2>5. PICK es : es = [i \in DOMAIN b.entries |-> RolledEntry(b.entries[i], p, i, words)]
    OBVIOUS
  <2>6. ASSUME NEW i \in DOMAIN b.entries
        PROVE  /\ es[i] \in EntryRec
               /\ es[i].dst = b.entries[i].dst /\ es[i].data = b.entries[i].data
               /\ es[i].creation = IF Word("creation", p, i) \in words THEN ROLLBACK_TOMBSTONE ELSE b.entries[i].creation
               /\ es[i].deletion = IF Word("deletion", p, i) \in words THEN ROLLBACK_TOMBSTONE ELSE b.entries[i].deletion
    <3>1. PICK e : e = b.entries[i]
      OBVIOUS
    <3>2. e \in EntryRec
      BY <2>3, <3>1
    <3>3. e.creation \in Int /\ e.deletion \in Int
      BY <3>2 DEF EntryRec
    <3>4. PICK y \in Int : y = RolledBack(e.creation, Word("creation", p, i), words)
      BY <3>3 DEF RolledBack
    <3>5. PICK z \in Int : z = RolledBack(e.deletion, Word("deletion", p, i), words)
      BY <3>3 DEF RolledBack
    <3>6. PICK r : r = [e EXCEPT !.creation = y, !.deletion = z]
      OBVIOUS
    <3>7. r \in EntryRec /\ r.creation = y /\ r.deletion = z /\ r.dst = e.dst /\ r.data = e.data
      BY <3>2, <3>6 DEF EntryRec
    <3>8. es[i] = r
      BY <2>5, <3>1, <3>4, <3>5, <3>6 DEF RolledEntry
    <3> QED BY <3>1, <3>4, <3>5, <3>7, <3>8 DEF RolledBack
  <2>7. PICK n \in Nat : n = Len(b.entries) /\ DOMAIN b.entries = 1 .. n
    BY <2>3
  <2>8. DOMAIN es = 1 .. n
    BY <2>5, <2>7
  <2>9. es \in [1 .. n -> EntryRec]
    <3>1. es = [i \in DOMAIN es |-> es[i]]
      BY <2>5
    <3> QED BY <2>6, <2>7, <2>8, <3>1
  <2>10. es \in Seq(EntryRec) /\ Len(es) = n
    BY <2>9, SeqIn
  <2>11. PICK b2 : b2 = [b EXCEPT !.creation = x, !.entries = es]
    OBVIOUS
  <2>12. /\ b2 \in BlockRec /\ b2.creation = x /\ b2.entries = es /\ b2.prev = b.prev
         /\ b2.committed = b.committed /\ b2.num = b.num /\ b2.order = b.order
    BY <2>2, <2>10, <2>11 DEF BlockRec
  <2>13. blocks'[p] = b2
    BY <1>2, <2>1, <2>4, <2>5, <2>11
  <2>14. Len(b2.entries) = Len(b.entries) /\ DOMAIN b2.entries = DOMAIN b.entries
    BY <2>7, <2>8, <2>10, <2>12
  <2>15. BlockUndone(b, b2, p, words)
    BY <2>4, <2>6, <2>12, <2>14 DEF BlockUndone, RolledBack
  <2> QED BY <2>1, <2>13, <2>15
<1>5. DOMAIN blocks' = 1 .. Len(blocks)
  BY <1>2, <1>3
<1>6. blocks' \in [1 .. Len(blocks) -> BlockRec]
  <2>1. \A p \in DOMAIN blocks : blocks'[p] \in BlockRec
    BY <1>4 DEF BlockUndone
  <2>2. blocks' = [p \in DOMAIN blocks' |-> blocks'[p]]
    BY <1>2
  <2> QED BY <1>3, <1>5, <2>1, <2>2
<1>7. blocks' \in Seq(BlockRec) /\ Len(blocks') = Len(blocks)
  BY <1>3, <1>6, SeqIn
<1> QED BY <1>1, <1>3, <1>4, <1>5, <1>7

\* A block of which nothing is rolled back is what it was.
LEMMA RolledNothing ==
  ASSUME NEW b \in BlockRec, NEW b2, NEW p, BlockUndone(b, b2, p, {})
  PROVE  b2 = b
PROOF
<1>1. /\ b2 \in BlockRec /\ b2.prev = b.prev /\ b2.committed = b.committed /\ b2.num = b.num /\ b2.order = b.order
      /\ b2.creation = b.creation /\ DOMAIN b2.entries = DOMAIN b.entries
      /\ \A i \in DOMAIN b.entries :
           /\ b2.entries[i].dst = b.entries[i].dst /\ b2.entries[i].data = b.entries[i].data
           /\ b2.entries[i].creation = b.entries[i].creation /\ b2.entries[i].deletion = b.entries[i].deletion
  BY DEF BlockUndone
<1>2. PICK es, es2 : es = b.entries /\ es2 = b2.entries
  OBVIOUS
<1>3. es \in Seq(EntryRec) /\ es2 \in Seq(EntryRec)
  BY <1>1, <1>2 DEF BlockRec
<1>4. \A i \in DOMAIN es : es2[i] = es[i]
  <2> SUFFICES ASSUME NEW i \in DOMAIN es PROVE es2[i] = es[i]
    OBVIOUS
  <2>1. es[i] \in EntryRec /\ es2[i] \in EntryRec
    BY <1>1, <1>2, <1>3
  <2>2. es2[i].dst = es[i].dst /\ es2[i].data = es[i].data /\ es2[i].creation = es[i].creation /\ es2[i].deletion = es[i].deletion
    BY <1>1, <1>2
  <2> QED BY <2>1, <2>2 DEF EntryRec
<1>5. es2 = es
  <2>1. es = [i \in DOMAIN es |-> es[i]] /\ es2 = [i \in DOMAIN es2 |-> es2[i]]
    BY <1>3
  <2>2. DOMAIN es2 = DOMAIN es
    BY <1>1, <1>2
  <2> QED BY <1>4, <2>1, <2>2
<1>6. /\ b2.prev = b.prev /\ b2.committed = b.committed /\ b2.num = b.num /\ b2.order = b.order
      /\ b2.creation = b.creation /\ b2.entries = b.entries
  BY <1>1, <1>2, <1>5
<1>7. b2 \in BlockRec
  BY <1>1
<1> QED BY <1>6, <1>7 DEF BlockRec

LEMMA AbortQuiet ==
  ASSUME Basic, CommitsInv, NEW c \in Client, Abort(c), ~txn[c].locked
  PROVE  QuietStep(c) /\ BoundOf(c)'
PROOF
<1>0. /\ Types /\ PlaceOf(c) /\ pc \in [Client -> Place] /\ compaction \in [Client -> CompactionRec] /\ pc[c] = "open"
      /\ stage \in [Client -> {"idle", "queued", "granted"}]
  BY DEF Basic, PlaceInv, Types, Abort
<1>1. Bare(txn[c])
  BY <1>0 DEF PlaceOf
<1>2. txn[c].own = {} /\ Members(txn[c].stamps) = {}
  BY <1>1, MembersFew DEF Bare
<1>3. blocks' = blocks
  <2>1. PICK words : words = Members(txn[c].stamps)
    OBVIOUS
  <2>2. /\ blocks' \in Seq(BlockRec) /\ DOMAIN blocks' = DOMAIN blocks
        /\ \A p \in DOMAIN blocks : BlockUndone(blocks[p], blocks'[p], p, words)
    BY <1>0, <2>1, AbortDoes
  <2>3. ASSUME NEW p \in DOMAIN blocks PROVE blocks'[p] = blocks[p]
    <3>1. blocks[p] \in BlockRec
      BY <1>0, BlockFields
    <3>2. BlockUndone(blocks[p], blocks'[p], p, {})
      BY <1>2, <2>1, <2>2
    <3> QED BY <3>1, <3>2, RolledNothing
  <2>4. blocks \in Seq(BlockRec)
    BY <1>0 DEF Types
  <2>5. blocks = [p \in DOMAIN blocks |-> blocks[p]] /\ blocks' = [p \in DOMAIN blocks' |-> blocks'[p]]
    BY <2>2, <2>4
  <2> QED BY <2>2, <2>3, <2>5
<1>4. freed' = freed
  BY <1>2 DEF Abort
<1>5. /\ pc' = [pc EXCEPT ![c] = "clean"]
      /\ UNCHANGED <<stage, vertex_futex, txn, scan, edge_label_ptr, labels, freedLabels, sealed, visible, committed, transaction_id, compaction>>
  BY DEF Abort, Goto, epochsVars
<1>6. compaction' = [compaction EXCEPT ![c] = compaction[c]] /\ compaction[c] \in CompactionRec
  BY <1>0, <1>5
<1>7. "clean" \in Place
  BY DEF Place
<1>8. stage' \in [Client -> {"idle", "queued", "granted"}] /\ \A d \in Client \ {c} : stage'[d] = stage[d]
  BY <1>0, <1>5
<1>9. pc'[c] = "clean" /\ \A d \in Client \ {c} : pc'[d] = pc[d]
  BY <1>0, <1>5
<1>10. Alone(c)
  BY <1>5, <1>8, <1>9 DEF Alone, Same
<1>11. ~Open(c)' /\ ~Writer(c)' /\ ~Holds(c)'
  BY <1>5, <1>9 DEF Open, Writer, InScan, Holds
<1>12. PlaceOf(c)'
  BY <1>0, <1>5, <1>9, <1>11 DEF PlaceOf, Bare, Open
<1>13. LockInv'
  BY <1>5, <1>10, <1>11, LockKept
<1>14. "clean" # "install" /\ "clean" # "compact"
  OBVIOUS
<1>15. UNCHANGED store
  BY <1>3, <1>4, <1>5 DEF store
<1>17. ~Installing(c)
  BY <1>0 DEF Installing
<1>16. QuietStep(c)
  BY <1>1, <1>5, <1>6, <1>7, <1>8, <1>11, <1>12, <1>13, <1>14, <1>15, <1>17, TurnQuiet
<1> QED BY <1>9, <1>16 DEF BoundOf

LEMMA AbortKeeps ==
  ASSUME Basic, CommitsInv, NEW c \in Client, Abort(c), txn[c].locked
  PROVE  Basic' /\ CommitsInv' /\ committed' = committed
PROOF
<1>0. /\ Types /\ OlderInv /\ LabelsInv /\ TailInv /\ RefsOf(c) /\ TopsOf(c) /\ CommitInv /\ CommittedInv /\ PlaceOf(c)
      /\ SettledInv
  BY DEF Basic, RefsInv, PlaceInv, CommitsInv, TopsInv
<1>1. /\ pc[c] = "open" /\ Goto(c, "clean")
      /\ UNCHANGED <<epochsVars, transaction_id, vertex_futex, edge_label_ptr, labels, freedLabels, compact_table, txn,
                     scan, compaction, bounds, committed>>
  BY DEF Abort
<1>2. /\ UNCHANGED <<visible, sealed, stage, transaction_id, vertex_futex, txn, scan, compaction, committed>>
      /\ UNCHANGED <<edge_label_ptr, labels>>
  BY <1>1 DEF epochsVars
<1>3. /\ pc' = [pc EXCEPT ![c] = "clean"] /\ pc \in [Client -> Place]
  BY <1>0, <1>1 DEF Goto, Types
<1>4. /\ pc'[c] = "clean" /\ pc' \in [Client -> Place] /\ \A d \in Client \ {c} : pc'[d] = pc[d]
  BY <1>3 DEF Place
<1>5. Open(c) /\ Holds(c) /\ ~Open(c)' /\ ~Writer(c)' /\ ~Installing(c) /\ ~Installing(c)' /\ Writer(c)
  BY <1>1, <1>4 DEF Holds, Writer, Open, InScan, Installing
<1>6. Alone(c)
  BY <1>2, <1>4 DEF Alone, Same
<1>7. LockInv'
  BY <1>2, <1>5, <1>6, LockKept
<1>8. PICK words : words = Members(txn[c].stamps)
  OBVIOUS
<1>9. /\ blocks' \in Seq(BlockRec) /\ Len(blocks') = Len(blocks) /\ DOMAIN blocks' = DOMAIN blocks
      /\ \A p \in DOMAIN blocks : BlockUndone(blocks[p], blocks'[p], p, words)
  BY <1>0, <1>8, AbortDoes
<1>10. \A p \in DOMAIN blocks :
         /\ blocks'[p].prev = blocks[p].prev /\ blocks'[p].committed = blocks[p].committed
         /\ blocks'[p].num = blocks[p].num /\ Len(blocks'[p].entries) = Len(blocks[p].entries)
         /\ p \notin txn[c].own => blocks'[p].creation = blocks[p].creation
  <2> SUFFICES ASSUME NEW p \in DOMAIN blocks
      PROVE /\ blocks'[p].prev = blocks[p].prev /\ blocks'[p].committed = blocks[p].committed
            /\ blocks'[p].num = blocks[p].num /\ Len(blocks'[p].entries) = Len(blocks[p].entries)
            /\ p \notin txn[c].own => blocks'[p].creation = blocks[p].creation
    OBVIOUS
  <2>1. Word("block", p, 0) \in words => p \in txn[c].own
    <3>1. \A w \in Members(txn[c].stamps) : w.field = "block" => w.p \in txn[c].own
      BY <1>0, <1>5 DEF RefsOf
    <3>2. Word("block", p, 0).field = "block" /\ Word("block", p, 0).p = p
      BY DEF Word
    <3> QED BY <1>8, <3>1, <3>2
  <2> QED BY <1>9, <2>1 DEF BlockUndone
<1>11. Types'
  <2>1. Len(blocks') <= MaxBlock
    BY <1>0, <1>9 DEF Types
  <2> QED BY <1>0, <1>2, <1>4, <1>9, <2>1 DEF Types, EpochInv
<1>12. OlderInv'
  <2>1. Older(blocks)'
    BY <1>0, <1>9, <1>10 DEF OlderInv, Older
  <2> QED BY <1>0, <1>2, <2>1 DEF OlderInv, Older
<1>13. LabelsInv'
  BY <1>0, <1>2, <1>9 DEF LabelsInv
<1>14. TailInv'
  BY <1>0, <1>9, <1>10 DEF TailInv
<1>15. PlaceOf(c)'
  BY <1>0, <1>1, <1>2, <1>4, <1>5 DEF PlaceOf
<1>16. RefsOf(c)'
  BY <1>0, <1>2, <1>4, <1>5, <1>9 DEF RefsOf
<1>17. Len(blocks) <= Len(blocks') /\ Len(labels) <= Len(labels')
  BY <1>0, <1>2, <1>9 DEF Types
<1>18. visible' = visible /\ sealed' = sealed /\ transaction_id' = transaction_id /\ txn'[c].read = txn[c].read
  BY <1>2
<1>19. Basic'
  BY <1>5, <1>6, <1>7, <1>11, <1>12, <1>13, <1>14, <1>15, <1>16, <1>17, <1>18, HolderBasic
<1>20. TopsOf(c)' /\ PendOf(c)' /\ TailsOf(c)' /\ InstallOf(c)' /\ BoundOf(c)'
  BY <1>4, <1>5 DEF TopsOf, PendOf, TailsOf, InstallOf, BoundOf
<1>21. CommittedInv'
  BY <1>0, <1>2, <1>9, <1>10 DEF CommittedInv
<1>22. \A d \in Client : ~Installing(d)
  BY <1>5, OthersBare
<1>23. \A d \in Client : ~Installing(d)'
  BY <1>5, <1>6, <1>18, OthersCommit
<1>24. ASSUME NEW l \in AnyLabel, HeadOf(l) # NULLPOINTER
       PROVE  /\ HeadOf(l) \in DOMAIN blocks /\ HeadOf(l)' = HeadOf(l)
              /\ blocks'[HeadOf(l)].creation = blocks[HeadOf(l)].creation
              /\ blocks'[HeadOf(l)].committed = blocks[HeadOf(l)].committed
  <2>1. PICK q : q = HeadOf(l)
    OBVIOUS
  <2>6. \A k : HeadOf(k) \in 0 .. Len(blocks)
    BY <1>0, LocateFacts
  <2>2. q \in 0 .. Len(blocks) /\ DOMAIN blocks = 1 .. Len(blocks) /\ Len(blocks) \in Nat
    BY <1>0, <2>1, <2>6 DEF Types
  <2>3. q \in DOMAIN blocks
    BY <1>24, <2>1, <2>2
  <2>4. q \notin txn[c].own
    <3>1. \A o \in txn[c].own : HeadOf(l) < o
      BY <1>0, <1>5 DEF TopsOf
    <3> QED BY <2>1, <2>2, <3>1
  <2>5. HeadOf(l)' = HeadOf(l)
    BY <1>2 DEF HeadOf, Pointed
  <2> QED BY <1>10, <2>1, <2>3, <2>4, <2>5
<1>25. SettledInv'
  <2> SUFFICES ASSUME NEW l \in AnyLabel, HeadOf(l)' # NULLPOINTER PROVE Steady(HeadOf(l))'
    BY DEF SettledInv
  <2>1. HeadOf(l)' = HeadOf(l)
    BY <1>2 DEF HeadOf, Pointed
  <2>2. PICK q : q = HeadOf(l) /\ q # NULLPOINTER /\ HeadOf(l)' = q
    BY <2>1
  <2>3. blocks'[q].creation = blocks[q].creation /\ blocks'[q].committed = blocks[q].committed
    BY <1>24, <2>2
  <2>4. Steady(q)
    BY <1>0, <1>22, <2>2 DEF SettledInv
  <2>5. Steady(q)'
    BY <1>2, <2>3, <2>4 DEF Steady, Old, Active
  <2> QED BY <2>2, <2>5 DEF Steady
<1>26. CommitInv'
  <2> SUFFICES ASSUME NEW x \in committed PROVE CommitOf(x)'
    BY <1>2 DEF CommitInv
  <2>1. CommitOf(x)
    BY <1>0 DEF CommitInv
  <2>2. x.epoch <= sealed /\ HeadOf(x.label) # NULLPOINTER /\ x.epoch <= blocks[HeadOf(x.label)].committed
    BY <1>22, <2>1 DEF CommitOf
  <2>3. x.label \in AnyLabel
    BY <1>0 DEF Types
  <2>4. PICK q : q = HeadOf(x.label) /\ HeadOf(x.label)' = q /\ blocks'[q].committed = blocks[q].committed
    BY <1>24, <2>2, <2>3
  <2>5. q # NULLPOINTER /\ x.epoch <= blocks'[q].committed /\ x.epoch <= sealed'
    BY <1>2, <2>2, <2>4
  <2> QED BY <1>23, <2>4, <2>5 DEF CommitOf
<1>27. CommitsInv'
  BY <1>5, <1>6, <1>18, <1>20, <1>21, <1>25, <1>26, HolderCommit
<1> QED BY <1>2, <1>19, <1>27

-----------------------------------------------------------------------------
(* Compaction under the lock *)

LEMMA CutLabels ==
  ASSUME NEW labs \in Seq(LabelRec), Older(labs), NEW p, NEW bound
  PROVE  /\ CutUnder(labs, p, bound) \in Seq(LabelRec) /\ Len(CutUnder(labs, p, bound)) = Len(labs)
         /\ DOMAIN CutUnder(labs, p, bound) = DOMAIN labs
         /\ \A q \in DOMAIN labs :
              /\ CutUnder(labs, p, bound)[q].prev = (IF q = Cut(labs, p, bound) THEN NULLPOINTER ELSE labs[q].prev)
              /\ CutUnder(labs, p, bound)[q].creation = labs[q].creation
              /\ CutUnder(labs, p, bound)[q].order = labs[q].order
              /\ CutUnder(labs, p, bound)[q].entries = labs[q].entries
PROOF
<1>1. PICK k, s : k = Cut(labs, p, bound) /\ s = CutUnder(labs, p, bound)
  OBVIOUS
<1>2. s = [q \in DOMAIN labs |-> IF q = k THEN [labs[q] EXCEPT !.prev = NULLPOINTER] ELSE labs[q]]
  BY <1>1 DEF CutUnder
<1>3. DOMAIN s = DOMAIN labs /\ DOMAIN labs = 1 .. Len(labs) /\ Len(labs) \in Nat
  BY <1>2
<1>4. ASSUME NEW q \in DOMAIN labs
      PROVE  /\ s[q] \in LabelRec /\ s[q].prev = (IF q = k THEN NULLPOINTER ELSE labs[q].prev)
             /\ s[q].creation = labs[q].creation /\ s[q].order = labs[q].order /\ s[q].entries = labs[q].entries
  <2>1. PICK b : b = labs[q]
    OBVIOUS
  <2>2. b \in LabelRec
    BY <2>1
  <2>3. PICK b2 : b2 = [b EXCEPT !.prev = NULLPOINTER]
    OBVIOUS
  <2>4. b2 \in LabelRec /\ b2.prev = NULLPOINTER /\ b2.creation = b.creation /\ b2.order = b.order /\ b2.entries = b.entries
    BY <2>2, <2>3 DEF LabelRec
  <2>5. s[q] = IF q = k THEN b2 ELSE b
    BY <1>2, <2>1, <2>3
  <2> QED BY <2>1, <2>2, <2>4, <2>5
<1>5. s \in [1 .. Len(labs) -> LabelRec]
  <2>1. s = [q \in DOMAIN s |-> s[q]]
    BY <1>2
  <2> QED BY <1>3, <1>4, <2>1
<1>6. s \in Seq(LabelRec) /\ Len(s) = Len(labs)
  BY <1>3, <1>5, SeqIn
<1> QED BY <1>1, <1>3, <1>4, <1>6

LEMMA CutBlocks ==
  ASSUME NEW chained \in Seq(BlockRec), Older(chained), NEW p, NEW bound
  PROVE  /\ CutUnder(chained, p, bound) \in Seq(BlockRec) /\ Len(CutUnder(chained, p, bound)) = Len(chained)
         /\ DOMAIN CutUnder(chained, p, bound) = DOMAIN chained
         /\ \A q \in DOMAIN chained :
              /\ CutUnder(chained, p, bound)[q].prev = (IF q = Cut(chained, p, bound) THEN NULLPOINTER ELSE chained[q].prev)
              /\ CutUnder(chained, p, bound)[q].creation = chained[q].creation
              /\ CutUnder(chained, p, bound)[q].committed = chained[q].committed
              /\ CutUnder(chained, p, bound)[q].num = chained[q].num
              /\ CutUnder(chained, p, bound)[q].order = chained[q].order
              /\ CutUnder(chained, p, bound)[q].entries = chained[q].entries
PROOF
<1>1. PICK k, s : k = Cut(chained, p, bound) /\ s = CutUnder(chained, p, bound)
  OBVIOUS
<1>2. s = [q \in DOMAIN chained |-> IF q = k THEN [chained[q] EXCEPT !.prev = NULLPOINTER] ELSE chained[q]]
  BY <1>1 DEF CutUnder
<1>3. DOMAIN s = DOMAIN chained /\ DOMAIN chained = 1 .. Len(chained) /\ Len(chained) \in Nat
  BY <1>2
<1>4. ASSUME NEW q \in DOMAIN chained
      PROVE  /\ s[q] \in BlockRec /\ s[q].prev = (IF q = k THEN NULLPOINTER ELSE chained[q].prev)
             /\ s[q].creation = chained[q].creation /\ s[q].committed = chained[q].committed
             /\ s[q].num = chained[q].num /\ s[q].order = chained[q].order /\ s[q].entries = chained[q].entries
  <2>1. PICK b : b = chained[q]
    OBVIOUS
  <2>2. b \in BlockRec
    BY <2>1
  <2>3. PICK b2 : b2 = [b EXCEPT !.prev = NULLPOINTER]
    OBVIOUS
  <2>4. /\ b2 \in BlockRec /\ b2.prev = NULLPOINTER /\ b2.creation = b.creation /\ b2.committed = b.committed
        /\ b2.num = b.num /\ b2.order = b.order /\ b2.entries = b.entries
    BY <2>2, <2>3 DEF BlockRec
  <2>5. s[q] = IF q = k THEN b2 ELSE b
    BY <1>2, <2>1, <2>3
  <2> QED BY <2>1, <2>2, <2>4, <2>5
<1>5. s \in [1 .. Len(chained) -> BlockRec]
  <2>1. s = [q \in DOMAIN s |-> s[q]]
    BY <1>2
  <2> QED BY <1>3, <1>4, <2>1
<1>6. s \in Seq(BlockRec) /\ Len(s) = Len(chained)
  BY <1>3, <1>5, SeqIn
<1> QED BY <1>1, <1>3, <1>4, <1>6

\* Without a commit under way, the newest blocks are settled and have all that is committed.
LEMMA AllSettled ==
  ASSUME Basic, CommitsInv, NEW c \in Client, Holds(c) \/ vertex_futex = 0, ~Installing(c)
  PROVE  /\ \A d \in Client : ~Installing(d)
         /\ \A l \in AnyLabel : HeadOf(l) # NULLPOINTER => HeadOf(l) \in DOMAIN blocks /\ Steady(HeadOf(l))
         /\ \A x \in committed :
              /\ x.label \in AnyLabel /\ HeadOf(x.label) # NULLPOINTER /\ x.epoch <= blocks[HeadOf(x.label)].committed
              /\ x.epoch <= sealed
PROOF
<1>0. Types /\ OlderInv /\ LabelsInv /\ SettledInv /\ CommitInv
  BY DEF Basic, CommitsInv
<1>1. \A d \in Client : ~Installing(d)
  BY OthersBare
<1>2. \A k : HeadOf(k) \in 0 .. Len(blocks)
  BY <1>0, LocateFacts
<1>3. DOMAIN blocks = 1 .. Len(blocks) /\ Len(blocks) \in Nat
  BY <1>0 DEF Types
<1>4. \A l \in AnyLabel : HeadOf(l) # NULLPOINTER => HeadOf(l) \in DOMAIN blocks
  BY <1>2, <1>3
<1>5. \A l \in AnyLabel : HeadOf(l) # NULLPOINTER => Steady(HeadOf(l))
  BY <1>0, <1>1 DEF SettledInv
<1>6. ASSUME NEW x \in committed
      PROVE  /\ x.label \in AnyLabel /\ HeadOf(x.label) # NULLPOINTER /\ x.epoch <= blocks[HeadOf(x.label)].committed
             /\ x.epoch <= sealed
  <2>1. x.label \in AnyLabel
    BY <1>0 DEF Types
  <2>2. CommitOf(x)
    BY <1>0 DEF CommitInv
  <2> QED BY <1>1, <2>1, <2>2 DEF CommitOf
<1> QED BY <1>1, <1>4, <1>5, <1>6

LEMMA CompactLabelsKeeps ==
  ASSUME Basic, CommitsInv, NEW c \in Client, CompactLabels(c)
  PROVE  Basic' /\ CommitsInv' /\ committed' = committed
PROOF
<1>0. /\ Types /\ OlderInv /\ LabelsInv /\ TailInv /\ RefsOf(c) /\ CommittedInv /\ PlaceOf(c) /\ BoundOf(c)
  BY DEF Basic, RefsInv, PlaceInv, CommitsInv, BoundInv
<1>1. PICK b, lb, r :
        /\ b = compaction[c].bound /\ lb = edge_label_ptr
        /\ r = [compaction[c] EXCEPT !.todo = IF lb = NULLPOINTER THEN {} ELSE DOMAIN labels[lb].entries,
                                      !.again = NeedsFuture(labels, lb, b)]
  OBVIOUS
<1>2. /\ pc[c] = "lock" /\ vertex_futex = 0 /\ vertex_futex' = 1
      /\ labels' = CutUnder(labels, lb, b)
      /\ Compacting(c, "compact", r)
      /\ UNCHANGED <<edge_label_ptr, blocks, freed, compact_table, compacts>>
  BY <1>1 DEF CompactLabels
<1>3. /\ UNCHANGED <<visible, sealed, stage, transaction_id, txn, scan, committed, edge_label_ptr, blocks>>
      /\ pc' = [pc EXCEPT ![c] = "compact"] /\ compaction' = [compaction EXCEPT ![c] = r]
  BY <1>2 DEF Compacting, Goto, epochsVars
<1>4. /\ labels \in Seq(LabelRec) /\ Older(labels) /\ lb \in 0 .. Len(labels) /\ DOMAIN labels = 1 .. Len(labels)
      /\ Len(labels) \in Nat
      /\ pc \in [Client -> Place] /\ compaction \in [Client -> CompactionRec]
  BY <1>0, <1>1 DEF Types, OlderInv
<1>5. /\ labels' \in Seq(LabelRec) /\ Len(labels') = Len(labels) /\ DOMAIN labels' = DOMAIN labels
      /\ \A q \in DOMAIN labels :
           /\ labels'[q].prev = (IF q = Cut(labels, lb, b) THEN NULLPOINTER ELSE labels[q].prev)
           /\ labels'[q].creation = labels[q].creation /\ labels'[q].order = labels[q].order
           /\ labels'[q].entries = labels[q].entries
  <2>1. PICK s : s = CutUnder(labels, lb, b)
    OBVIOUS
  <2>2. /\ s \in Seq(LabelRec) /\ Len(s) = Len(labels) /\ DOMAIN s = DOMAIN labels
        /\ \A q \in DOMAIN labels :
           /\ s[q].prev = (IF q = Cut(labels, lb, b) THEN NULLPOINTER ELSE labels[q].prev)
           /\ s[q].creation = labels[q].creation /\ s[q].order = labels[q].order
           /\ s[q].entries = labels[q].entries
    BY <1>4, <2>1, CutLabels
  <2> QED BY <1>2, <2>1, <2>2
<1>6. r \in CompactionRec /\ r.bound = b /\ r.resume = compaction[c].resume
      /\ r.todo = IF lb = NULLPOINTER THEN {} ELSE DOMAIN labels[lb].entries
  <2>1. compaction[c] \in CompactionRec
    BY <1>4
  <2>2. PICK S : S = IF lb = NULLPOINTER THEN {} ELSE DOMAIN labels[lb].entries
    OBVIOUS
  <2>3. S \subseteq Nat
    <3>1. CASE lb # NULLPOINTER
      <4>1. lb \in DOMAIN labels
        BY <1>4, <3>1
      <4>2. labels[lb].entries \in Seq([label : AnyLabel, ptr : Nat])
        BY <1>0, <4>1, LabelFields
      <4> QED BY <2>2, <3>1, <4>2
    <3> QED BY <2>2, <3>1
  <2>4. NeedsFuture(labels, lb, b) \in BOOLEAN
    BY DEF NeedsFuture, Before
  <2>5. PICK z \in BOOLEAN : z = NeedsFuture(labels, lb, b)
    BY <2>4
  <2>6. r = [compaction[c] EXCEPT !.todo = S, !.again = z]
    BY <1>1, <2>2, <2>5
  <2>7. r \in CompactionRec /\ r.bound = compaction[c].bound /\ r.resume = compaction[c].resume /\ r.todo = S
    BY <2>1, <2>3, <2>6 DEF CompactionRec
  <2> QED BY <1>1, <2>2, <2>7
<1>7. /\ pc'[c] = "compact" /\ pc' \in [Client -> Place] /\ \A d \in Client \ {c} : pc'[d] = pc[d]
      /\ compaction'[c] = r /\ compaction' \in [Client -> CompactionRec]
      /\ \A d \in Client \ {c} : compaction'[d] = compaction[d]
  BY <1>3, <1>4, <1>6 DEF Place
<1>8. ~Open(c)' /\ ~Writer(c)' /\ ~Installing(c)' /\ ~Installing(c) /\ ~Open(c)
  BY <1>2, <1>7 DEF Writer, Open, InScan, Installing
<1>9. Alone(c)
  BY <1>3, <1>7 DEF Alone, Same
<1>10. LockInv'
  BY <1>2, <1>9, LockTaken
<1>11. Types'
  BY <1>0, <1>3, <1>5, <1>7 DEF Types, EpochInv
<1>12. OlderInv' /\ LabelsInv' /\ TailInv'
  <2>1. Older(labels)'
    <3>1. \A p \in DOMAIN labels : labels'[p].prev \in 0 .. p - 1
      BY <1>4, <1>5 DEF Older
    <3> QED BY <1>4, <1>5, <3>1 DEF Older
  <2>2. Older(blocks)'
    BY <1>0, <1>3 DEF OlderInv, Older
  <2>3. LabelsInv'
    BY <1>0, <1>3, <1>5 DEF LabelsInv
  <2>4. TailInv'
    BY <1>0, <1>3 DEF TailInv
  <2> QED BY <2>1, <2>2, <2>3, <2>4 DEF OlderInv
<1>13. PlaceOf(c)'
  <2>1. txn'[c] = txn[c] /\ stage'[c] = stage[c] /\ compaction'[c].resume = compaction[c].resume
    BY <1>3, <1>6, <1>7
  <2> QED BY <1>0, <1>2, <1>3, <1>7, <1>8, <2>1 DEF PlaceOf, Bare, Writer
<1>14. RefsOf(c)'
  <2>1. (pc[c] = "compact" =>
       compaction[c].todo \subseteq (IF edge_label_ptr = NULLPOINTER THEN {} ELSE DOMAIN labels[edge_label_ptr].entries))'
    <3>1. CASE lb = NULLPOINTER
      BY <1>1, <1>3, <1>6, <1>7, <3>1
    <3>2. CASE lb # NULLPOINTER
      <4>1. lb \in DOMAIN labels
        BY <1>4, <3>2
      <4> QED BY <1>1, <1>3, <1>5, <1>6, <1>7, <3>2, <4>1
    <3> QED BY <3>1, <3>2
  <2>2. (scan[c].ptr <= Len(blocks) /\ scan[c].lb <= Len(labels))'
    BY <1>0, <1>3, <1>5 DEF RefsOf
  <2> QED BY <1>8, <2>1, <2>2 DEF RefsOf
<1>15. Len(blocks) <= Len(blocks') /\ Len(labels) <= Len(labels')
  BY <1>0, <1>3, <1>4, <1>5 DEF Types
<1>16. visible' = visible /\ sealed' = sealed /\ transaction_id' = transaction_id /\ txn'[c].read = txn[c].read
  BY <1>3
<1>17. Basic'
  BY <1>2, <1>9, <1>10, <1>11, <1>12, <1>13, <1>14, <1>15, <1>16, HolderBasic
<1>18. TopsOf(c)' /\ PendOf(c)' /\ TailsOf(c)' /\ InstallOf(c)'
  BY <1>7, <1>8 DEF TopsOf, PendOf, TailsOf, InstallOf
<1>19. BoundOf(c)'
  <2>1. Old(b)
    BY <1>0, <1>1, <1>2 DEF BoundOf
  <2>2. Old(b)'
    BY <1>3, <2>1 DEF Old, Active
  <2>3. compaction'[c].bound = b
    BY <1>6, <1>7
  <2> QED BY <1>7, <2>2, <2>3 DEF BoundOf, Old
<1>20. CommittedInv'
  BY <1>0, <1>3 DEF CommittedInv
<1>21. /\ \A d \in Client : ~Installing(d)
       /\ \A l \in AnyLabel : HeadOf(l) # NULLPOINTER => HeadOf(l) \in DOMAIN blocks /\ Steady(HeadOf(l))
       /\ \A x \in committed :
            /\ x.label \in AnyLabel /\ HeadOf(x.label) # NULLPOINTER /\ x.epoch <= blocks[HeadOf(x.label)].committed
            /\ x.epoch <= sealed
  BY <1>2, <1>8, AllSettled
<1>22. \A d \in Client : ~Installing(d)'
  BY <1>2, <1>8, <1>9, <1>16, OthersCommit
<1>23. \A l : HeadOf(l)' = HeadOf(l)
  <2>1. CASE lb = NULLPOINTER
    BY <1>1, <1>3, <2>1 DEF HeadOf, Pointed
  <2>2. CASE lb # NULLPOINTER
    <3>1. labels'[edge_label_ptr].entries = labels[edge_label_ptr].entries /\ edge_label_ptr' = edge_label_ptr
      BY <1>1, <1>3, <1>4, <1>5, <2>2
    <3> QED BY <1>1, <2>2, <3>1, HeadsAre DEF Heads
  <2> QED BY <2>1, <2>2
<1>24. SettledInv'
  <2> SUFFICES ASSUME NEW l \in AnyLabel, HeadOf(l)' # NULLPOINTER PROVE Steady(HeadOf(l))'
    BY DEF SettledInv
  <2>1. PICK q : q = HeadOf(l) /\ HeadOf(l)' = q /\ q # NULLPOINTER
    BY <1>23
  <2>2. Steady(q)
    BY <1>21, <2>1
  <2>3. Steady(q)'
    BY <1>3, <2>2 DEF Steady, Old, Active
  <2> QED BY <2>1, <2>3 DEF Steady
<1>25. CommitInv'
  <2> SUFFICES ASSUME NEW x \in committed PROVE CommitOf(x)'
    BY <1>3 DEF CommitInv
  <2>1. PICK q : q = HeadOf(x.label) /\ HeadOf(x.label)' = q
    BY <1>23
  <2>2. q # NULLPOINTER /\ x.epoch <= blocks'[q].committed /\ x.epoch <= sealed'
    BY <1>3, <1>21, <2>1
  <2> QED BY <1>22, <2>1, <2>2 DEF CommitOf
<1>26. CommitsInv'
  BY <1>2, <1>9, <1>16, <1>18, <1>19, <1>20, <1>24, <1>25, HolderCommit
<1> QED BY <1>3, <1>17, <1>26

\* What compaction does to the blocks: the chain under p is cut, and there may be a copy of p on top.
CutAt(chained, p, b) ==
  \A q \in DOMAIN blocks :
    /\ q \in DOMAIN chained
    /\ chained[q].prev = (IF q = Cut(blocks, p, b) THEN NULLPOINTER ELSE blocks[q].prev)
    /\ chained[q].creation = blocks[q].creation /\ chained[q].committed = blocks[q].committed
    /\ chained[q].num = blocks[q].num /\ chained[q].order = blocks[q].order /\ chained[q].entries = blocks[q].entries
Copied(chained, n, p, b) ==
  /\ n = Len(blocks) + 1 /\ Len(chained) = n
  /\ chained[n].creation = b /\ chained[n].prev = p /\ chained[n].committed = blocks[p].committed
  /\ chained[n].entries = Survivors(p, b) /\ chained[n].num = Len(Survivors(p, b))
  /\ chained[n].order = BlockOrder(Len(Survivors(p, b)))

CopyOn(p, b) ==
  Append(CutUnder(blocks, p, b),
         [blocks[p] EXCEPT !.creation = b, !.prev = p, !.num = Len(Survivors(p, b)),
                           !.order = BlockOrder(Len(Survivors(p, b))), !.entries = Survivors(p, b)])
CopyFits(chained, p, b) ==
  /\ chained \in Seq(BlockRec) /\ Len(chained) <= MaxBlock /\ Older(chained)
  /\ DOMAIN chained = DOMAIN blocks \cup {Len(blocks) + 1}
  /\ CutAt(chained, p, b) /\ Copied(chained, Len(blocks) + 1, p, b)

LEMMA CopyDoes ==
  ASSUME Types, OlderInv, NEW p \in DOMAIN blocks, NEW b \in Nat, Len(blocks) < MaxBlock
  PROVE  CopyFits(CopyOn(p, b), p, b)
PROOF
<1>1. /\ blocks \in Seq(BlockRec) /\ Older(blocks) /\ DOMAIN blocks = 1 .. Len(blocks) /\ Len(blocks) \in Nat
      /\ MaxBlock \in Nat /\ blocks[p] \in BlockRec /\ p \in Nat /\ p \in 1 .. Len(blocks)
  BY EdgesAssumption, BlockFields DEF Types, OlderInv
<1>2. PICK cut : cut = CutUnder(blocks, p, b)
  OBVIOUS
<1>3. /\ cut \in Seq(BlockRec) /\ Len(cut) = Len(blocks) /\ DOMAIN cut = DOMAIN blocks
      /\ \A q \in DOMAIN blocks :
           /\ cut[q].prev = (IF q = Cut(blocks, p, b) THEN NULLPOINTER ELSE blocks[q].prev)
           /\ cut[q].creation = blocks[q].creation /\ cut[q].committed = blocks[q].committed
           /\ cut[q].num = blocks[q].num /\ cut[q].order = blocks[q].order /\ cut[q].entries = blocks[q].entries
  BY <1>1, <1>2, CutBlocks
<1>4. PICK kept : kept = Survivors(p, b) /\ kept \in Seq(EntryRec) /\ Len(kept) \in Nat
  <2>1. Survivors(p, b) \in Seq(EntryRec)
    BY SurvivorsType
  <2> QED BY <2>1
<1>5. PICK o \in Nat : o = BlockOrder(Len(kept))
  BY <1>4, BlockOrderFits
<1>6. PICK m \in Nat : m = Len(kept)
  BY <1>4
<1>7. PICK new : new = [blocks[p] EXCEPT !.creation = b, !.prev = p, !.num = m, !.order = o, !.entries = kept]
  OBVIOUS
<1>8. /\ new \in BlockRec /\ new.creation = b /\ new.prev = p /\ new.num = m /\ new.order = o /\ new.entries = kept
      /\ new.committed = blocks[p].committed
  <2>1. PICK u : u = blocks[p]
    OBVIOUS
  <2>2. u \in BlockRec /\ b \in Int
    BY <1>1, <2>1
  <2>3. PICK u1 : u1 = [u EXCEPT !.creation = b]
    OBVIOUS
  <2>4. u1 \in BlockRec /\ u1.creation = b /\ u1.committed = u.committed
    BY <2>2, <2>3 DEF BlockRec
  <2>5. PICK u2 : u2 = [u1 EXCEPT !.prev = p]
    OBVIOUS
  <2>6. u2 \in BlockRec /\ u2.creation = b /\ u2.committed = u.committed /\ u2.prev = p
    BY <1>1, <2>4, <2>5 DEF BlockRec
  <2>7. PICK u3 : u3 = [u2 EXCEPT !.num = m]
    OBVIOUS
  <2>8. u3 \in BlockRec /\ u3.creation = b /\ u3.committed = u.committed /\ u3.prev = p /\ u3.num = m
    BY <1>6, <2>6, <2>7 DEF BlockRec
  <2>9. PICK u4 : u4 = [u3 EXCEPT !.order = o]
    OBVIOUS
  <2>10. /\ u4 \in BlockRec /\ u4.creation = b /\ u4.committed = u.committed /\ u4.prev = p /\ u4.num = m
         /\ u4.order = o
    BY <1>5, <2>8, <2>9 DEF BlockRec
  <2>11. PICK u5 : u5 = [u4 EXCEPT !.entries = kept]
    OBVIOUS
  <2>12. /\ u5 \in BlockRec /\ u5.creation = b /\ u5.committed = u.committed /\ u5.prev = p /\ u5.num = m
         /\ u5.order = o /\ u5.entries = kept
    BY <1>4, <2>10, <2>11 DEF BlockRec
  <2>13. new = u5
    BY <1>7, <2>1, <2>3, <2>5, <2>7, <2>9, <2>11
  <2> QED BY <2>1, <2>12, <2>13
<1>9. CopyOn(p, b) = Append(cut, new)
  BY <1>2, <1>4, <1>5, <1>6, <1>7 DEF CopyOn
<1>10. PICK n : n = Len(blocks) + 1
  OBVIOUS
<1>11. PICK s : s = Append(cut, new)
  OBVIOUS
<1>12. /\ s \in Seq(BlockRec) /\ Len(s) = n /\ DOMAIN s = 1 .. n /\ s[n] = new
       /\ \A q \in DOMAIN blocks : q \in DOMAIN s /\ s[q] = cut[q]
  BY <1>3, <1>8, <1>10, <1>11, SeqAdd
<1>13. DOMAIN s = DOMAIN blocks \cup {n} /\ n \in Nat
  BY <1>1, <1>10, <1>12
<1>14. Older(s)
  <2>1. \A q \in DOMAIN blocks : s[q].prev \in 0 .. q - 1
    BY <1>1, <1>3, <1>12 DEF Older
  <2>2. s[n].prev \in 0 .. n - 1
    BY <1>1, <1>8, <1>10, <1>12
  <2> QED BY <1>12, <1>13, <2>1, <2>2 DEF Older
<1>15. CutAt(s, p, b)
  BY <1>3, <1>12 DEF CutAt
<1>16. Copied(s, n, p, b)
  BY <1>4, <1>5, <1>6, <1>8, <1>10, <1>12 DEF Copied
<1>17. Len(s) <= MaxBlock
  BY <1>1, <1>10, <1>12
<1> QED BY <1>9, <1>10, <1>11, <1>12, <1>13, <1>14, <1>15, <1>16, <1>17 DEF CopyFits

PutOn(labs, lb, labs2, l, p, D) ==
  /\ Points(labs, lb, labs2, lb, l, p, D) /\ Len(labs2) = Len(labs)
  /\ DOMAIN labs2[lb].entries = DOMAIN labs[lb].entries
LEMMA LabelPutOn ==
  ASSUME NEW labs \in Seq(LabelRec), Older(labs), NEW lb \in DOMAIN labs, NEW D,
         \A q \in DOMAIN labs : Distinct(labs[q].entries, D),
         NEW i \in DOMAIN labs[lb].entries, NEW p \in Nat, p \in D
  PROVE  PutOn(labs, lb, PutLabel(labs, lb, i, p), labs[lb].entries[i].label, p, D)
PROOF
<1>1. PICK labs2 : labs2 = PutLabel(labs, lb, i, p)
  OBVIOUS
<1>2. PICK l : l = labs[lb].entries[i].label
  OBVIOUS
<1>3. /\ Points(labs, lb, PutLabel(labs, lb, i, p), lb, labs[lb].entries[i].label, p, D)
      /\ Len(PutLabel(labs, lb, i, p)) = Len(labs)
      /\ DOMAIN PutLabel(labs, lb, i, p)[lb].entries = DOMAIN labs[lb].entries
  BY LabelPut
<1>4. PutOn(labs, lb, labs2, l, p, D)
  BY <1>1, <1>2, <1>3 DEF PutOn
<1> QED BY <1>1, <1>2, <1>4

LEMMA CompactLabelDoes ==
  ASSUME Basic, NEW c \in Client, NEW i \in compaction[c].todo, CompactLabel(c, i)
  PROVE  /\ pc[c] = "compact" /\ pc' = pc
         /\ UNCHANGED <<visible, sealed, stage, transaction_id, vertex_futex, txn, scan, committed, edge_label_ptr, freedLabels>>
         /\ compaction' \in [Client -> CompactionRec] /\ \A d \in Client \ {c} : compaction'[d] = compaction[d]
         /\ compaction'[c].bound = compaction[c].bound /\ compaction'[c].resume = compaction[c].resume
         /\ compaction'[c].todo = compaction[c].todo \ {i}
         /\ blocks' \in Seq(BlockRec) /\ Len(blocks') <= MaxBlock /\ Len(blocks) <= Len(blocks')
         /\ labels' \in Seq(LabelRec) /\ Len(labels') = Len(labels) /\ edge_label_ptr \in DOMAIN labels
         /\ \A q \in DOMAIN labels : labels'[q].prev = labels[q].prev /\ labels'[q].creation = labels[q].creation
         /\ DOMAIN labels'[edge_label_ptr].entries = DOMAIN labels[edge_label_ptr].entries
         /\ LabelsFit(labels) => LabelsFit(labels')
         /\ OlderInv' /\ LabelsInv' /\ TailInv'
         /\ \E p \in DOMAIN blocks, l \in AnyLabel :
              /\ p = HeadOf(l) /\ CutAt(blocks', p, compaction[c].bound)
              /\ freed' = freed \cup Garbage(blocks, p, compaction[c].bound)
              /\ \/ DOMAIN blocks' = DOMAIN blocks /\ labels' = labels
                 \/ /\ Copied(blocks', Len(blocks) + 1, p, compaction[c].bound)
                    /\ DOMAIN blocks' = DOMAIN blocks \cup {Len(blocks) + 1}
                    /\ HeadOf(l)' = Len(blocks) + 1 /\ \A k : k # l => HeadOf(k)' = HeadOf(k)
PROOF
<1>0. /\ Types /\ OlderInv /\ LabelsInv /\ TailInv /\ RefsOf(c)
  BY DEF Basic, RefsInv
<1>1. PICK b, p, kept, lb : b = compaction[c].bound /\ lb = edge_label_ptr
                            /\ p = labels[lb].entries[i].ptr /\ kept = Survivors(p, b)
  OBVIOUS
<1>2. PICK r : r = [compaction[c] EXCEPT !.todo = @ \ {i},
                      !.again = @ \/ Len(kept) # blocks[p].num \/ NeedsFuture(blocks, p, b)]
  OBVIOUS
<1>3. /\ pc[c] = "compact" /\ Compacting(c, "compact", r)
      /\ UNCHANGED <<vertex_futex, edge_label_ptr, freedLabels, compact_table, compacts>>
      /\ IF Len(kept) = blocks[p].num
         THEN /\ blocks' = CutUnder(blocks, p, b) /\ freed' = freed \cup Garbage(blocks, p, b) /\ UNCHANGED labels
         ELSE /\ Len(blocks) < MaxBlock
              /\ CopyBlock(c, i, p, kept)
  BY <1>1, <1>2 DEF CompactLabel
<1>4. /\ UNCHANGED <<visible, sealed, stage, transaction_id, vertex_futex, txn, scan, committed, edge_label_ptr, freedLabels>>
      /\ pc' = [pc EXCEPT ![c] = "compact"] /\ compaction' = [compaction EXCEPT ![c] = r]
  BY <1>3 DEF Compacting, Goto, epochsVars
<1>5. /\ labels \in Seq(LabelRec) /\ Older(labels) /\ lb \in 0 .. Len(labels) /\ DOMAIN labels = 1 .. Len(labels)
      /\ blocks \in Seq(BlockRec) /\ Older(blocks) /\ Len(labels) \in Nat /\ Len(blocks) \in Nat
      /\ DOMAIN blocks = 1 .. Len(blocks) /\ Len(blocks) <= MaxBlock
      /\ pc \in [Client -> Place] /\ compaction \in [Client -> CompactionRec]
  BY <1>0, <1>1 DEF Types, OlderInv
<1>6. pc' = pc
  BY <1>3, <1>4, <1>5
<1>7. lb \in DOMAIN labels /\ i \in DOMAIN labels[lb].entries
  <2>1. compaction[c].todo \subseteq (IF lb = NULLPOINTER THEN {} ELSE DOMAIN labels[lb].entries)
    BY <1>0, <1>1, <1>3 DEF RefsOf
  <2>2. lb # NULLPOINTER
    BY <2>1
  <2> QED BY <1>5, <2>1, <2>2
<1>8. \A q \in DOMAIN labels : Distinct(labels[q].entries, DOMAIN blocks)
  BY <1>0, HeadsAre
<1>9. p \in DOMAIN blocks /\ p \in Nat
  <2>1. p \in DOMAIN blocks
    BY <1>0, <1>1, <1>7 DEF LabelsInv
  <2> QED BY <1>5, <2>1
<1>10. PICK l \in AnyLabel : l = labels[lb].entries[i].label
  <2>1. PICK e : e = labels[lb].entries
    OBVIOUS
  <2>2. e \in Seq([label : AnyLabel, ptr : Nat])
    BY <1>0, <1>7, <2>1, LabelFields
  <2>3. e[i] \in [label : AnyLabel, ptr : Nat]
    <3>1. e \in [1 .. Len(e) -> [label : AnyLabel, ptr : Nat]] /\ DOMAIN e = 1 .. Len(e)
      BY <2>2, SeqOut
    <3>2. i \in DOMAIN e
      BY <1>7, <2>1
    <3> QED BY <3>1, <3>2
  <2>4. e[i].label \in AnyLabel
    BY <2>3
  <2> QED BY <2>1, <2>4
<1>11. p = HeadOf(l)
  <2>1. EntryPtr(labels[lb].entries, labels[lb].entries[i].label) = labels[lb].entries[i].ptr
    BY <1>7, <1>8, EntryAt
  <2>2. lb # NULLPOINTER
    BY <1>5, <1>7
  <2>3. Heads(labels, lb, l) = p
    BY <1>1, <1>10, <2>1, <2>2 DEF Heads
  <2> QED BY <1>1, <2>3, HeadsAre
<1>12. b \in Nat /\ compaction[c] \in CompactionRec
  <2>1. compaction[c] \in CompactionRec
    BY <1>5
  <2> QED BY <1>1, <2>1 DEF CompactionRec
<1>13. r \in CompactionRec /\ r.bound = b /\ r.resume = compaction[c].resume /\ r.todo = compaction[c].todo \ {i}
  <2>1. NeedsFuture(blocks, p, b) \in BOOLEAN
    BY DEF NeedsFuture, Before
  <2>2. PICK z \in BOOLEAN : z = (compaction[c].again \/ Len(kept) # blocks[p].num \/ NeedsFuture(blocks, p, b))
    OBVIOUS
  <2>3. PICK S : S = compaction[c].todo \ {i}
    OBVIOUS
  <2>4. S \subseteq Nat
    BY <1>12, <2>3 DEF CompactionRec
  <2>5. r = [compaction[c] EXCEPT !.todo = S, !.again = z]
    BY <1>2, <2>2, <2>3
  <2>6. r \in CompactionRec /\ r.bound = compaction[c].bound /\ r.resume = compaction[c].resume /\ r.todo = S
    BY <1>12, <2>4, <2>5 DEF CompactionRec
  <2> QED BY <1>1, <2>3, <2>6
<1>14. /\ compaction' \in [Client -> CompactionRec] /\ \A d \in Client \ {c} : compaction'[d] = compaction[d]
       /\ compaction'[c].bound = compaction[c].bound /\ compaction'[c].resume = compaction[c].resume
       /\ compaction'[c].todo = compaction[c].todo \ {i}
  BY <1>1, <1>4, <1>5, <1>13
<1>15. CASE Len(kept) = blocks[p].num
  <2>1. blocks' = CutUnder(blocks, p, b) /\ freed' = freed \cup Garbage(blocks, p, b) /\ labels' = labels
    BY <1>3, <1>15
  <2>2. PICK cut : cut = CutUnder(blocks, p, b)
    OBVIOUS
  <2>3. /\ cut \in Seq(BlockRec) /\ Len(cut) = Len(blocks) /\ DOMAIN cut = DOMAIN blocks
        /\ \A q \in DOMAIN blocks :
             /\ cut[q].prev = (IF q = Cut(blocks, p, b) THEN NULLPOINTER ELSE blocks[q].prev)
             /\ cut[q].creation = blocks[q].creation /\ cut[q].committed = blocks[q].committed
             /\ cut[q].num = blocks[q].num /\ cut[q].order = blocks[q].order /\ cut[q].entries = blocks[q].entries
    BY <1>5, <2>2, CutBlocks
  <2>4. blocks' = cut
    BY <2>1, <2>2
  <2>5. CutAt(blocks', p, b)
    BY <2>3, <2>4 DEF CutAt
  <2>6. Older(blocks)'
    <3>1. \A q \in DOMAIN blocks : cut[q].prev \in 0 .. q - 1
      BY <1>5, <2>3 DEF Older
    <3> QED BY <1>5, <2>3, <2>4, <3>1 DEF Older
  <2>7. OlderInv' /\ LabelsInv' /\ TailInv'
    <3>1. Older(labels)'
      BY <1>5, <2>1 DEF Older
    <3>2. LabelsInv'
      BY <1>0, <2>1, <2>3, <2>4 DEF LabelsInv
    <3>3. TailInv'
      BY <1>0, <2>3, <2>4 DEF TailInv
    <3> QED BY <2>6, <3>1, <3>2, <3>3 DEF OlderInv
  <2>8. Len(blocks') <= MaxBlock /\ Len(blocks) <= Len(blocks')
    BY <1>5, <2>3, <2>4
  <2>9. LabelsFit(labels) => LabelsFit(labels')
    BY <2>1
  <2>10. DOMAIN labels'[edge_label_ptr].entries = DOMAIN labels[edge_label_ptr].entries /\ edge_label_ptr \in DOMAIN labels
    BY <1>1, <1>7, <2>1
  <2>11. \E q \in DOMAIN blocks, k \in AnyLabel :
              /\ q = HeadOf(k) /\ CutAt(blocks', q, compaction[c].bound)
              /\ freed' = freed \cup Garbage(blocks, q, compaction[c].bound)
              /\ DOMAIN blocks' = DOMAIN blocks /\ labels' = labels
    BY <1>1, <1>9, <1>10, <1>11, <2>1, <2>3, <2>4, <2>5
  <2> QED BY <1>3, <1>4, <1>5, <1>6, <1>14, <2>1, <2>3, <2>4, <2>7, <2>8, <2>9, <2>10, <2>11
<1>16. CASE Len(kept) # blocks[p].num
  <2>1. /\ Len(blocks) < MaxBlock
        /\ CopyBlock(c, i, p, kept)
    BY <1>3, <1>10, <1>16
  <2>2. PICK s : s = CopyOn(p, b)
    OBVIOUS
  <2>3. PICK n : n = Len(blocks) + 1
    OBVIOUS
  <2>4. /\ blocks' = s /\ labels' = PutLabel(labels, lb, i, n) /\ freed' = freed \cup Garbage(blocks, p, b)
    BY <1>1, <2>1, <2>2, <2>3 DEF CopyBlock, PutLabel, CopyOn
  <2>5. /\ s \in Seq(BlockRec) /\ Len(s) <= MaxBlock /\ Older(s) /\ DOMAIN s = DOMAIN blocks \cup {n}
        /\ CutAt(s, p, b) /\ Copied(s, n, p, b)
    <3>1. CopyFits(CopyOn(p, b), p, b)
      BY <1>0, <1>9, <1>12, <2>1, CopyDoes
    <3> QED BY <2>2, <2>3, <3>1 DEF CopyFits
  <2>6. PICK D : D = DOMAIN s
    OBVIOUS
  <2>7. n \in Nat /\ n \in D /\ \A q \in DOMAIN labels : Distinct(labels[q].entries, D)
    <3>1. DOMAIN blocks \subseteq D
      BY <2>5, <2>6
    <3> QED BY <1>5, <1>8, <2>3, <2>5, <2>6, <3>1 DEF Distinct
  <2>8. PICK labs : labs = PutLabel(labels, lb, i, n)
    OBVIOUS
  <2>9. /\ Points(labels, lb, labs, lb, labels[lb].entries[i].label, n, D) /\ Len(labs) = Len(labels)
        /\ DOMAIN labs[lb].entries = DOMAIN labels[lb].entries
    <3>1. PutOn(labels, lb, PutLabel(labels, lb, i, n), labels[lb].entries[i].label, n, D)
      BY <1>5, <1>7, <2>7, LabelPutOn
    <3>2. PutOn(labels, lb, labs, labels[lb].entries[i].label, n, D)
      BY <2>8, <3>1
    <3> QED BY <3>2 DEF PutOn
  <2>10. /\ labs \in Seq(LabelRec) /\ Older(labs)
         /\ \A q \in DOMAIN labels : labs[q].prev = labels[q].prev /\ labs[q].creation = labels[q].creation
         /\ \A q \in DOMAIN labs : Distinct(labs[q].entries, D)
         /\ Heads(labs, lb, l) = n
         /\ \A k : k # l => Heads(labs, lb, k) = Heads(labels, lb, k)
         /\ LabelsFit(labels) => LabelsFit(labs)
    BY <1>10, <2>9 DEF Points
  <2>11. labels' = labs
    BY <2>4, <2>8
  <2>12. HeadOf(l)' = n /\ \A k : k # l => HeadOf(k)' = HeadOf(k)
    <3>1. HeadOf(l)' = Heads(labels', edge_label_ptr', l)
      BY HeadsAre
    <3>2. \A k : HeadOf(k)' = Heads(labels', edge_label_ptr', k) /\ HeadOf(k) = Heads(labels, edge_label_ptr, k)
      BY HeadsAre
    <3> QED BY <1>1, <1>4, <2>10, <2>11, <3>1, <3>2
  <2>13. OlderInv' /\ LabelsInv' /\ TailInv'
    <3>1. Older(labels)'
      BY <2>10, <2>11 DEF Older
    <3>2. Older(blocks)'
      BY <2>4, <2>5 DEF Older
    <3>3. LabelsInv'
      BY <2>4, <2>6, <2>10, <2>11, HeadsAre
    <3>4. TailInv'
      <4>1. ASSUME NEW q \in DOMAIN s PROVE s[q].num <= Len(s[q].entries)
        <5>1. CASE q = n
          <6>1. Survivors(p, b) \in Seq(EntryRec)
            BY <1>0, <1>9, SurvivorsType
          <6>2. Len(Survivors(p, b)) \in Nat
            BY <6>1
          <6> QED BY <2>5, <5>1, <6>2 DEF Copied
        <5>2. CASE q \in DOMAIN blocks
          BY <1>0, <2>5, <5>2 DEF CutAt, TailInv
        <5> QED BY <2>5, <5>1, <5>2
      <4> QED BY <2>4, <4>1 DEF TailInv
    <3> QED BY <3>1, <3>2, <3>3, <3>4 DEF OlderInv
  <2>14. Len(blocks') <= MaxBlock /\ Len(blocks) <= Len(blocks')
    BY <1>5, <2>3, <2>4, <2>5 DEF Copied
  <2>15. DOMAIN labels'[edge_label_ptr].entries = DOMAIN labels[edge_label_ptr].entries /\ edge_label_ptr \in DOMAIN labels
    BY <1>1, <1>7, <2>9, <2>11
  <2>16. \E q \in DOMAIN blocks, k \in AnyLabel :
              /\ q = HeadOf(k) /\ CutAt(blocks', q, compaction[c].bound)
              /\ freed' = freed \cup Garbage(blocks, q, compaction[c].bound)
              /\ Copied(blocks', Len(blocks) + 1, q, compaction[c].bound)
              /\ DOMAIN blocks' = DOMAIN blocks \cup {Len(blocks) + 1}
              /\ HeadOf(k)' = Len(blocks) + 1 /\ \A o : o # k => HeadOf(o)' = HeadOf(o)
    <3>1. /\ p = HeadOf(l) /\ CutAt(blocks', p, compaction[c].bound)
          /\ freed' = freed \cup Garbage(blocks, p, compaction[c].bound)
          /\ Copied(blocks', Len(blocks) + 1, p, compaction[c].bound)
          /\ DOMAIN blocks' = DOMAIN blocks \cup {Len(blocks) + 1}
          /\ HeadOf(l)' = Len(blocks) + 1 /\ \A o : o # l => HeadOf(o)' = HeadOf(o)
      BY <1>1, <1>11, <2>1, <2>3, <2>4, <2>5, <2>12
    <3> QED BY <1>9, <3>1
  <2> QED BY <1>3, <1>4, <1>6, <1>14, <2>4, <2>5, <2>9, <2>10, <2>11, <2>13, <2>14, <2>15, <2>16
<1> QED BY <1>15, <1>16

LEMMA CompactLabelKeeps ==
  ASSUME Basic, CommitsInv, NEW c \in Client, NEW i \in compaction[c].todo, CompactLabel(c, i)
  PROVE  Basic' /\ CommitsInv' /\ committed' = committed
PROOF
<1>0. /\ Types /\ OlderInv /\ LabelsInv /\ TailInv /\ RefsOf(c) /\ CommittedInv /\ PlaceOf(c) /\ BoundOf(c)
  BY DEF Basic, RefsInv, PlaceInv, CommitsInv, BoundInv
<1>1. PICK b : b = compaction[c].bound
  OBVIOUS
<1>2. /\ pc[c] = "compact" /\ pc' = pc
      /\ UNCHANGED <<visible, sealed, stage, transaction_id, vertex_futex, txn, scan, committed, edge_label_ptr, freedLabels>>
      /\ compaction' \in [Client -> CompactionRec] /\ \A d \in Client \ {c} : compaction'[d] = compaction[d]
      /\ compaction'[c].bound = b /\ compaction'[c].resume = compaction[c].resume
      /\ compaction'[c].todo = compaction[c].todo \ {i}
      /\ blocks' \in Seq(BlockRec) /\ Len(blocks') <= MaxBlock /\ Len(blocks) <= Len(blocks')
      /\ labels' \in Seq(LabelRec) /\ Len(labels') = Len(labels) /\ edge_label_ptr \in DOMAIN labels
      /\ DOMAIN labels'[edge_label_ptr].entries = DOMAIN labels[edge_label_ptr].entries
  BY <1>1, CompactLabelDoes
<1>3. OlderInv' /\ LabelsInv' /\ TailInv'
  BY CompactLabelDoes
<1>4. PICK p \in DOMAIN blocks, l \in AnyLabel :
        /\ p = HeadOf(l) /\ CutAt(blocks', p, b)
        /\ \/ DOMAIN blocks' = DOMAIN blocks /\ labels' = labels
           \/ /\ Copied(blocks', Len(blocks) + 1, p, b)
              /\ DOMAIN blocks' = DOMAIN blocks \cup {Len(blocks) + 1}
              /\ HeadOf(l)' = Len(blocks) + 1 /\ \A k : k # l => HeadOf(k)' = HeadOf(k)
  <2>1. \E p \in DOMAIN blocks, l \in AnyLabel :
              /\ p = HeadOf(l) /\ CutAt(blocks', p, compaction[c].bound)
              /\ freed' = freed \cup Garbage(blocks, p, compaction[c].bound)
              /\ \/ DOMAIN blocks' = DOMAIN blocks /\ labels' = labels
                 \/ /\ Copied(blocks', Len(blocks) + 1, p, compaction[c].bound)
                    /\ DOMAIN blocks' = DOMAIN blocks \cup {Len(blocks) + 1}
                    /\ HeadOf(l)' = Len(blocks) + 1 /\ \A k : k # l => HeadOf(k)' = HeadOf(k)
    BY CompactLabelDoes
  <2> QED BY <1>1, <2>1
<1>5. Alone(c)
  BY <1>2 DEF Alone, Same
<1>6. Holds(c) /\ ~Installing(c) /\ ~Open(c)' /\ ~Writer(c)' /\ ~Installing(c)'
  BY <1>2 DEF Holds, Installing, Open, Writer, InScan
<1>7. LockInv'
  BY <1>2, <1>5, <1>6, LockKept
<1>8. Types'
  BY <1>0, <1>2 DEF Types, EpochInv
<1>9. PlaceOf(c)'
  BY <1>0, <1>2 DEF PlaceOf, Bare, Open, Writer
<1>10. RefsOf(c)'
  <2>1. (pc[c] = "compact" =>
       compaction[c].todo \subseteq (IF edge_label_ptr = NULLPOINTER THEN {} ELSE DOMAIN labels[edge_label_ptr].entries))'
    BY <1>0, <1>2 DEF RefsOf
  <2>2. (scan[c].ptr <= Len(blocks) /\ scan[c].lb <= Len(labels))'
    <3>1. scan[c].ptr \in Nat
      BY <1>0 DEF Types, IsScan
    <3>2. Len(blocks) \in Nat /\ Len(blocks') \in Nat
      BY <1>0, <1>2 DEF Types
    <3> QED BY <1>0, <1>2, <3>1, <3>2 DEF RefsOf
  <2> QED BY <1>6, <2>1, <2>2 DEF RefsOf
<1>11. Len(labels) <= Len(labels')
  BY <1>0, <1>2 DEF Types
<1>12. visible' = visible /\ sealed' = sealed /\ transaction_id' = transaction_id /\ txn'[c].read = txn[c].read
  BY <1>2
<1>13. Basic'
  BY <1>2, <1>3, <1>5, <1>6, <1>7, <1>8, <1>9, <1>10, <1>11, <1>12, HolderBasic
<1>14. TopsOf(c)' /\ PendOf(c)' /\ TailsOf(c)' /\ InstallOf(c)'
  <2>1. pc'[c] # "install"
    BY <1>2
  <2> QED BY <1>6, <2>1 DEF TopsOf, PendOf, TailsOf, InstallOf
<1>15. Old(b) /\ Old(b)' /\ b \in Nat
  <2>1. Old(b)
    BY <1>0, <1>1, <1>2 DEF BoundOf
  <2>2. compaction[c] \in CompactionRec
    BY <1>0 DEF Types
  <2>3. b \in Nat
    BY <1>1, <2>2 DEF CompactionRec
  <2>4. Old(b)'
    BY <1>2, <2>1 DEF Old, Active
  <2> QED BY <2>1, <2>3, <2>4
<1>16. BoundOf(c)'
  BY <1>2, <1>15 DEF BoundOf, Old
<1>17. /\ \A d \in Client : ~Installing(d)
       /\ \A k \in AnyLabel : HeadOf(k) # NULLPOINTER => HeadOf(k) \in DOMAIN blocks /\ Steady(HeadOf(k))
       /\ \A x \in committed :
            /\ x.label \in AnyLabel /\ HeadOf(x.label) # NULLPOINTER /\ x.epoch <= blocks[HeadOf(x.label)].committed
            /\ x.epoch <= sealed
  BY <1>6, AllSettled
<1>18. \A d \in Client : ~Installing(d)'
  BY <1>6, <1>5, <1>12, OthersCommit
<1>19. \A q \in DOMAIN blocks :
         q \in DOMAIN blocks' /\ blocks'[q].creation = blocks[q].creation /\ blocks'[q].committed = blocks[q].committed
  BY <1>4 DEF CutAt
<1>20. ASSUME NEW q \in DOMAIN blocks, Steady(q) PROVE Steady(q)'
  <2>1. blocks'[q].creation = blocks[q].creation /\ blocks'[q].committed = blocks[q].committed
    BY <1>19
  <2> QED BY <1>2, <1>20, <2>1 DEF Steady, Old, Active
<1>21. ASSUME DOMAIN blocks' = DOMAIN blocks, labels' = labels
       PROVE  CommittedInv' /\ SettledInv' /\ CommitInv'
  <2>1. \A k : HeadOf(k)' = HeadOf(k)
    BY <1>2, <1>21, HeadsAre
  <2>2. CommittedInv'
    BY <1>0, <1>2, <1>19, <1>21 DEF CommittedInv
  <2>3. SettledInv'
    <3> SUFFICES ASSUME NEW k \in AnyLabel, HeadOf(k)' # NULLPOINTER PROVE Steady(HeadOf(k))'
      BY DEF SettledInv
    <3>1. PICK q : q = HeadOf(k) /\ HeadOf(k)' = q /\ q # NULLPOINTER
      BY <2>1
    <3>2. Steady(q) /\ q \in DOMAIN blocks
      BY <1>17, <3>1
    <3>3. Steady(q)'
      BY <1>20, <3>2
    <3> QED BY <3>1, <3>3 DEF Steady
  <2>4. CommitInv'
    <3> SUFFICES ASSUME NEW x \in committed PROVE CommitOf(x)'
      BY <1>2 DEF CommitInv
    <3>1. PICK q : q = HeadOf(x.label) /\ HeadOf(x.label)' = q
      BY <2>1
    <3>2. q \in DOMAIN blocks /\ q # NULLPOINTER
      BY <1>17, <3>1
    <3>3. x.epoch <= blocks'[q].committed /\ x.epoch <= sealed'
      BY <1>2, <1>17, <1>19, <3>1, <3>2
    <3> QED BY <1>18, <3>1, <3>2, <3>3 DEF CommitOf
  <2> QED BY <2>2, <2>3, <2>4
<1>22. ASSUME Copied(blocks', Len(blocks) + 1, p, b), DOMAIN blocks' = DOMAIN blocks \cup {Len(blocks) + 1},
              HeadOf(l)' = Len(blocks) + 1, \A k : k # l => HeadOf(k)' = HeadOf(k)
       PROVE  CommittedInv' /\ SettledInv' /\ CommitInv'
  <2>0. PICK n : n = Len(blocks) + 1
    OBVIOUS
  <2>1. n # NULLPOINTER /\ n \in DOMAIN blocks' /\ blocks'[n].creation = b /\ blocks'[n].committed = blocks[p].committed
    BY <1>0, <1>22, <2>0 DEF Copied, Types
  <2>2. Steady(n)'
    BY <1>15, <2>1 DEF Steady
  <2>3. CommittedInv'
    <3>1. ASSUME NEW q \in DOMAIN blocks' PROVE blocks'[q].committed <= sealed
      <4>1. CASE q \in DOMAIN blocks
        BY <1>0, <1>19, <4>1 DEF CommittedInv
      <4>2. CASE q = n
        BY <1>0, <2>1, <4>2 DEF CommittedInv
      <4> QED BY <1>22, <2>0, <4>1, <4>2
    <3> QED BY <1>2, <3>1 DEF CommittedInv
  <2>4. SettledInv'
    <3> SUFFICES ASSUME NEW k \in AnyLabel, HeadOf(k)' # NULLPOINTER PROVE Steady(HeadOf(k))'
      BY DEF SettledInv
    <3>1. CASE k = l
      BY <1>22, <2>0, <2>2, <3>1 DEF Steady
    <3>2. CASE k # l
      <4>1. PICK q : q = HeadOf(k) /\ HeadOf(k)' = q /\ q # NULLPOINTER
        BY <1>22, <3>2
      <4>2. Steady(q) /\ q \in DOMAIN blocks
        BY <1>17, <4>1
      <4>3. Steady(q)'
        BY <1>20, <4>2
      <4> QED BY <4>1, <4>3 DEF Steady
    <3> QED BY <3>1, <3>2
  <2>5. CommitInv'
    <3> SUFFICES ASSUME NEW x \in committed PROVE CommitOf(x)'
      BY <1>2 DEF CommitInv
    <3>0. x.epoch <= sealed' /\ HeadOf(x.label) # NULLPOINTER /\ x.epoch <= blocks[HeadOf(x.label)].committed
          /\ HeadOf(x.label) \in DOMAIN blocks
      BY <1>2, <1>17
    <3>1. CASE x.label = l
      <4>1. HeadOf(x.label)' = n
        BY <1>22, <2>0, <3>1
      <4>2. x.epoch <= blocks'[n].committed
        BY <1>4, <2>1, <3>0, <3>1
      <4> QED BY <1>18, <2>1, <3>0, <4>1, <4>2 DEF CommitOf
    <3>2. CASE x.label # l
      <4>1. PICK q : q = HeadOf(x.label) /\ HeadOf(x.label)' = q
        BY <1>22, <3>2
      <4>2. q # NULLPOINTER /\ x.epoch <= blocks'[q].committed
        BY <1>19, <3>0, <4>1
      <4> QED BY <1>18, <3>0, <4>1, <4>2 DEF CommitOf
    <3> QED BY <3>1, <3>2
  <2> QED BY <2>3, <2>4, <2>5
<1>23. CommittedInv' /\ SettledInv' /\ CommitInv'
  <2>1. \/ DOMAIN blocks' = DOMAIN blocks /\ labels' = labels
        \/ /\ Copied(blocks', Len(blocks) + 1, p, b) /\ DOMAIN blocks' = DOMAIN blocks \cup {Len(blocks) + 1}
           /\ HeadOf(l)' = Len(blocks) + 1 /\ \A k : k # l => HeadOf(k)' = HeadOf(k)
    BY <1>4
  <2> QED BY <1>21, <1>22, <2>1
<1>24. CommitsInv'
  BY <1>5, <1>6, <1>12, <1>14, <1>16, <1>23, HolderCommit
<1> QED BY <1>2, <1>13, <1>24

-----------------------------------------------------------------------------
(* The initial states *)

LoadedFits(b) ==
  /\ b \in BlockRec /\ b.creation = 0 /\ b.prev = NULLPOINTER /\ b.committed = 0 /\ b.num = Len(b.entries)
  /\ 48 + Len(b.entries) * EntrySize + Filter(b.order) <= Bytes[b.order]
  /\ \A i \in DOMAIN b.entries :
       /\ b.entries[i].dst \in AllDst /\ b.entries[i].creation = 0 /\ b.entries[i].data = 0
       /\ b.entries[i].deletion \in {0, ROLLBACK_TOMBSTONE}

Removed(edges, j) == IF \E k \in DOMAIN edges : k > j /\ edges[k] = edges[j] THEN 0 ELSE ROLLBACK_TOMBSTONE
Deleted(e, x) == [e EXCEPT !.deletion = x]
LoadedEntries(edges) == [j \in DOMAIN edges |-> Deleted(Entry(edges[j], 0, 0), Removed(edges, j))]

LEMMA LoadedDoes ==
  ASSUME NEW i \in DOMAIN LoadedLabels
  PROVE  LoadedFits(LoadedBlock(LoadedEdges[LoadedLabels[i]]))
PROOF
<1>1. PICK edges : edges = LoadedEdges[LoadedLabels[i]]
  OBVIOUS
<1>2. LoadedLabels[i] \in Members(LoadedLabels)
  BY DEF Members
<1>3. edges \in Seq(Members(edges))
  BY <1>1, <1>2, LoadedAssumption
<1>4. Members(edges) \subseteq AllDst
  BY <1>1, <1>2 DEF AllDst
<1>5. DOMAIN edges = 1 .. Len(edges) /\ Len(edges) \in Nat
  BY <1>3
<1>6. PICK s : s = LoadedEntries(edges)
  OBVIOUS
<1>7. ASSUME NEW j \in DOMAIN edges
      PROVE  /\ s[j] \in EntryRec /\ s[j].dst \in AllDst /\ s[j].creation = 0 /\ s[j].data = 0
             /\ s[j].deletion \in {0, ROLLBACK_TOMBSTONE}
  <2>1. PICK x \in {0, ROLLBACK_TOMBSTONE} : x = Removed(edges, j)
    BY DEF Removed
  <2>2. edges[j] \in AllDst
    BY <1>4 DEF Members
  <2>3. PICK e : e = Entry(edges[j], 0, 0)
    OBVIOUS
  <2>4. e \in EntryRec /\ e.dst = edges[j] /\ e.creation = 0 /\ e.data = 0
    BY <2>2, <2>3, EntryType
  <2>5. s[j] = Deleted(e, x)
    BY <1>6, <2>1, <2>3 DEF LoadedEntries
  <2>6. x \in Int
    BY <2>1
  <2>7. PICK e2 : e2 = Deleted(e, x)
    OBVIOUS
  <2>8. e2 \in EntryRec /\ e2.deletion = x /\ e2.dst = e.dst /\ e2.creation = e.creation /\ e2.data = e.data
    BY <2>4, <2>6, <2>7, EntryDel DEF Deleted
  <2> QED BY <2>1, <2>2, <2>4, <2>5, <2>7, <2>8
<1>8. DOMAIN s = 1 .. Len(edges)
  BY <1>5, <1>6 DEF LoadedEntries
<1>9. s \in Seq(EntryRec) /\ Len(s) = Len(edges)
  <2>1. s \in [1 .. Len(edges) -> EntryRec]
    <3>1. s = [j \in 1 .. Len(edges) |-> s[j]]
      BY <1>5, <1>6 DEF LoadedEntries
    <3> QED BY <1>5, <1>7, <3>1
  <2> QED BY <1>5, <2>1, SeqIn
<1>10. PICK o \in Nat : o = BlockOrder(Len(edges)) /\ 48 + Len(edges) * EntrySize + Filter(o) <= Bytes[o]
  BY <1>5, BlockOrderFits
<1>11. PICK b : b = [creation |-> 0, prev |-> NULLPOINTER, committed |-> 0, num |-> Len(edges), order |-> o, entries |-> s]
  OBVIOUS
<1>12. LoadedBlock(edges) = b
  BY <1>6, <1>10, <1>11 DEF LoadedBlock, LoadedEntries, Deleted, Removed
<1>13. /\ b.creation = 0 /\ b.prev = NULLPOINTER /\ b.committed = 0 /\ b.num = Len(edges) /\ b.order = o /\ b.entries = s
  BY <1>11
<1>14. b \in BlockRec
  BY <1>5, <1>9, <1>10, <1>11 DEF BlockRec
<1>15. 48 + Len(b.entries) * EntrySize + Filter(b.order) <= Bytes[b.order]
  BY <1>9, <1>10, <1>13
<1>16. \A j \in DOMAIN b.entries :
       /\ b.entries[j].dst \in AllDst /\ b.entries[j].creation = 0 /\ b.entries[j].data = 0
       /\ b.entries[j].deletion \in {0, ROLLBACK_TOMBSTONE}
  BY <1>5, <1>7, <1>8, <1>13
<1> QED BY <1>1, <1>9, <1>12, <1>13, <1>14, <1>15, <1>16 DEF LoadedFits

LEMMA InitStore ==
  ASSUME Init
  PROVE  /\ blocks \in Seq(BlockRec) /\ Len(blocks) = Len(LoadedLabels) /\ DOMAIN blocks = DOMAIN LoadedLabels
         /\ \A p \in DOMAIN blocks : LoadedFits(blocks[p])
         /\ labels \in Seq(LabelRec) /\ edge_label_ptr \in 0 .. Len(labels)
         /\ LabelsFit(labels) /\ OlderInv /\ LabelsInv
         /\ \A q \in DOMAIN labels : labels[q].creation = 0
         /\ \A i \in DOMAIN LoadedLabels : HeadOf(LoadedLabels[i]) = i
PROOF
<1>1. /\ LoadedLabels \in Seq(Members(LoadedLabels)) /\ DOMAIN LoadedLabels = 1 .. Len(LoadedLabels)
      /\ Len(LoadedLabels) \in Nat
  BY LoadedAssumption
<1>2. blocks = [i \in DOMAIN LoadedLabels |-> LoadedBlock(LoadedEdges[LoadedLabels[i]])]
  BY DEF Init
<1>3. \A i \in DOMAIN LoadedLabels : LoadedFits(blocks[i])
  BY <1>2, LoadedDoes
<1>4. blocks \in Seq(BlockRec) /\ Len(blocks) = Len(LoadedLabels)
  <2>1. \A i \in DOMAIN LoadedLabels : blocks[i] \in BlockRec
    BY <1>3 DEF LoadedFits
  <2>2. blocks = [i \in 1 .. Len(LoadedLabels) |-> blocks[i]]
    BY <1>1, <1>2
  <2>3. blocks \in [1 .. Len(LoadedLabels) -> BlockRec]
    BY <1>1, <2>1, <2>2
  <2> QED BY <1>1, <2>3, SeqIn
<1>5. DOMAIN blocks = DOMAIN LoadedLabels
  BY <1>2
<1>6. Older(blocks)
  BY <1>1, <1>3, <1>4, <1>5 DEF Older, LoadedFits
<1>7. CASE LoadedLabels = <<>>
  <2>1. labels = <<>> /\ edge_label_ptr = NULLPOINTER /\ DOMAIN LoadedLabels = {}
    BY <1>7 DEF Init
  <2>2. labels \in Seq(LabelRec) /\ Len(labels) = 0 /\ DOMAIN labels = {}
    BY <2>1
  <2>3. Older(labels) /\ LabelsFit(labels) /\ LabelsInv
    BY <2>2 DEF Older, LabelsFit, LabelsInv
  <2> QED BY <1>3, <1>4, <1>5, <1>6, <2>1, <2>2, <2>3 DEF OlderInv
<1>8. CASE LoadedLabels # <<>>
  <2>1. PICK es : es = [i \in DOMAIN LoadedLabels |-> [label |-> LoadedLabels[i], ptr |-> i]]
    OBVIOUS
  <2>2. PICK o \in Nat : o = LabelOrder(Len(LoadedLabels)) /\ 32 + Len(LoadedLabels) * 16 <= Bytes[o]
    BY <1>1, LabelOrderFits
  <2>3. PICK b : b = [creation |-> 0, prev |-> NULLPOINTER, order |-> o, entries |-> es]
    OBVIOUS
  <2>4. edge_label_ptr = 1 /\ labels = <<b>>
    BY <1>8, <2>1, <2>2, <2>3 DEF Init
  <2>5. es \in Seq(LabelEntry) /\ Len(es) = Len(LoadedLabels) /\ DOMAIN es = DOMAIN LoadedLabels
    <3>1. \A i \in DOMAIN LoadedLabels : LoadedLabels[i] \in AnyLabel
      BY DEF AnyLabel, Members
    <3>2. es \in [1 .. Len(LoadedLabels) -> LabelEntry]
      BY <1>1, <2>1, <3>1 DEF LabelEntry
    <3> QED BY <1>1, <3>2, SeqIn
  <2>6. b \in LabelRec /\ b.creation = 0 /\ b.prev = NULLPOINTER /\ b.order = o /\ b.entries = es
    BY <2>3, <2>5 DEF LabelRec, LabelEntry
  <2>7. labels \in Seq(LabelRec) /\ Len(labels) = 1 /\ DOMAIN labels = {1} /\ labels[1] = b
    BY <2>4, <2>6
  <2>8. Distinct(es, DOMAIN blocks)
    BY <1>5, <2>1, <2>5, LoadedAssumption DEF Distinct
  <2>9. LabelsInv
    BY <2>6, <2>7, <2>8, HeadsAre
  <2>10. Older(labels)
    BY <2>6, <2>7 DEF Older
  <2>11. LabelsFit(labels)
    BY <2>2, <2>5, <2>6, <2>7 DEF LabelsFit, EntriesFit
  <2>12. ASSUME NEW i \in DOMAIN LoadedLabels PROVE HeadOf(LoadedLabels[i]) = i
    <3>1. es[i].label = LoadedLabels[i] /\ es[i].ptr = i
      BY <2>1
    <3>2. EntryPtr(es, es[i].label) = es[i].ptr
      BY <2>5, <2>8, EntryAt
    <3>3. HeadOf(LoadedLabels[i]) = EntryPtr(es, LoadedLabels[i])
      BY <2>4, <2>6, <2>7, HeadsAre DEF Heads
    <3> QED BY <3>1, <3>2, <3>3
  <2>13. edge_label_ptr \in 0 .. Len(labels)
    BY <2>4, <2>7
  <2> QED BY <1>3, <1>4, <1>5, <1>6, <2>6, <2>7, <2>9, <2>10, <2>11, <2>12, <2>13 DEF OlderInv
<1> QED BY <1>7, <1>8

LEMMA InitHolds == Init => Basic /\ CommitsInv /\ NoLostUpdate
PROOF
<1> SUFFICES ASSUME Init PROVE Basic /\ CommitsInv /\ NoLostUpdate
  OBVIOUS
<1>1. /\ blocks \in Seq(BlockRec) /\ Len(blocks) = Len(LoadedLabels) /\ DOMAIN blocks = DOMAIN LoadedLabels
      /\ \A p \in DOMAIN blocks : LoadedFits(blocks[p])
      /\ labels \in Seq(LabelRec) /\ edge_label_ptr \in 0 .. Len(labels)
      /\ OlderInv /\ LabelsInv
      /\ \A i \in DOMAIN LoadedLabels : HeadOf(LoadedLabels[i]) = i
  BY InitStore
<1>2. Len(blocks) <= MaxBlock
  BY <1>1, LoadedAssumption
<1>3. /\ sealed = 0 /\ visible = 0 /\ stage = [c \in Client |-> "idle"] /\ transaction_id = 0 /\ vertex_futex = 0
      /\ pc = [c \in Client |-> "idle"] /\ txn = [c \in Client |-> NoTxn] /\ scan = [c \in Client |-> NoScan]
      /\ compaction = [c \in Client |-> NoCompaction]
      /\ committed = {[label |-> l, epoch |-> 0, read |-> 0,
                   writes |-> [d \in Members(LoadedEdges[l]) |-> 0]] : l \in Members(LoadedLabels)}
  BY DEF Init, EpochsInit
<1>4. Bare(NoTxn) /\ NoTxn \in TxnRec /\ NoTxn.read = -1 /\ NoTxn.locked = FALSE
  BY NoTxnBare
<1>5. /\ IsScan(NoScan) /\ NoScan.ptr = NULLPOINTER /\ NoScan.lb = NULLPOINTER /\ NoCompaction \in CompactionRec
  BY NoScanIs, NoCompactionType
<1>6. \A x \in committed :
        /\ x \in [label : AnyLabel, epoch : Nat, read : Int, writes : Writes] /\ x.epoch = 0
        /\ x.label \in Members(LoadedLabels)
  <2> SUFFICES ASSUME NEW l \in Members(LoadedLabels), NEW x,
                      x = [label |-> l, epoch |-> 0, read |-> 0, writes |-> [d \in Members(LoadedEdges[l]) |-> 0]]
               PROVE  /\ x \in [label : AnyLabel, epoch : Nat, read : Int, writes : Writes] /\ x.epoch = 0
                      /\ x.label \in Members(LoadedLabels)
    BY <1>3
  <2>1. Members(LoadedEdges[l]) \subseteq AllDst
    BY DEF AllDst
  <2>2. PICK w : w = [d \in Members(LoadedEdges[l]) |-> 0]
    OBVIOUS
  <2>3. w \in Writes
    <3>1. w \in [Members(LoadedEdges[l]) -> Int]
      BY <2>2
    <3> QED BY <2>1, <3>1 DEF Writes
  <2>4. l \in AnyLabel
    BY DEF AnyLabel
  <2> QED BY <2>2, <2>3, <2>4
<1>7. Types
  <2>1. EpochInv
    BY <1>3 DEF EpochInv
  <2>2. /\ stage \in [Client -> {"idle", "queued", "granted"}] /\ pc \in [Client -> Place] /\ transaction_id \in Nat
    BY <1>3 DEF Place
  <2>3. txn \in [Client -> TxnRec] /\ compaction \in [Client -> CompactionRec]
    BY <1>3, <1>4, <1>5
  <2>4. scan = [c \in Client |-> scan[c]] /\ \A c \in Client : IsScan(scan[c])
    <3>1. \A c \in Client : scan[c] = NoScan
      BY <1>3
    <3> QED BY <1>3, <1>5, <3>1
  <2>5. committed \subseteq [label : AnyLabel, epoch : Nat, read : Int, writes : Writes]
    BY <1>6
  <2> QED BY <1>1, <1>2, <2>1, <2>2, <2>3, <2>4, <2>5 DEF Types
<1>8. \A c \in Client : /\ stage[c] = "idle" /\ pc[c] = "idle" /\ txn[c] = NoTxn /\ txn[c].read = -1
                        /\ txn[c].locked = FALSE /\ Bare(txn[c]) /\ scan[c].ptr = 0 /\ scan[c].lb = 0
  BY <1>3, <1>4, <1>5
<1>9. \A c \in Client : ~Open(c) /\ ~Writer(c) /\ ~Holds(c) /\ ~Installing(c)
  BY <1>8 DEF Open, Writer, Holds, Installing, InScan
<1>10. PlaceInv
  <2> SUFFICES ASSUME NEW c \in Client PROVE PlaceOf(c)
    BY DEF PlaceInv
  <2> QED BY <1>3, <1>8, <1>9 DEF PlaceOf
<1>11. RefsInv
  <2> SUFFICES ASSUME NEW c \in Client PROVE RefsOf(c)
    BY DEF RefsInv
  <2>1. scan[c].ptr <= Len(blocks) /\ scan[c].lb <= Len(labels)
    BY <1>1, <1>8
  <2> QED BY <1>8, <1>9, <2>1 DEF RefsOf
<1>12. LockInv
  BY <1>3, <1>9 DEF LockInv
<1>13. TailInv
  <2> SUFFICES ASSUME NEW p \in DOMAIN blocks PROVE blocks[p].num <= Len(blocks[p].entries)
    BY DEF TailInv
  <2>1. blocks[p] \in BlockRec
    BY <1>1
  <2>2. blocks[p].num \in Nat
    BY <2>1 DEF BlockRec
  <2> QED BY <1>1, <2>2 DEF LoadedFits
<1>14. Basic
  BY <1>1, <1>7, <1>10, <1>11, <1>12, <1>13 DEF Basic
<1>15. \A p \in DOMAIN blocks : blocks[p].creation = 0 /\ blocks[p].committed = 0
  BY <1>1 DEF LoadedFits
<1>16. TopsInv /\ PendInv /\ TailsInv /\ InstallInv /\ BoundInv
  <2>1. TopsInv
    BY <1>8, <1>9 DEF TopsInv, TopsOf
  <2>2. PendInv
    BY <1>9 DEF PendInv, PendOf
  <2>3. TailsInv
    BY <1>9 DEF TailsInv, TailsOf
  <2>4. InstallInv
    BY <1>9 DEF InstallInv, InstallOf
  <2>5. BoundInv
    BY <1>8 DEF BoundInv, BoundOf
  <2> QED BY <2>1, <2>2, <2>3, <2>4, <2>5
<1>17. CommittedInv
  BY <1>3, <1>15 DEF CommittedInv
<1>18. SettledInv
  <2> SUFFICES ASSUME NEW l \in AnyLabel, HeadOf(l) # NULLPOINTER PROVE Steady(HeadOf(l))
    BY DEF SettledInv
  <2>1. \A k : HeadOf(k) \in 0 .. Len(blocks)
    BY <1>1, <1>7, LocateFacts
  <2>2. HeadOf(l) \in DOMAIN blocks
    BY <1>1, <2>1
  <2> QED BY <1>15, <2>2 DEF Steady
<1>19. CommitInv
  <2> SUFFICES ASSUME NEW x \in committed PROVE CommitOf(x)
    BY DEF CommitInv
  <2>1. PICK i \in DOMAIN LoadedLabels : x.label = LoadedLabels[i]
    BY <1>6 DEF Members
  <2>2. HeadOf(x.label) = i /\ i \in DOMAIN blocks /\ i # NULLPOINTER
    BY <1>1, <2>1
  <2>3. x.epoch <= blocks[HeadOf(x.label)].committed /\ x.epoch <= sealed
    BY <1>3, <1>6, <1>15, <2>2
  <2> QED BY <1>9, <2>2, <2>3 DEF CommitOf
<1>20. NoLostUpdate
  <2> SUFFICES ASSUME NEW x \in committed, NEW y \in committed, x.label = y.label, x # y PROVE FALSE
    BY DEF NoLostUpdate
  <2>1. PICK l \in Members(LoadedLabels) :
          x = [label |-> l, epoch |-> 0, read |-> 0, writes |-> [d \in Members(LoadedEdges[l]) |-> 0]]
    BY <1>3
  <2>2. PICK k \in Members(LoadedLabels) :
          y = [label |-> k, epoch |-> 0, read |-> 0, writes |-> [d \in Members(LoadedEdges[k]) |-> 0]]
    BY <1>3
  <2>3. x.label = l /\ y.label = k
    BY <2>1, <2>2
  <2> QED BY <2>1, <2>2, <2>3
<1> QED BY <1>14, <1>16, <1>17, <1>18, <1>19, <1>20 DEF CommitsInv

-----------------------------------------------------------------------------
(* Every step *)

LEMMA QuietKeeps ==
  ASSUME Basic, CommitsInv, NEW c \in Client, QuietStep(c), BoundOf(c)'
  PROVE  Basic' /\ CommitsInv' /\ committed' = committed
PROOF
<1>1. Basic' /\ CommitsInv'
  BY QuietBasic, QuietInv
<1>2. committed' = committed
  BY DEF QuietStep
<1> QED BY <1>1, <1>2

LEMMA ReadingKeeps ==
  ASSUME Basic, CommitsInv, NEW c \in Client, Reading(c)
  PROVE  Basic' /\ CommitsInv' /\ committed' = committed
PROOF
<1>1. ScanStep(c)
  <2>1. CASE ReadLabel(c)
    BY <2>1, ReadLabelStep
  <2>2. CASE Walk(c)
    BY <2>2, WalkStep
  <2>3. CASE LoadTail(c)
    BY <2>3, LoadTailStep
  <2>4. CASE NextEntry(c)
    BY <2>4, NextEntryStep
  <2>5. CASE Return(c)
    BY <2>5, ReturnStep
  <2> QED BY <2>1, <2>2, <2>3, <2>4, <2>5 DEF Reading
<1>2. QuietStep(c) /\ BoundOf(c)'
  BY <1>1, ScanQuiet
<1> QED BY <1>2, QuietKeeps

LEMMA CallKeeps ==
  ASSUME Basic, CommitsInv, NEW c \in Client, Call(c)
  PROVE  Basic' /\ CommitsInv' /\ committed' = committed
PROOF
<1>1. ASSUME Begin(c) \/ Commit(c) \/ Compact(c) PROVE QuietStep(c) /\ BoundOf(c)'
  <2>1. CASE Begin(c)
    BY <2>1, BeginQuiet
  <2>2. CASE Commit(c)
    BY <2>2, CommitQuiet
  <2>3. CASE Compact(c)
    BY <2>3, CompactQuiet
  <2> QED BY <1>1, <2>1, <2>2, <2>3
<1>2. CASE Begin(c) \/ Commit(c) \/ Compact(c)
  BY <1>1, <1>2, QuietKeeps
<1>3. CASE Abort(c) /\ txn[c].locked
  BY <1>3, AbortKeeps
<1>4. CASE Abort(c) /\ ~txn[c].locked
  <2>1. QuietStep(c) /\ BoundOf(c)'
    BY <1>4, AbortQuiet
  <2> QED BY <2>1, QuietKeeps
<1>5. ASSUME NEW l \in Label, NEW want, NEW one, NEW reverse, GetEdges(c, l, want, one, reverse)
      PROVE  Basic' /\ CommitsInv' /\ committed' = committed
  <2>1. ScanStep(c)
    BY <1>5, GetEdgesStep
  <2>2. QuietStep(c) /\ BoundOf(c)'
    BY <2>1, ScanQuiet
  <2> QED BY <2>2, QuietKeeps
<1>6. ASSUME NEW l \in Label, NEW d \in Dst, PutEdge(c, l, d) \/ DelEdge(c, l, d)
      PROVE  Basic' /\ CommitsInv' /\ committed' = committed
  BY <1>6, WriteKeeps
<1> QED BY <1>2, <1>3, <1>4, <1>5, <1>6 DEF Call

LEMMA EndingKeeps ==
  ASSUME Basic, CommitsInv, NEW c \in Client, Ending(c)
  PROVE  Basic' /\ CommitsInv' /\ committed' = committed
PROOF
<1>1. ASSUME NEW p \in Pointer, InstallTail(c, p) PROVE Basic' /\ CommitsInv' /\ committed' = committed
  BY <1>1, InstallTailKeeps
<1>2. ASSUME NEW l \in Label, InstallLabel(c, l) PROVE Basic' /\ CommitsInv' /\ committed' = committed
  BY <1>2, InstallLabelKeeps
<1>3. CASE Stamp(c)
  BY <1>3, StampKeeps
<1>4. CASE Clean(c) /\ Installing(c)
  BY <1>4, CleanInstalled
<1>5. CASE Clean(c) /\ ~Installing(c)
  <2>1. QuietStep(c) /\ BoundOf(c)'
    BY <1>5, CleanQuiet
  <2> QED BY <2>1, QuietKeeps
<1>6. CASE Leave(c)
  <2>1. QuietStep(c) /\ BoundOf(c)'
    BY <1>6, LeaveQuiet
  <2> QED BY <2>1, QuietKeeps
<1>7. CASE (\E wait \in BOOLEAN : FinishCommit(c, wait)) \/ Spin(c)
  <2>1. QuietStep(c) /\ BoundOf(c)'
    BY <1>7, FinishQuiet
  <2> QED BY <2>1, QuietKeeps
<1> QED BY <1>1, <1>2, <1>3, <1>4, <1>5, <1>6, <1>7 DEF Ending

LEMMA CompactorKeeps ==
  ASSUME Basic, CommitsInv, NEW c \in Client, Compactor(c)
  PROVE  Basic' /\ CommitsInv' /\ committed' = committed
PROOF
<1>1. CASE ScanTable(c)
  <2>1. QuietStep(c) /\ BoundOf(c)'
    BY <1>1, ScanTableQuiet
  <2> QED BY <2>1, QuietKeeps
<1>2. CASE CompactLabels(c)
  BY <1>2, CompactLabelsKeeps
<1>3. CASE CompactSkip(c) \/ Compacted(c)
  <2>1. QuietStep(c) /\ BoundOf(c)'
    BY <1>3, CompactedQuiet
  <2> QED BY <2>1, QuietKeeps
<1>4. ASSUME NEW i \in compaction[c].todo, CompactLabel(c, i) PROVE Basic' /\ CommitsInv' /\ committed' = committed
  BY <1>4, CompactLabelKeeps
<1> QED BY <1>1, <1>2, <1>3, <1>4 DEF Compactor

LEMMA IdleKeeps ==
  ASSUME Basic, CommitsInv, UNCHANGED vars
  PROVE  Basic' /\ CommitsInv' /\ committed' = committed
PROOF
<1>1. /\ UNCHANGED <<sealed, visible, stage, transaction_id, vertex_futex, edge_label_ptr, labels, blocks, freed,
                     freedLabels, pc, txn, scan, compaction, committed>>
  BY DEF vars, epochsVars, store
<1>2. Basic'
  <2>1. Types' /\ OlderInv' /\ LabelsInv' /\ TailInv'
    BY <1>1 DEF Basic, Types, EpochInv, OlderInv, Older, LabelsInv, TailInv
  <2>2. LockInv'
    BY <1>1 DEF Basic, LockInv, Holds, Writer, Open
  <2>3. PlaceInv'
    BY <1>1 DEF Basic, PlaceInv, PlaceOf, Writer, Open, Bare
  <2>4. RefsInv'
    BY <1>1 DEF Basic, RefsInv, RefsOf, Writer, Open
  <2> QED BY <2>1, <2>2, <2>3, <2>4 DEF Basic
<1>3. \A l : HeadOf(l)' = HeadOf(l)
  BY <1>1, HeadsAre
<1>4. CommitsInv'
  <2>1. TopsInv' /\ PendInv' /\ TailsInv' /\ CommittedInv' /\ BoundInv'
    <3>1. TopsInv'
      BY <1>1, <1>3 DEF CommitsInv, TopsInv, TopsOf, Open
    <3>2. PendInv' /\ TailsInv'
      BY <1>1 DEF CommitsInv, PendInv, PendOf, TailsInv, TailsOf, Open
    <3>3. CommittedInv' /\ BoundInv'
      BY <1>1 DEF CommitsInv, CommittedInv, BoundInv, BoundOf, Old, Active
    <3> QED BY <3>1, <3>2, <3>3
  <2>2. \A c \in Client : \A l : TopOf(c, l)' = TopOf(c, l)
    BY <1>1, <1>3 DEF TopOf
  <2>3. \A c \in Client : Installing(c)' <=> Installing(c)
    BY <1>1 DEF Installing
  <2>4. SettledInv'
    <3> SUFFICES ASSUME \A c \in Client : ~Installing(c)', NEW l \in AnyLabel, HeadOf(l)' # NULLPOINTER
                 PROVE  Steady(HeadOf(l))'
      BY DEF SettledInv
    <3>1. PICK q : q = HeadOf(l) /\ HeadOf(l)' = q
      BY <1>3
    <3>2. Steady(q)
      BY <2>3, <3>1 DEF CommitsInv, SettledInv
    <3>3. Steady(q)'
      BY <1>1, <3>2 DEF Steady, Old, Active
    <3> QED BY <3>1, <3>3 DEF Steady
  <2>5. InstallInv'
    <3> SUFFICES ASSUME NEW c \in Client, Installing(c)', NEW l \in AnyLabel, TopOf(c, l)' # NULLPOINTER
                 PROVE  (LET p == TopOf(c, l) IN
                         /\ Word("block", p, 0) \in Members(txn[c].stamps) \/ blocks[p].creation \in 0 .. txn[c].epoch
                         /\ Timed(c, p) \/ (Steady(p) /\ p = HeadOf(l) /\ p \notin txn[c].own))'
      BY DEF InstallInv, InstallOf
    <3>1. PICK q : q = TopOf(c, l) /\ TopOf(c, l)' = q
      BY <2>2
    <3>2. /\ Word("block", q, 0) \in Members(txn[c].stamps) \/ blocks[q].creation \in 0 .. txn[c].epoch
          /\ Timed(c, q) \/ (Steady(q) /\ q = HeadOf(l) /\ q \notin txn[c].own)
      BY <2>3, <3>1 DEF CommitsInv, InstallInv, InstallOf
    <3>3. Timed(c, q) => Timed(c, TopOf(c, l))'
      BY <1>1, <3>1 DEF Timed
    <3>4. Steady(q) => Steady(TopOf(c, l))'
      BY <1>1, <3>1 DEF Steady, Old, Active
    <3> QED BY <1>1, <1>3, <3>1, <3>2, <3>3, <3>4
  <2>6. CommitInv'
    <3> SUFFICES ASSUME NEW x \in committed PROVE CommitOf(x)'
      BY <1>1 DEF CommitInv
    <3>1. CommitOf(x)
      BY DEF CommitsInv, CommitInv
    <3>2. x.epoch <= sealed' /\ \A c \in Client : Installing(c)' => x.epoch <= txn'[c].epoch
      BY <1>1, <2>3, <3>1 DEF CommitOf
    <3>3. CASE HeadOf(x.label) # NULLPOINTER /\ x.epoch <= blocks[HeadOf(x.label)].committed
      <4>1. HeadOf(x.label)' # NULLPOINTER /\ x.epoch <= blocks'[HeadOf(x.label)'].committed
        BY <1>1, <1>3, <3>3
      <4> QED BY <3>2, <4>1 DEF CommitOf
    <3>4. CASE \E c \in Client : Installing(c) /\ TopOf(c, x.label) # NULLPOINTER /\ Timed(c, TopOf(c, x.label))
      <4>1. PICK c \in Client : Installing(c) /\ TopOf(c, x.label) # NULLPOINTER /\ Timed(c, TopOf(c, x.label))
        BY <3>4
      <4>2. PICK q : q = TopOf(c, x.label) /\ TopOf(c, x.label)' = q
        BY <2>2
      <4>3. Timed(c, TopOf(c, x.label))'
        BY <1>1, <4>1, <4>2 DEF Timed
      <4> QED BY <2>3, <3>2, <4>1, <4>2, <4>3 DEF CommitOf
    <3> QED BY <3>1, <3>3, <3>4 DEF CommitOf
  <2> QED BY <2>1, <2>4, <2>5, <2>6 DEF CommitsInv
<1> QED BY <1>1, <1>2, <1>4

\* What every reachable state satisfies and every step preserves.
Inv == Basic /\ CommitsInv /\ NoLostUpdate

LEMMA InvStep == Inv /\ [Next]_vars => Inv'
PROOF
<1> SUFFICES ASSUME Inv, [Next]_vars PROVE Inv'
  OBVIOUS
<1>0. Basic /\ CommitsInv /\ NoLostUpdate
  BY DEF Inv
<1>1. ASSUME Basic', CommitsInv', committed' = committed PROVE Inv'
  BY <1>0, <1>1 DEF Inv, NoLostUpdate
<1>2. ASSUME NEW c \in Client, Call(c) \/ Reading(c) \/ Ending(c) \/ Compactor(c)
      PROVE  Basic' /\ CommitsInv' /\ committed' = committed
  <2>1. CASE Call(c)
    BY <1>0, <2>1, CallKeeps
  <2>2. CASE Reading(c)
    BY <1>0, <2>2, ReadingKeeps
  <2>3. CASE Ending(c)
    BY <1>0, <2>3, EndingKeeps
  <2>4. CASE Compactor(c)
    BY <1>0, <2>4, CompactorKeeps
  <2> QED BY <1>2, <2>1, <2>2, <2>3, <2>4
<1>3. ASSUME NEW G \in SUBSET Client, RegisterGroup(G) PROVE Inv'
  <2>1. Basic' /\ CommitsInv'
    BY <1>0, <1>3, GroupKeeps
  <2>2. NoLostUpdate'
    BY <1>0, <1>3, GroupLost
  <2> QED BY <2>1, <2>2 DEF Inv
<1>4. CASE Publish
  <2>1. Basic' /\ CommitsInv'
    BY <1>0, <1>4, PublishBasic
  <2>2. committed' = committed
    BY <1>4 DEF Publish
  <2> QED BY <1>1, <2>1, <2>2
<1>5. CASE UNCHANGED vars
  <2>1. Basic' /\ CommitsInv' /\ committed' = committed
    BY <1>0, <1>5, IdleKeeps
  <2> QED BY <1>1, <2>1
<1> QED BY <1>1, <1>2, <1>3, <1>4, <1>5 DEF Next

\* The invariant: what the transactions, scans and compactions refer to, who has the vertex lock, and how the
\* newest block of a label, the committed times and the bounds of compactions are related.
THEOREM Invariance == Spec => []Inv
PROOF
<1>1. Init => Inv
  BY InitHolds DEF Inv
<1>2. Inv /\ [Next]_vars => Inv'
  BY InvStep
<1> QED BY <1>1, <1>2, PTL DEF Spec

\* No update of edges is lost: of two commits that wrote under one label of the vertex, one had the other in its
\* snapshot, whatever other writers, growing blocks, aborts and compactions there were (ensure_no_confict).
THEOREM UpdatesKept == Spec => []NoLostUpdate
PROOF
<1>1. Inv => NoLostUpdate
  BY DEF Inv
<1> QED BY <1>1, Invariance, PTL

-----------------------------------------------------------------------------
(* What the store holds *)

\* A time of the store, when ids up to id and epochs up to seal are in use.
TimesOf(id, seal) == (-id .. seal) \cup {ROLLBACK_TOMBSTONE}
GoodEntry(e, id, seal) ==
  /\ e.creation \in TimesOf(id, seal) /\ e.deletion \in TimesOf(id, seal) /\ e.data \in 0 .. id
  /\ e.creation = 0 => e.data = 0
Fits(order, n) == 48 + n * EntrySize + Filter(order) <= Bytes[order]
GoodBlock(b, id, seal) ==
  /\ b.creation \in TimesOf(id, seal) /\ b.committed \in TimesOf(id, seal) /\ Fits(b.order, Len(b.entries))
  /\ \A i \in DOMAIN b.entries : GoodEntry(b.entries[i], id, seal)
BlocksGood(chained, id, seal) == \A p \in DOMAIN chained : GoodBlock(chained[p], id, seal)
LabelsGood(labs, id, seal) == LabelsFit(labs) /\ \A q \in DOMAIN labs : labs[q].creation \in TimesOf(id, seal)

\* The contents of the store, and the blocks of a transaction that is about to leave.
OwnOf(c) == pc[c] \in {"clean", "leave"} => txn[c].own \subseteq DOMAIN blocks
StoreInv ==
  /\ BlocksGood(blocks, transaction_id, sealed) /\ LabelsGood(labels, transaction_id, sealed)
  /\ freed \subseteq DOMAIN blocks /\ freedLabels \subseteq DOMAIN labels
  /\ \A c \in Client : OwnOf(c)

LEMMA TimesGrow ==
  ASSUME NEW id \in Nat, NEW id2 \in Nat, id <= id2, NEW seal \in Nat, NEW seal2 \in Nat, seal <= seal2
  PROVE  /\ TimesOf(id, seal) \subseteq TimesOf(id2, seal2)
         /\ \A e : GoodEntry(e, id, seal) => GoodEntry(e, id2, seal2)
         /\ \A b : GoodBlock(b, id, seal) => GoodBlock(b, id2, seal2)
         /\ \A chained : BlocksGood(chained, id, seal) => BlocksGood(chained, id2, seal2)
         /\ \A labs : LabelsGood(labs, id, seal) => LabelsGood(labs, id2, seal2)
PROOF
<1>1. TimesOf(id, seal) \subseteq TimesOf(id2, seal2) /\ 0 .. id \subseteq 0 .. id2
  BY DEF TimesOf
<1>2. \A e : GoodEntry(e, id, seal) => GoodEntry(e, id2, seal2)
  BY <1>1, Zenon DEF GoodEntry
<1>3. \A b : GoodBlock(b, id, seal) => GoodBlock(b, id2, seal2)
  BY <1>1, <1>2, Zenon DEF GoodBlock
<1>4. \A chained : BlocksGood(chained, id, seal) => BlocksGood(chained, id2, seal2)
  BY <1>3, Zenon DEF BlocksGood
<1>5. \A labs : LabelsGood(labs, id, seal) => LabelsGood(labs, id2, seal2)
  BY <1>1, Zenon DEF LabelsGood
<1> QED BY <1>1, <1>2, <1>3, <1>4, <1>5

\* A step that does not write to the store.
LEMMA StoreKept ==
  ASSUME Types, StoreInv, UNCHANGED <<labels, blocks, freed, freedLabels>>,
         transaction_id' \in Nat, transaction_id <= transaction_id', sealed' \in Nat, sealed <= sealed',
         \A c \in Client : OwnOf(c)'
  PROVE  StoreInv'
PROOF
<1>1. transaction_id \in Nat /\ sealed \in Nat
  BY DEF Types, EpochInv
<1>2. PICK id, id2, seal, seal2 : id = transaction_id /\ id2 = transaction_id' /\ seal = sealed /\ seal2 = sealed'
  OBVIOUS
<1>3. id \in Nat /\ id2 \in Nat /\ id <= id2 /\ seal \in Nat /\ seal2 \in Nat /\ seal <= seal2
  BY <1>1, <1>2
<1>4. BlocksGood(blocks, id, seal) /\ LabelsGood(labels, id, seal)
  BY <1>2 DEF StoreInv
<1>5. BlocksGood(blocks, id2, seal2) /\ LabelsGood(labels, id2, seal2)
  BY <1>3, <1>4, TimesGrow
<1>6. BlocksGood(blocks, transaction_id, sealed)' /\ LabelsGood(labels, transaction_id, sealed)'
  BY <1>2, <1>5
<1>7. (freed \subseteq DOMAIN blocks /\ freedLabels \subseteq DOMAIN labels)'
  BY DEF StoreInv
<1> QED BY <1>6, <1>7 DEF StoreInv

LEMMA FitsFewer ==
  ASSUME NEW order, Bytes[order] \in Nat, Filter(order) \in Nat, NEW n \in Nat, NEW m \in Nat, m <= n, Fits(order, n)
  PROVE  Fits(order, m)
PROOF
<1>1. EntrySize \in Nat
  BY EdgesAssumption
<1>2. PICK x \in Nat : n = m + x
  <2>1. n - m \in Nat /\ n = m + (n - m)
    OBVIOUS
  <2> QED BY <2>1
<1>3. n * EntrySize = m * EntrySize + x * EntrySize
  BY <1>1, <1>2
<1>4. x * EntrySize \in Nat /\ m * EntrySize \in Nat
  BY <1>1
<1>5. m * EntrySize <= n * EntrySize /\ n * EntrySize \in Nat
  BY <1>3, <1>4
<1>6. PICK a, b : a = m * EntrySize /\ b = n * EntrySize
  OBVIOUS
<1>7. a \in Nat /\ b \in Nat /\ a <= b /\ 48 + b + Filter(order) <= Bytes[order]
  BY <1>4, <1>5, <1>6 DEF Fits
<1>8. 48 + a + Filter(order) <= Bytes[order]
  BY <1>7
<1> QED BY <1>6, <1>8 DEF Fits

LEMMA FilterType ==
  ASSUME NEW order \in Nat
  PROVE  Bytes[order] \in Nat /\ Filter(order) \in Nat
PROOF
<1>1. \A n \in Nat : Bytes[n] \in Nat
  BY BytesType
<1>2. order >= 10 => order - 4 \in Nat
  OBVIOUS
<1> QED BY <1>1, <1>2 DEF Filter

\* Another list of entries in a block.
LEMMA EntriesGood ==
  ASSUME NEW chained \in Seq(BlockRec), NEW p \in DOMAIN chained, NEW e \in Seq(EntryRec), NEW id, NEW seal,
         BlocksGood(chained, id, seal), Fits(chained[p].order, Len(e)), \A i \in DOMAIN e : GoodEntry(e[i], id, seal)
  PROVE  BlocksGood([chained EXCEPT ![p].entries = e], id, seal)
PROOF
<1>1. PICK s : s = [chained EXCEPT ![p] = [chained[p] EXCEPT !.entries = e]]
  OBVIOUS
<1>2. /\ DOMAIN s = DOMAIN chained
      /\ s[p].entries = e /\ s[p].creation = chained[p].creation
      /\ s[p].committed = chained[p].committed /\ s[p].order = chained[p].order
      /\ \A o \in DOMAIN chained : o # p => s[o] = chained[o]
  BY <1>1, BlockPut
<1>3. GoodBlock(s[p], id, seal)
  BY <1>2 DEF BlocksGood, GoodBlock
<1>4. \A o \in DOMAIN s : GoodBlock(s[o], id, seal)
  BY <1>2, <1>3 DEF BlocksGood
<1> QED BY <1>1, <1>4 DEF BlocksGood

LEMMA PutInGood ==
  ASSUME Types, NEW c \in Client, NEW t \in TxnRec, t.id \in 1 .. transaction_id,
         NEW l \in Label, NEW d \in AllDst, NEW chained \in Seq(BlockRec),
         NEW p \in DOMAIN chained, NEW n \in Nat, n <= Len(chained[p].entries), NEW words \in Seq(WordRec),
         BlocksGood(chained, transaction_id, sealed), Fits(chained[p].order, n + 1),
         PutIn(c, t, l, d, p, n, chained, words)
  PROVE  BlocksGood(blocks', transaction_id, sealed)
PROOF
<1>1. PICK e \in Seq(EntryRec) :
        /\ blocks' = [chained EXCEPT ![p].entries = e] /\ Len(e) = n + 1
        /\ Appended(e, chained[p].entries, n, d, t.id)
  BY PutInFacts
<1>2. PICK id \in Nat, seal \in Nat : id = transaction_id /\ seal = sealed
  BY DEF Types, EpochInv
<1>3. PICK m \in 1 .. id : m = t.id
  BY <1>2
<1>4. -m \in TimesOf(id, seal) /\ ROLLBACK_TOMBSTONE \in TimesOf(id, seal) /\ -m \in Int /\ -m # 0 /\ m \in 0 .. id
  BY <1>3 DEF TimesOf
<1>5. chained[p].entries \in Seq(EntryRec)
  <2>1. chained[p] \in BlockRec
    OBVIOUS
  <2> QED BY <2>1 DEF BlockRec
<1>6. \A i \in DOMAIN chained[p].entries : GoodEntry(chained[p].entries[i], id, seal)
  BY <1>2 DEF BlocksGood, GoodBlock
<1>7. ASSUME NEW i \in DOMAIN e PROVE GoodEntry(e[i], id, seal)
  <2>1. CASE i = n + 1
    <3>1. PICK x : x = Entry(d, -m, m)
      OBVIOUS
    <3>2. x.creation = -m /\ x.data = m /\ x.deletion = ROLLBACK_TOMBSTONE
      BY <1>4, <3>1, EntryType
    <3>3. GoodEntry(x, id, seal)
      BY <1>4, <3>2 DEF GoodEntry
    <3> QED BY <1>1, <1>3, <2>1, <3>1, <3>3 DEF Appended
  <2>2. CASE i \in 1 .. n
    <3>1. PICK x : x = chained[p].entries[i]
      OBVIOUS
    <3>2. i \in DOMAIN chained[p].entries
      BY <1>5, <2>2
    <3>3. x \in EntryRec /\ GoodEntry(x, id, seal)
      BY <1>5, <1>6, <3>1, <3>2
    <3>4. PICK y : y = [x EXCEPT !.deletion = -m]
      OBVIOUS
    <3>5. y.deletion = -m /\ y.creation = x.creation /\ y.data = x.data
      BY <1>4, <3>3, <3>4, EntryDel
    <3>6. GoodEntry(y, id, seal)
      BY <1>4, <3>3, <3>5 DEF GoodEntry
    <3>7. e[i] = x \/ e[i] = y
      BY <1>1, <1>3, <2>2, <3>1, <3>4 DEF Appended
    <3> QED BY <3>3, <3>6, <3>7
  <2> QED BY <1>1, <2>1, <2>2
<1>8. BlocksGood(chained, id, seal) /\ Fits(chained[p].order, Len(e))
  BY <1>1, <1>2
<1>9. BlocksGood([chained EXCEPT ![p].entries = e], id, seal)
  BY <1>7, <1>8, EntriesGood
<1> QED BY <1>1, <1>2, <1>9

LEMMA WriterId ==
  ASSUME Basic, NEW c \in Client, Operate(c)
  PROVE  /\ pc[c] = "open" /\ (txn[c].locked \/ vertex_futex = 0) /\ txn[c].id \in 1 .. transaction_id
         /\ UNCHANGED <<sealed, transaction_id, labels, freed, freedLabels, pc>>
PROOF
<1>1. /\ pc[c] = "open" /\ c \notin ReadOnly /\ (txn[c].locked \/ vertex_futex = 0)
      /\ UNCHANGED <<sealed, transaction_id, labels, freed, freedLabels, pc>>
  BY OperateFacts
<1>2. PlaceOf(c)
  BY DEF Basic, PlaceInv
<1>3. txn[c].read >= 0
  BY <1>1, <1>2 DEF PlaceOf, Open
<1>4. txn[c].id \in 1 .. transaction_id
  BY <1>1, <1>2, <1>3 DEF PlaceOf
<1> QED BY <1>1, <1>4

LEMMA PutEdgeGood ==
  ASSUME Basic, CommitsInv, StoreInv, NEW c \in Client, NEW l \in Label, NEW d \in Dst, PutEdge(c, l, d)
  PROVE  BlocksGood(blocks', transaction_id, sealed)
PROOF
<1>0. Types /\ TailInv /\ BlocksGood(blocks, transaction_id, sealed)
  BY DEF Basic, StoreInv
<1>1. PICK t : t = Locked(c)
  OBVIOUS
<1>2. /\ t \in TxnRec /\ t.id = txn[c].id /\ t.read = txn[c].read /\ t.ptrs = txn[c].ptrs
      /\ t.tails = txn[c].tails /\ t.own = txn[c].own
  BY <1>0, <1>1, LockedFacts
<1>3. PICK p : p = Located(t, l)
  OBVIOUS
<1>4. PICK n : n = IF p = NULLPOINTER THEN 0 ELSE NumEntries(t, p)
  OBVIOUS
<1>5. Operate(c)
  BY DEF PutEdge
<1>6. pc[c] = "open" /\ (txn[c].locked \/ vertex_futex = 0) /\ txn[c].id \in 1 .. transaction_id
  BY <1>5, WriterId
<1>7. CASE Conflict(t, l)
  <2>1. blocks' = blocks
    BY <1>1, <1>7 DEF PutEdge
  <2> QED BY <1>0, <2>1
<1>8. CASE ~Conflict(t, l)
  <2>1. /\ p \in 0 .. Len(blocks)
        /\ p # NULLPOINTER => /\ p \in DOMAIN blocks /\ NumEntries(t, p) \in Nat
                              /\ NumEntries(t, p) <= Len(blocks[p].entries)
    BY <1>2, <1>3, <1>6, <1>8, FirstLook
  <2>2. n \in Nat
    BY <1>4, <2>1
  <2>3. d \in AllDst
    BY DEF AllDst
  <2>4. blocks \in Seq(BlockRec) /\ Len(blocks) \in Nat /\ DOMAIN blocks = 1 .. Len(blocks)
    BY <1>0 DEF Types
  <2>5. ASSUME ~Grows(t, p) PROVE BlocksGood(blocks', transaction_id, sealed)
    <3>1. p # NULLPOINTER /\ n = NumEntries(t, p) /\ HasSpace(blocks[p].order, n)
      BY <1>4, <2>5 DEF Grows
    <3>2. PutIn(c, t, l, d, p, n, blocks, <<>>)
      BY <1>1, <1>3, <1>4, <1>8, <2>5 DEF PutEdge
    <3>3. p \in DOMAIN blocks /\ n <= Len(blocks[p].entries) /\ <<>> \in Seq(WordRec)
      BY <2>1, <3>1
    <3>4. Fits(blocks[p].order, n + 1)
      BY <3>1 DEF HasSpace, Fits
    <3>5. t.id \in 1 .. transaction_id
      BY <1>2, <1>6
    <3> QED BY <1>0, <1>2, <2>2, <2>3, <2>4, <3>2, <3>3, <3>4, <3>5, PutInGood
  <2>6. ASSUME Grows(t, p) PROVE BlocksGood(blocks', transaction_id, sealed)
    <3>1. PICK q : q = Len(blocks) + 1
      OBVIOUS
    <3>2. PICK kept : kept = Kept(p, n, t)
      OBVIOUS
    <3>3. kept \in Seq(EntryRec) /\ Len(kept) <= n /\ Len(kept) \in Nat
      BY <1>0, <2>1, <2>2, <3>2, KeptType
    <3>4. PICK k : k = Len(kept)
      OBVIOUS
    <3>5. PICK o \in Nat : o = BlockOrder(n + 1) /\ Fits(o, n + 1)
      <4>1. n + 1 \in Nat
        BY <2>2
      <4> QED BY <4>1, BlockOrderFits DEF Fits
    <3>6. PICK b : b = [creation |-> -t.id, prev |-> p, committed |-> -t.id, num |-> k, order |-> o, entries |-> kept]
      OBVIOUS
    <3>7. PICK words : words = <<Word("block", q, 0)>> \o OwnWords(q, kept, t)
      OBVIOUS
    <3>8. PICK u : u = [t EXCEPT !.own = t.own \cup {q}]
      OBVIOUS
    <3>9. PICK chained : chained = Append(blocks, b)
      OBVIOUS
    <3>10. PutIn(c, u, l, d, q, k, chained, words)
      BY <1>1, <1>3, <1>4, <1>8, <2>6, <3>1, <3>2, <3>4, <3>5, <3>6, <3>7, <3>8, <3>9 DEF PutEdge
    <3>11. /\ b \in BlockRec /\ b.num = k /\ b.entries = kept /\ b.order = o /\ b.committed = -t.id
           /\ b.creation = -t.id
      <4>1. t.id \in Nat /\ -t.id \in Int
        BY <1>2 DEF TxnRec
      <4>2. p \in Nat /\ k \in Nat
        BY <2>1, <3>3, <3>4
      <4> QED BY <3>3, <3>5, <3>6, <4>1, <4>2 DEF BlockRec
    <3>12. /\ chained \in Seq(BlockRec) /\ DOMAIN chained = 1 .. q
           /\ chained[q] = b /\ \A r \in DOMAIN blocks : chained[r] = blocks[r]
      BY <2>4, <3>1, <3>9, <3>11, SeqAdd
    <3>13. q \in DOMAIN chained /\ k <= Len(chained[q].entries) /\ k \in Nat /\ q \in Nat
      BY <2>4, <3>1, <3>3, <3>4, <3>11, <3>12
    <3>14. u \in TxnRec /\ u.id = t.id
      <4>1. t.own \cup {q} \in SUBSET Nat
        BY <1>2, <3>13 DEF TxnRec
      <4> QED BY <1>2, <3>8, <4>1, TxnPut_own
    <3>15. words \in Seq(WordRec)
      BY <3>3, <3>7, <3>13, NewWords
    <3>16. Bytes[o] \in Nat /\ Filter(o) \in Nat
      BY <3>5, FilterType
    <3>17. Fits(o, k) /\ Fits(o, k + 1)
      <4>1. n + 1 \in Nat /\ k + 1 \in Nat /\ k \in Nat /\ k <= n + 1 /\ k + 1 <= n + 1
        BY <2>2, <3>3, <3>4
      <4>2. Fits(o, n + 1)
        BY <3>5
      <4>3. Fits(o, k)
        BY <3>16, <4>1, <4>2, FitsFewer
      <4>4. Fits(o, k + 1)
        BY <3>16, <4>1, <4>2, FitsFewer
      <4> QED BY <4>3, <4>4
    <3>18. GoodBlock(b, transaction_id, sealed)
      <4>1. t.id \in 1 .. transaction_id /\ transaction_id \in Nat /\ sealed \in Nat
        BY <1>0, <1>2, <1>6 DEF Types, EpochInv
      <4>2. -t.id \in TimesOf(transaction_id, sealed)
        BY <4>1 DEF TimesOf
      <4>3. ASSUME NEW i \in DOMAIN kept PROVE GoodEntry(kept[i], transaction_id, sealed)
        <5>1. p # NULLPOINTER /\ p \in DOMAIN blocks
          BY <2>1, <3>2 DEF Kept
        <5>2. PICK S : S = {j \in 1 .. n : ~Visible(blocks[p].entries[j].deletion, t)}
          OBVIOUS
        <5>3. kept = Picked(blocks[p].entries, S)
          BY <3>2, <5>1, <5>2 DEF Kept
        <5>4. blocks[p].entries \in Seq(EntryRec)
          BY <1>0, <5>1, BlockFields
        <5>5. \A x \in DOMAIN Picked(blocks[p].entries, S) : \E j \in DOMAIN blocks[p].entries :
                j \in S /\ Picked(blocks[p].entries, S)[x] = blocks[p].entries[j]
          BY <5>4, PickedType
        <5>6. PICK j \in DOMAIN blocks[p].entries : kept[i] = blocks[p].entries[j]
          BY <5>3, <5>5
        <5> QED BY <1>0, <5>1, <5>6 DEF BlocksGood, GoodBlock
      <4> QED BY <3>4, <3>11, <3>17, <4>2, <4>3 DEF GoodBlock
    <3>19. BlocksGood(chained, transaction_id, sealed)
      <4>1. ASSUME NEW r \in DOMAIN chained PROVE GoodBlock(chained[r], transaction_id, sealed)
        <5>1. CASE r = q
          BY <3>12, <3>18, <5>1
        <5>2. CASE r # q
          <6>1. r \in DOMAIN blocks
            BY <2>4, <3>1, <3>12, <5>2
          <6> QED BY <1>0, <3>12, <6>1 DEF BlocksGood
        <5> QED BY <5>1, <5>2
      <4> QED BY <4>1 DEF BlocksGood
    <3>20. Fits(chained[q].order, k + 1) /\ u.id \in 1 .. transaction_id
      BY <1>2, <1>6, <3>11, <3>12, <3>14, <3>17
    <3> QED BY <1>0, <2>3, <3>10, <3>12, <3>13, <3>14, <3>15, <3>19, <3>20, PutInGood
  <2> QED BY <2>5, <2>6
<1> QED BY <1>7, <1>8

LEMMA DelEdgeGood ==
  ASSUME Basic, CommitsInv, StoreInv, NEW c \in Client, NEW l \in Label, NEW d \in Dst, DelEdge(c, l, d)
  PROVE  BlocksGood(blocks', transaction_id, sealed)
PROOF
<1>0. Types /\ TailInv /\ BlocksGood(blocks, transaction_id, sealed)
  BY DEF Basic, StoreInv
<1>1. PICK t : t = Locked(c)
  OBVIOUS
<1>2. /\ t \in TxnRec /\ t.id = txn[c].id /\ t.read = txn[c].read /\ t.ptrs = txn[c].ptrs
      /\ t.tails = txn[c].tails /\ t.own = txn[c].own
  BY <1>0, <1>1, LockedFacts
<1>3. PICK p : p = Located(t, l)
  OBVIOUS
<1>5. Operate(c)
  BY DEF DelEdge
<1>6. pc[c] = "open" /\ (txn[c].locked \/ vertex_futex = 0) /\ txn[c].id \in 1 .. transaction_id
  BY <1>5, WriterId
<1>7. CASE Conflict(t, l) \/ p = NULLPOINTER
  <2>1. blocks' = blocks
    BY <1>1, <1>3, <1>7 DEF DelEdge
  <2> QED BY <1>0, <2>1
<1>8. CASE ~Conflict(t, l) /\ p # NULLPOINTER
  <2>1. p \in DOMAIN blocks /\ NumEntries(t, p) \in Nat /\ NumEntries(t, p) <= Len(blocks[p].entries)
    BY <1>2, <1>3, <1>6, <1>8, FirstLook
  <2>2. PICK n \in Nat : n = NumEntries(t, p) /\ n <= Len(blocks[p].entries)
    BY <2>1
  <2>3. PICK old : old = FindEdge(blocks[p].entries, n, d, t)
    OBVIOUS
  <2>4. old \in 0 .. n
    BY <2>3, FindEdgeType
  <2>5. blocks' = IF old = 0 THEN blocks ELSE [blocks EXCEPT ![p].entries[old].deletion = -t.id]
    BY <1>1, <1>3, <1>8, <2>2, <2>3 DEF DelEdge
  <2>6. ASSUME old # 0 PROVE BlocksGood(blocks', transaction_id, sealed)
    <3>1. PICK s \in Seq(EntryRec) : s = blocks[p].entries
      BY <1>0, <2>1, BlockFields
    <3>2. PICK id \in Nat, seal \in Nat : id = transaction_id /\ seal = sealed
      BY <1>0 DEF Types, EpochInv
    <3>3. PICK m \in 1 .. id : m = t.id
      BY <1>2, <1>6, <3>2
    <3>4. -m \in TimesOf(id, seal) /\ -m \in Int
      BY <3>3 DEF TimesOf
    <3>5. old \in DOMAIN s
      BY <2>2, <2>4, <2>6, <3>1
    <3>6. PICK x \in Int : x = -m
      BY <3>4
    <3>7. LET v == [s EXCEPT ![old] = [s[old] EXCEPT !.deletion = x]] IN
              /\ v \in Seq(EntryRec) /\ Len(v) = Len(s)
              /\ \A i \in 1 .. Len(s) : v[i] = s[i] \/ v[i] = [s[i] EXCEPT !.deletion = x]
      BY <3>5, MarkedType
    <3>8. PICK v \in Seq(EntryRec) :
              /\ v = [s EXCEPT ![old] = [s[old] EXCEPT !.deletion = x]] /\ Len(v) = Len(s)
              /\ \A i \in 1 .. Len(s) : v[i] = s[i] \/ v[i] = [s[i] EXCEPT !.deletion = x]
      BY <3>7
    <3>9. blocks' = [blocks EXCEPT ![p].entries = v]
      BY <2>5, <2>6, <3>1, <3>3, <3>6, <3>8
    <3>10. GoodBlock(blocks[p], id, seal)
      BY <1>0, <2>1, <3>2 DEF BlocksGood
    <3>11. Fits(blocks[p].order, Len(v))
      BY <3>1, <3>8, <3>10 DEF GoodBlock
    <3>12. ASSUME NEW i \in DOMAIN v PROVE GoodEntry(v[i], id, seal)
      <4>1. i \in 1 .. Len(s) /\ i \in DOMAIN s
        BY <3>8
      <4>2. PICK y : y = s[i]
        OBVIOUS
      <4>3. y \in EntryRec /\ GoodEntry(y, id, seal)
        BY <3>1, <3>10, <4>1, <4>2 DEF GoodBlock
      <4>4. PICK z : z = [y EXCEPT !.deletion = x]
        OBVIOUS
      <4>5. z.deletion = x /\ z.creation = y.creation /\ z.data = y.data
        BY <4>3, <4>4, EntryDel
      <4>6. GoodEntry(z, id, seal)
        BY <3>4, <3>6, <4>3, <4>5 DEF GoodEntry
      <4>7. v[i] = y \/ v[i] = z
        BY <3>8, <4>1, <4>2, <4>4
      <4> QED BY <4>3, <4>6, <4>7
    <3>13. BlocksGood(blocks, id, seal) /\ blocks \in Seq(BlockRec)
      BY <1>0, <3>2 DEF Types
    <3>14. BlocksGood([blocks EXCEPT ![p].entries = v], id, seal)
      BY <2>1, <3>11, <3>12, <3>13, EntriesGood
    <3> QED BY <3>2, <3>9, <3>14
  <2>7. CASE old = 0
    BY <1>0, <2>5, <2>7
  <2> QED BY <2>6, <2>7
<1> QED BY <1>7, <1>8

LEMMA BlockGood ==
  ASSUME NEW chained \in Seq(BlockRec), NEW p \in DOMAIN chained, NEW b \in BlockRec, NEW id, NEW seal,
         BlocksGood(chained, id, seal), GoodBlock(b, id, seal)
  PROVE  BlocksGood([chained EXCEPT ![p] = b], id, seal)
PROOF
<1>1. PICK s : s = [chained EXCEPT ![p] = b]
  OBVIOUS
<1>2. DOMAIN s = DOMAIN chained /\ s[p] = b /\ \A o \in DOMAIN chained : o # p => s[o] = chained[o]
  BY <1>1, BlockWith
<1>3. \A o \in DOMAIN s : GoodBlock(s[o], id, seal)
  BY <1>2 DEF BlocksGood
<1> QED BY <1>1, <1>3 DEF BlocksGood

LEMMA EntryGood ==
  ASSUME NEW e \in EntryRec, NEW id, NEW seal, GoodEntry(e, id, seal),
         NEW time \in Int, time \in TimesOf(id, seal), time # 0
  PROVE  GoodEntry([e EXCEPT !.creation = time], id, seal) /\ GoodEntry([e EXCEPT !.deletion = time], id, seal)
PROOF
<1>1. /\ [e EXCEPT !.creation = time].creation = time /\ [e EXCEPT !.creation = time].deletion = e.deletion
      /\ [e EXCEPT !.creation = time].data = e.data
      /\ [e EXCEPT !.deletion = time].deletion = time /\ [e EXCEPT !.deletion = time].creation = e.creation
      /\ [e EXCEPT !.deletion = time].data = e.data
  BY DEF EntryRec
<1>2. PICK x, y : x = [e EXCEPT !.creation = time] /\ y = [e EXCEPT !.deletion = time]
  OBVIOUS
<1>3. GoodEntry(x, id, seal) /\ GoodEntry(y, id, seal)
  BY <1>1, <1>2 DEF GoodEntry
<1> QED BY <1>2, <1>3

\* One word of a block takes a time.
LEMMA SetWordGood ==
  ASSUME NEW chained \in Seq(BlockRec), NEW w \in WordRec, NEW id, NEW seal, BlocksGood(chained, id, seal),
         NEW time \in Int, time \in TimesOf(id, seal), time # 0,
         w.field # "label" => w.p \in DOMAIN chained,
         w.field \in {"creation", "deletion"} => w.i \in DOMAIN chained[w.p].entries
  PROVE  BlocksGood(SetWord(chained, w, time), id, seal)
PROOF
<1>0. w.field \in {"block", "committed", "creation", "deletion", "label"}
  BY DEF WordRec
<1>1. CASE w.field \in {"block", "committed"}
  <2>1. PICK p \in DOMAIN chained : p = w.p
    BY <1>1
  <2>2. chained[p] \in BlockRec /\ GoodBlock(chained[p], id, seal)
    BY DEF BlocksGood
  <2>3. PICK b, b2 : b = [chained[p] EXCEPT !.creation = time] /\ b2 = [chained[p] EXCEPT !.committed = time]
    OBVIOUS
  <2>4. /\ b \in BlockRec /\ b.creation = time /\ b.order = chained[p].order
        /\ b.committed = chained[p].committed /\ b.entries = chained[p].entries
        /\ b2 \in BlockRec /\ b2.creation = chained[p].creation /\ b2.order = chained[p].order
        /\ b2.committed = time /\ b2.entries = chained[p].entries
    BY <2>2, <2>3, BlockTimes
  <2>5. GoodBlock(b, id, seal) /\ GoodBlock(b2, id, seal)
    BY <2>2, <2>4 DEF GoodBlock
  <2>6. BlocksGood([chained EXCEPT ![p] = b], id, seal) /\ BlocksGood([chained EXCEPT ![p] = b2], id, seal)
    BY <2>4, <2>5, BlockGood
  <2>7. SetWord(chained, w, time) = [chained EXCEPT ![p] = b] \/ SetWord(chained, w, time) = [chained EXCEPT ![p] = b2]
    <3>1. CASE w.field = "block"
      BY <2>1, <2>3, <3>1 DEF SetWord
    <3>2. CASE w.field = "committed"
      BY <2>1, <2>3, <3>2 DEF SetWord
    <3> QED BY <1>1, <3>1, <3>2
  <2> QED BY <2>6, <2>7
<1>2. CASE w.field \in {"creation", "deletion"}
  <2>1. PICK p \in DOMAIN chained : p = w.p
    BY <1>2
  <2>2. PICK s, i : s = chained[p].entries /\ i = w.i
    OBVIOUS
  <2>3. s \in Seq(EntryRec) /\ i \in DOMAIN s /\ s[i] \in EntryRec /\ GoodBlock(chained[p], id, seal)
    <3>1. chained[p] \in BlockRec
      OBVIOUS
    <3>2. s \in Seq(EntryRec) /\ i \in DOMAIN s
      BY <1>2, <2>1, <2>2, <3>1 DEF BlockRec
    <3> QED BY <3>2 DEF BlocksGood
  <2>4. \A k \in DOMAIN s : GoodEntry(s[k], id, seal)
    BY <2>2, <2>3 DEF GoodBlock
  <2>5. PICK x, y : x = [s[i] EXCEPT !.creation = time] /\ y = [s[i] EXCEPT !.deletion = time]
    OBVIOUS
  <2>6. GoodEntry(x, id, seal) /\ GoodEntry(y, id, seal)
    BY <2>3, <2>4, <2>5, EntryGood
  <2>7. PICK z : z = IF w.field = "creation" THEN x ELSE y
    OBVIOUS
  <2>8. PICK e : e = [s EXCEPT ![i] = z]
    OBVIOUS
  <2>9. e \in Seq(EntryRec) /\ Len(e) = Len(s)
    <3>1. [s EXCEPT ![i] = x] \in Seq(EntryRec) /\ Len([s EXCEPT ![i] = x]) = Len(s)
      BY <2>3, <2>5, EntryTimes
    <3>2. [s EXCEPT ![i] = y] \in Seq(EntryRec) /\ Len([s EXCEPT ![i] = y]) = Len(s)
      BY <2>3, <2>5, EntryTimes
    <3> QED BY <2>7, <2>8, <3>1, <3>2
  <2>10. \A k \in DOMAIN e : GoodEntry(e[k], id, seal)
    BY <2>3, <2>4, <2>6, <2>7, <2>8
  <2>11. Fits(chained[p].order, Len(e))
    BY <2>2, <2>3, <2>9 DEF GoodBlock
  <2>12. BlocksGood([chained EXCEPT ![p].entries = e], id, seal)
    BY <2>9, <2>10, <2>11, EntriesGood
  <2>13. SetWord(chained, w, time) = [chained EXCEPT ![p].entries = e]
    <3>1. CASE w.field = "creation"
      <4>1. SetWord(chained, w, time) = [chained EXCEPT ![p].entries[i].creation = time]
        BY <2>1, <2>2, <3>1 DEF SetWord
      <4> QED BY <2>2, <2>5, <2>7, <2>8, <3>1, <4>1
    <3>2. CASE w.field = "deletion"
      <4>1. SetWord(chained, w, time) = [chained EXCEPT ![p].entries[i].deletion = time]
        BY <2>1, <2>2, <3>2 DEF SetWord
      <4> QED BY <2>2, <2>5, <2>7, <2>8, <3>2, <4>1
    <3> QED BY <1>2, <3>1, <3>2
  <2> QED BY <2>12, <2>13
<1>3. CASE w.field = "label"
  <2>1. SetWord(chained, w, time) = chained
    BY <1>3 DEF SetWord
  <2> QED BY <2>1
<1> QED BY <1>0, <1>1, <1>2, <1>3

LEMMA OwnAll ==
  ASSUME Basic, StoreInv, NEW c \in Client
  PROVE  txn[c].own \subseteq DOMAIN blocks
PROOF
<1>1. PlaceOf(c) /\ RefsOf(c) /\ OwnOf(c)
  BY DEF Basic, PlaceInv, RefsInv, StoreInv
<1>2. CASE Writer(c)
  BY <1>1, <1>2 DEF RefsOf
<1>3. CASE pc[c] \in {"clean", "leave"}
  BY <1>1, <1>3 DEF OwnOf
<1>4. CASE ~txn[c].locked
  BY <1>1, <1>4 DEF PlaceOf, Bare
<1> QED BY <1>1, <1>2, <1>3, <1>4 DEF PlaceOf

\* A transaction on its way out has the blocks it had.
LEMMA OwnKept ==
  ASSUME Basic, StoreInv, NEW c \in Client, DOMAIN blocks \subseteq DOMAIN blocks',
         pc'[c] \in {"clean", "leave"} => txn'[c].own \subseteq txn[c].own
  PROVE  OwnOf(c)'
BY OwnAll DEF OwnOf

\* Steps that do not write to the store.
LEMMA QuietGood ==
  ASSUME Basic, StoreInv, NEW c \in Client, QuietStep(c),
         pc'[c] \in {"clean", "leave"} => txn'[c].own \subseteq txn[c].own
  PROVE  StoreInv'
PROOF
<1>1. /\ UNCHANGED <<labels, blocks, freed, freedLabels>> /\ sealed' = sealed
      /\ transaction_id' \in Nat /\ transaction_id <= transaction_id'
      /\ \A d \in Client \ {c} : Same(d)
  BY DEF QuietStep, Alone, store
<1>2. Types /\ sealed \in Nat
  BY DEF Basic, Types, EpochInv
<1>3. sealed' \in Nat /\ sealed <= sealed'
  BY <1>1, <1>2
<1>4. ASSUME NEW d \in Client PROVE OwnOf(d)'
  <2>1. pc'[d] \in {"clean", "leave"} => txn'[d].own \subseteq txn[d].own
    BY <1>1 DEF Same
  <2> QED BY <1>1, <2>1, OwnKept
<1> QED BY <1>1, <1>2, <1>3, <1>4, StoreKept

LEMMA ScanGood ==
  ASSUME Basic, StoreInv, NEW c \in Client, ScanStep(c)
  PROVE  StoreInv'
PROOF
<1>1. QuietStep(c)
  BY ScanQuiet
<1>2. pc'[c] \notin {"clean", "leave"}
  BY DEF ScanStep, InScan
<1> QED BY <1>1, <1>2, QuietGood

LEMMA CallQuietGood ==
  ASSUME Basic, CommitsInv, StoreInv, NEW c \in Client,
         Begin(c) \/ Commit(c) \/ Compact(c) \/ (Abort(c) /\ ~txn[c].locked)
  PROVE  StoreInv'
PROOF
<1>0. pc \in [Client -> Place]
  BY DEF Basic, Types
<1>1. CASE Begin(c)
  <2>1. pc'[c] \in {"scan", "open"}
    BY <1>0, <1>1 DEF Begin, Goto
  <2> QED BY <1>1, <2>1, BeginQuiet, QuietGood
<1>2. CASE Commit(c)
  <2>1. txn' = txn
    BY <1>2 DEF Commit
  <2> QED BY <1>2, <2>1, CommitQuiet, QuietGood
<1>3. CASE Compact(c)
  <2>1. txn' = txn
    BY <1>3 DEF Compact, Compacting
  <2> QED BY <1>3, <2>1, CompactQuiet, QuietGood
<1>4. CASE Abort(c) /\ ~txn[c].locked
  <2>1. txn' = txn
    BY <1>4 DEF Abort
  <2> QED BY <1>4, <2>1, AbortQuiet, QuietGood
<1> QED BY <1>1, <1>2, <1>3, <1>4

LEMMA EndQuietGood ==
  ASSUME Basic, StoreInv, NEW c \in Client,
         Leave(c) \/ (\E wait \in BOOLEAN : FinishCommit(c, wait)) \/ Spin(c)
  PROVE  StoreInv'
PROOF
<1>0. pc \in [Client -> Place]
  BY DEF Basic, Types
<1>1. CASE Leave(c)
  <2>1. pc'[c] \in {"finish", "idle"}
    BY <1>0, <1>1 DEF Leave, Goto
  <2> QED BY <1>1, <2>1, LeaveQuiet, QuietGood
<1>2. CASE (\E wait \in BOOLEAN : FinishCommit(c, wait)) \/ Spin(c)
  <2>1. txn' = txn
    BY <1>2 DEF FinishCommit, Spin
  <2> QED BY <1>2, <2>1, FinishQuiet, QuietGood
<1> QED BY <1>1, <1>2

LEMMA CompactQuietGood ==
  ASSUME Basic, CommitsInv, StoreInv, NEW c \in Client, ScanTable(c) \/ CompactSkip(c) \/ Compacted(c)
  PROVE  StoreInv'
PROOF
<1>1. txn' = txn
  BY DEF ScanTable, CompactSkip, Compacted, Compacting
<1> QED BY <1>1, ScanTableQuiet, CompactedQuiet, QuietGood

\* The server's steps, the release of the lock, and no step.
LEMMA SameStoreGood ==
  ASSUME Basic, StoreInv, UNCHANGED <<labels, blocks, freed, freedLabels, transaction_id>>,
         sealed' \in Nat, sealed <= sealed',
         \A c \in Client : pc'[c] \in {"clean", "leave"} => txn'[c].own \subseteq txn[c].own
  PROVE  StoreInv'
PROOF
<1>1. Types /\ transaction_id \in Nat
  BY DEF Basic, Types
<1>2. transaction_id' \in Nat /\ transaction_id <= transaction_id'
  BY <1>1
<1>3. \A c \in Client : OwnOf(c)'
  BY OwnKept
<1> QED BY <1>1, <1>2, <1>3, StoreKept

LEMMA ServerGood ==
  ASSUME Basic, StoreInv,
         \/ Publish
         \/ UNCHANGED vars
         \/ \E G \in SUBSET Client : RegisterGroup(G)
         \/ \E c \in Client : Clean(c)
  PROVE  StoreInv'
PROOF
<1>0. sealed \in Nat
  BY DEF Basic, Types, EpochInv
<1>1. ASSUME UNCHANGED <<labels, blocks, freed, freedLabels, transaction_id, sealed, txn>> PROVE StoreInv'
  BY <1>0, <1>1, SameStoreGood
<1>2. CASE Publish
  BY <1>1, <1>2 DEF Publish, MakeVisible, store
<1>3. CASE UNCHANGED vars
  BY <1>1, <1>3 DEF vars, epochsVars, store
<1>4. CASE \E c \in Client : Clean(c)
  BY <1>1, <1>4 DEF Clean, epochsVars, store
<1>5. ASSUME NEW G \in SUBSET Client, RegisterGroup(G) PROVE StoreInv'
  <2>1. /\ UNCHANGED <<labels, blocks, transaction_id>> /\ sealed' = sealed + 1
        /\ \A d \in G : Granted(d)
        /\ \A d \in Client \ G : Same(d)
    BY <1>5, GroupFacts
  <2>2. UNCHANGED <<freed, freedLabels>>
    BY <1>5 DEF RegisterGroup, store
  <2>3. sealed' \in Nat /\ sealed <= sealed'
    BY <1>0, <2>1
  <2>4. ASSUME NEW d \in Client PROVE txn'[d].own \subseteq txn[d].own
    BY <2>1 DEF Granted, Same
  <2> QED BY <2>1, <2>2, <2>3, <2>4, SameStoreGood
<1> QED BY <1>2, <1>3, <1>4, <1>5

\* Steps that write to the store.
LEMMA WriteGood ==
  ASSUME Basic, CommitsInv, StoreInv, NEW c \in Client, NEW l \in Label, NEW d \in Dst,
         PutEdge(c, l, d) \/ DelEdge(c, l, d)
  PROVE  StoreInv'
PROOF
<1>1. Operate(c)
  BY DEF PutEdge, DelEdge
<1>2. pc[c] = "open" /\ UNCHANGED <<sealed, transaction_id, labels, freed, freedLabels, pc>>
  BY <1>1, WriterId
<1>3. BlocksGood(blocks', transaction_id, sealed)
  BY PutEdgeGood, DelEdgeGood
<1>4. DOMAIN blocks \subseteq DOMAIN blocks' /\ \A o \in Client \ {c} : txn'[o] = txn[o]
  <2>1. blocks \in Seq(BlockRec) /\ Len(blocks) \in Nat /\ DOMAIN blocks = 1 .. Len(blocks)
    BY DEF Basic, Types
  <2>2. (\E p, e, m, ws, chained : Edited(c, l, p, e, m, ws, chained)) \/ Looked(c, l)
    BY PutEdgeEdits, DelEdgeEdits
  <2>3. CASE Looked(c, l)
    BY <2>3 DEF Looked
  <2>4. CASE \E p, e, m, ws, chained : Edited(c, l, p, e, m, ws, chained)
    <3>1. PICK p, e, m, ws, chained : Edited(c, l, p, e, m, ws, chained)
      BY <2>4
    <3>2. /\ \A o \in Client \ {c} : txn'[o] = txn[o]
          /\ chained \in Seq(BlockRec) /\ Len(blocks) <= Len(chained) /\ blocks' = [chained EXCEPT ![p].entries = e]
      BY <3>1 DEF Edited
    <3>3. DOMAIN blocks' = DOMAIN chained
      BY <3>2
    <3>4. Len(chained) \in Nat /\ DOMAIN chained = 1 .. Len(chained)
      BY <3>2
    <3> QED BY <2>1, <3>2, <3>3, <3>4
  <2> QED BY <2>2, <2>3, <2>4
<1>5. ASSUME NEW o \in Client PROVE OwnOf(o)'
  <2>1. pc'[o] \in {"clean", "leave"} => txn'[o].own \subseteq txn[o].own
    BY <1>2, <1>4
  <2> QED BY <1>4, <2>1, OwnKept
<1> QED BY <1>2, <1>3, <1>4, <1>5 DEF StoreInv

\* A transaction that installs has an id and an epoch in use.
LEMMA InstallTimes ==
  ASSUME Basic, CommitsInv, NEW c \in Client, Installing(c)
  PROVE  /\ -txn[c].id \in TimesOf(transaction_id, sealed) /\ -txn[c].id \in Int
         /\ txn[c].epoch \in TimesOf(transaction_id, sealed) /\ txn[c].epoch \in Int /\ txn[c].epoch # 0
PROOF
<1>1. PlaceOf(c) /\ transaction_id \in Nat /\ sealed \in Nat
  BY DEF Basic, PlaceInv, Types, EpochInv
<1>2. txn[c].locked /\ pc[c] = "install"
  BY DEF Installing
<1>3. c \notin ReadOnly /\ txn[c].read >= 0 /\ txn[c].epoch \in 1 .. sealed /\ txn[c].read \in -1 .. visible
  BY <1>1, <1>2 DEF PlaceOf
<1>4. txn[c].id \in 1 .. transaction_id
  BY <1>1, <1>3 DEF PlaceOf
<1> QED BY <1>1, <1>3, <1>4 DEF TimesOf

LEMMA InstallsGood ==
  ASSUME Basic, StoreInv, NEW c \in Client, Installs(c), UNCHANGED <<freed, freedLabels>>,
         DOMAIN blocks \subseteq DOMAIN blocks', DOMAIN labels \subseteq DOMAIN labels',
         BlocksGood(blocks', transaction_id, sealed), LabelsGood(labels', transaction_id, sealed)
  PROVE  StoreInv'
PROOF
<1>1. /\ UNCHANGED <<sealed, transaction_id, pc>> /\ txn'[c].own = txn[c].own
      /\ \A d \in Client \ {c} : txn'[d] = txn[d]
  BY DEF Installs
<1>2. ASSUME NEW d \in Client PROVE OwnOf(d)'
  <2>1. txn'[d].own \subseteq txn[d].own
    BY <1>1
  <2> QED BY <2>1, OwnKept
<1> QED BY <1>1, <1>2 DEF StoreInv

LEMMA InstallTailGood ==
  ASSUME Basic, CommitsInv, StoreInv, NEW c \in Client, NEW p \in Pointer, InstallTail(c, p)
  PROVE  StoreInv'
PROOF
<1>1. /\ Installing(c) /\ Installs(c) /\ labels' = labels /\ p \in DOMAIN blocks /\ txn[c].tails[p] \in Nat
      /\ DOMAIN blocks' = DOMAIN blocks
  BY InstallTailDoes
<1>2. UNCHANGED <<freed, freedLabels>>
  BY DEF InstallTail, Committing
<1>3. PICK x \in Int, n \in Nat : x = -txn[c].id /\ n = txn[c].tails[p] /\ x \in TimesOf(transaction_id, sealed)
  BY <1>1, InstallTimes
<1>4. blocks \in Seq(BlockRec) /\ blocks[p] \in BlockRec /\ GoodBlock(blocks[p], transaction_id, sealed)
  BY <1>1 DEF Basic, Types, StoreInv, BlocksGood
<1>5. PICK b : b = [blocks[p] EXCEPT !.num = n, !.committed = x]
  OBVIOUS
<1>6. /\ b \in BlockRec /\ b.entries = blocks[p].entries /\ b.creation = blocks[p].creation
      /\ b.order = blocks[p].order /\ b.committed = x
  BY <1>4, <1>5 DEF BlockRec
<1>7. GoodBlock(b, transaction_id, sealed)
  BY <1>3, <1>4, <1>6 DEF GoodBlock
<1>8. blocks' = [blocks EXCEPT ![p] = b]
  <2>1. blocks' = [blocks EXCEPT ![p].num = n, ![p].committed = x]
    BY <1>3 DEF InstallTail
  <2> QED BY <1>1, <1>4, <1>5, <2>1
<1>9. BlocksGood(blocks', transaction_id, sealed)
  <2>1. BlocksGood(blocks, transaction_id, sealed)
    BY DEF StoreInv
  <2> QED BY <1>1, <1>4, <1>6, <1>7, <1>8, <2>1, BlockGood
<1>10. LabelsGood(labels', transaction_id, sealed)
  BY <1>1 DEF StoreInv
<1> QED BY <1>1, <1>2, <1>9, <1>10, InstallsGood

LEMMA InstallLabelGood ==
  ASSUME Basic, CommitsInv, StoreInv, NEW c \in Client, NEW l \in Label, InstallLabel(c, l)
  PROVE  StoreInv'
PROOF
<1>1. /\ Installing(c) /\ Installs(c) /\ blocks' = blocks
      /\ LabelsFit(labels) => LabelsFit(labels')
      /\ \A q \in DOMAIN labels : q \in DOMAIN labels' /\ labels'[q].creation = labels[q].creation
      /\ \A q \in DOMAIN labels' : q \in DOMAIN labels \/ labels'[q].creation = -txn[c].id
  BY InstallLabelDoes
<1>2. UNCHANGED <<freed, freedLabels>>
  BY DEF InstallLabel, Committing
<1>3. -txn[c].id \in TimesOf(transaction_id, sealed)
  BY <1>1, InstallTimes
<1>4. LabelsGood(labels, transaction_id, sealed) /\ BlocksGood(blocks, transaction_id, sealed)
  BY DEF StoreInv
<1>5. LabelsGood(labels', transaction_id, sealed)
  <2>1. LabelsFit(labels')
    BY <1>1, <1>4 DEF LabelsGood
  <2>2. ASSUME NEW q \in DOMAIN labels' PROVE labels'[q].creation \in TimesOf(transaction_id, sealed)
    BY <1>1, <1>3, <1>4 DEF LabelsGood
  <2> QED BY <2>1, <2>2 DEF LabelsGood
<1> QED BY <1>1, <1>2, <1>4, <1>5, InstallsGood

LEMMA StampGood ==
  ASSUME Basic, CommitsInv, StoreInv, NEW c \in Client, Stamp(c)
  PROVE  StoreInv'
PROOF
<1>0. Types /\ RefsOf(c) /\ labels \in Seq(LabelRec) /\ blocks \in Seq(BlockRec)
  BY DEF Basic, RefsInv, Types
<1>1. /\ Installing(c) /\ Installs(c) /\ SameLabels(labels, labels')
      /\ \E w \in WordRec : Restamped(blocks, blocks', w, txn[c].epoch)
  BY StampDoes
<1>2. DOMAIN blocks' = DOMAIN blocks /\ DOMAIN labels' = DOMAIN labels
  BY <1>1 DEF Restamped, SameLabels
<1>3. PICK s, w : s = txn[c].stamps /\ w = Head(s)
  OBVIOUS
<1>4. /\ Committing(c) /\ s # <<>>
      /\ blocks' = SetWord(blocks, w, txn[c].epoch)
      /\ labels' = IF w.field = "label" THEN [labels EXCEPT ![w.p].creation = txn[c].epoch] ELSE labels
  BY <1>3 DEF Stamp
<1>5. UNCHANGED <<freed, freedLabels>> /\ pc[c] = "install"
  BY <1>4, CommittingFacts
<1>6. s \in Seq(WordRec)
  BY <1>0, <1>3, TxnFields DEF Types
<1>7. w \in WordRec /\ w \in Members(s)
  BY <1>3, <1>4, <1>6, TailOf
<1>8. /\ w.field = "label" => w.p \in DOMAIN labels
      /\ w.field # "label" => w.p \in DOMAIN blocks
      /\ w.field \in {"creation", "deletion"} => w.i \in DOMAIN blocks[w.p].entries
  BY <1>0, <1>3, <1>5, <1>7 DEF RefsOf, Writer
<1>9. PICK k \in Int : k = txn[c].epoch /\ k \in TimesOf(transaction_id, sealed) /\ k # 0
  BY <1>1, InstallTimes
<1>10. BlocksGood(blocks, transaction_id, sealed) /\ LabelsGood(labels, transaction_id, sealed)
  BY DEF StoreInv
<1>11. BlocksGood(blocks', transaction_id, sealed)
  <2>1. BlocksGood(SetWord(blocks, w, k), transaction_id, sealed)
    BY <1>0, <1>7, <1>8, <1>9, <1>10, SetWordGood
  <2> QED BY <1>4, <1>9, <2>1
<1>12. LabelsGood(labels', transaction_id, sealed)
  <2>1. LabelsFit(labels')
    BY <1>1, <1>10 DEF LabelsGood, LabelsFit, SameLabels
  <2>2. ASSUME NEW q \in DOMAIN labels' PROVE labels'[q].creation \in TimesOf(transaction_id, sealed)
    <3>1. labels[q] \in LabelRec /\ q \in DOMAIN labels
      BY <1>0, <1>2
    <3>2. labels'[q].creation = labels[q].creation \/ labels'[q].creation = k
      BY <1>4, <1>9, <3>1 DEF LabelRec
    <3> QED BY <1>9, <1>10, <3>1, <3>2 DEF LabelsGood
  <2> QED BY <2>1, <2>2 DEF LabelsGood
<1> QED BY <1>1, <1>2, <1>5, <1>11, <1>12, InstallsGood

\* What compaction gives back is there.
LEMMA GarbageThere ==
  ASSUME NEW chained, Older(chained), NEW p \in 0 .. Len(chained), NEW bound
  PROVE  Garbage(chained, p, bound) \subseteq DOMAIN chained
PROOF
<1>1. Len(chained) \in Nat /\ DOMAIN chained = 1 .. Len(chained)
  BY DEF Older
<1>2. PICK cut : cut = Cut(chained, p, bound)
  OBVIOUS
<1>3. Chain(chained, p) \subseteq 1 .. p
  BY ChainFacts
<1>4. PICK S : S = {q \in Chain(chained, p) : Before(chained[q].creation, bound)}
  OBVIOUS
<1>5. S \subseteq 1 .. Len(chained)
  BY <1>1, <1>3, <1>4
<1>6. cut \in 0 .. Len(chained)
  BY <1>1, <1>2, <1>4, <1>5, NewestOf DEF Cut
<1>7. CASE cut # NULLPOINTER
  <2>1. chained[cut].prev \in 0 .. Len(chained)
    BY <1>1, <1>6, <1>7 DEF Older
  <2>2. Chain(chained, chained[cut].prev) \subseteq DOMAIN chained
    BY <2>1, ChainFacts
  <2> QED BY <1>2, <2>2 DEF Garbage
<1>8. CASE cut = NULLPOINTER
  BY <1>2, <1>8 DEF Garbage
<1> QED BY <1>7, <1>8

LEMMA AbortGood ==
  ASSUME Basic, CommitsInv, StoreInv, NEW c \in Client, Abort(c)
  PROVE  StoreInv'
PROOF
<1>0. Types /\ transaction_id \in Nat /\ sealed \in Nat /\ BlocksGood(blocks, transaction_id, sealed)
  BY DEF Basic, Types, EpochInv, StoreInv
<1>1. PICK words : words = Members(txn[c].stamps)
  OBVIOUS
<1>2. DOMAIN blocks' = DOMAIN blocks /\ \A p \in DOMAIN blocks : BlockUndone(blocks[p], blocks'[p], p, words)
  BY <1>0, <1>1, AbortDoes
<1>3. freed' = freed \cup txn[c].own /\ UNCHANGED <<sealed, transaction_id, labels, freedLabels, txn>>
  BY DEF Abort, epochsVars
<1>4. ROLLBACK_TOMBSTONE \in TimesOf(transaction_id, sealed) /\ ROLLBACK_TOMBSTONE # 0
  BY DEF TimesOf
<1>5. ASSUME NEW p \in DOMAIN blocks PROVE GoodBlock(blocks'[p], transaction_id, sealed)
  <2>1. GoodBlock(blocks[p], transaction_id, sealed)
    BY <1>0 DEF BlocksGood
  <2>2. BlockUndone(blocks[p], blocks'[p], p, words)
    BY <1>2
  <2>3. PICK b, b2 : b = blocks[p] /\ b2 = blocks'[p]
    OBVIOUS
  <2>4. ASSUME NEW i \in DOMAIN b2.entries PROVE GoodEntry(b2.entries[i], transaction_id, sealed)
    <3>1. i \in DOMAIN b.entries
      BY <2>2, <2>3 DEF BlockUndone
    <3>2. PICK e, e2 : e = b.entries[i] /\ e2 = b2.entries[i]
      OBVIOUS
    <3>3. /\ e2.data = e.data
          /\ e2.creation = ROLLBACK_TOMBSTONE \/ e2.creation = e.creation
          /\ e2.deletion = ROLLBACK_TOMBSTONE \/ e2.deletion = e.deletion
      BY <2>2, <2>3, <3>1, <3>2 DEF BlockUndone
    <3>4. GoodEntry(e, transaction_id, sealed)
      BY <2>1, <2>3, <3>1, <3>2 DEF GoodBlock
    <3>5. GoodEntry(e2, transaction_id, sealed)
      BY <1>4, <3>3, <3>4 DEF GoodEntry
    <3> QED BY <3>2, <3>5
  <2>5. /\ b2.committed = b.committed /\ b2.order = b.order /\ Len(b2.entries) = Len(b.entries)
        /\ b2.creation = ROLLBACK_TOMBSTONE \/ b2.creation = b.creation
    BY <2>2, <2>3 DEF BlockUndone
  <2>6. GoodBlock(b2, transaction_id, sealed)
    BY <1>4, <2>1, <2>3, <2>4, <2>5 DEF GoodBlock
  <2> QED BY <2>3, <2>6
<1>6. BlocksGood(blocks', transaction_id, sealed)
  BY <1>2, <1>5 DEF BlocksGood
<1>7. freed' \subseteq DOMAIN blocks'
  <2>1. txn[c].own \subseteq DOMAIN blocks /\ freed \subseteq DOMAIN blocks
    BY OwnAll DEF StoreInv
  <2> QED BY <1>2, <1>3, <2>1
<1>8. ASSUME NEW d \in Client PROVE OwnOf(d)'
  BY <1>2, <1>3, OwnKept
<1> QED BY <1>3, <1>6, <1>7, <1>8 DEF StoreInv

LEMMA CompactLabelsGood ==
  ASSUME Basic, CommitsInv, StoreInv, NEW c \in Client, CompactLabels(c)
  PROVE  StoreInv'
PROOF
<1>1. PICK b, lb : b = compaction[c].bound /\ lb = edge_label_ptr
  OBVIOUS
<1>2. /\ labels' = CutUnder(labels, lb, b) /\ freedLabels' = freedLabels \cup Garbage(labels, lb, b)
      /\ UNCHANGED <<blocks, freed, sealed, transaction_id, txn>>
  BY <1>1 DEF CompactLabels, Compacting, epochsVars
<1>3. labels \in Seq(LabelRec) /\ Older(labels) /\ lb \in 0 .. Len(labels)
  BY <1>1 DEF Basic, Types, OlderInv
<1>4. /\ DOMAIN labels' = DOMAIN labels
      /\ \A q \in DOMAIN labels :
           /\ labels'[q].creation = labels[q].creation /\ labels'[q].order = labels[q].order
           /\ labels'[q].entries = labels[q].entries
  BY <1>2, <1>3, CutLabels
<1>5. LabelsGood(labels', transaction_id, sealed)
  BY <1>4 DEF StoreInv, LabelsGood, LabelsFit
<1>6. Garbage(labels, lb, b) \subseteq DOMAIN labels
  BY <1>3, GarbageThere
<1>7. freedLabels' \subseteq DOMAIN labels'
  BY <1>2, <1>4, <1>6 DEF StoreInv
<1>8. ASSUME NEW d \in Client PROVE OwnOf(d)'
  BY <1>2, OwnKept
<1> QED BY <1>2, <1>5, <1>7, <1>8 DEF StoreInv

LEMMA CompactLabelGood ==
  ASSUME Basic, CommitsInv, StoreInv, NEW c \in Client, NEW i \in compaction[c].todo, CompactLabel(c, i)
  PROVE  StoreInv'
PROOF
<1>0. /\ Types /\ BlocksGood(blocks, transaction_id, sealed) /\ LabelsGood(labels, transaction_id, sealed)
      /\ freed \subseteq DOMAIN blocks /\ freedLabels \subseteq DOMAIN labels
  BY DEF Basic, StoreInv
<1>1. /\ UNCHANGED <<sealed, transaction_id, txn, freedLabels>> /\ pc[c] = "compact"
      /\ labels' \in Seq(LabelRec) /\ Len(labels') = Len(labels)
      /\ \A q \in DOMAIN labels : labels'[q].creation = labels[q].creation
      /\ LabelsFit(labels) => LabelsFit(labels')
  BY CompactLabelDoes
<1>2. DOMAIN labels' = DOMAIN labels
  BY <1>0, <1>1 DEF Types
<1>3. PICK b \in 0 .. sealed : b = compaction[c].bound
  <2>1. BoundOf(c) /\ visible \in 0 .. sealed /\ compaction[c] \in CompactionRec /\ sealed \in Nat
    BY <1>0 DEF CommitsInv, BoundInv, Types, EpochInv
  <2>2. compaction[c].bound \in Nat
    BY <2>1 DEF CompactionRec
  <2>3. compaction[c].bound <= visible
    BY <1>1, <2>1 DEF BoundOf, Old
  <2> QED BY <2>1, <2>2, <2>3
<1>4. PICK p \in DOMAIN blocks :
        /\ CutAt(blocks', p, b) /\ freed' = freed \cup Garbage(blocks, p, b)
        /\ \/ DOMAIN blocks' = DOMAIN blocks
           \/ Copied(blocks', Len(blocks) + 1, p, b) /\ DOMAIN blocks' = DOMAIN blocks \cup {Len(blocks) + 1}
  <2>1. \E p \in DOMAIN blocks, l \in AnyLabel :
          /\ p = HeadOf(l) /\ CutAt(blocks', p, compaction[c].bound)
          /\ freed' = freed \cup Garbage(blocks, p, compaction[c].bound)
          /\ \/ DOMAIN blocks' = DOMAIN blocks /\ labels' = labels
             \/ /\ Copied(blocks', Len(blocks) + 1, p, compaction[c].bound)
                /\ DOMAIN blocks' = DOMAIN blocks \cup {Len(blocks) + 1}
                /\ HeadOf(l)' = Len(blocks) + 1 /\ \A k : k # l => HeadOf(k)' = HeadOf(k)
    BY CompactLabelDoes
  <2> QED BY <1>3, <2>1
<1>5. ASSUME NEW q \in DOMAIN blocks PROVE GoodBlock(blocks'[q], transaction_id, sealed)
  <2>1. GoodBlock(blocks[q], transaction_id, sealed)
    BY <1>0 DEF BlocksGood
  <2>2. /\ blocks'[q].creation = blocks[q].creation /\ blocks'[q].committed = blocks[q].committed
        /\ blocks'[q].order = blocks[q].order /\ blocks'[q].entries = blocks[q].entries
    BY <1>4 DEF CutAt
  <2> QED BY <2>1, <2>2 DEF GoodBlock
<1>6. ASSUME NEW n, Copied(blocks', n, p, b) PROVE GoodBlock(blocks'[n], transaction_id, sealed)
  <2>1. PICK kept : kept = Survivors(p, b)
    OBVIOUS
  <2>2. /\ blocks'[n].creation = b /\ blocks'[n].committed = blocks[p].committed /\ blocks'[n].entries = kept
        /\ blocks'[n].order = BlockOrder(Len(kept))
    BY <1>6, <2>1 DEF Copied
  <2>3. GoodBlock(blocks[p], transaction_id, sealed) /\ blocks[p].entries \in Seq(EntryRec)
    BY <1>0, BlockFields DEF BlocksGood
  <2>4. kept \in Seq(EntryRec) /\ Len(kept) \in Nat
    <3>1. kept \in Seq(EntryRec)
      BY <1>0, <2>1, SurvivorsType
    <3> QED BY <3>1
  <2>5. Fits(BlockOrder(Len(kept)), Len(kept))
    BY <2>4, BlockOrderFits DEF Fits
  <2>6. ASSUME NEW j \in DOMAIN kept PROVE GoodEntry(kept[j], transaction_id, sealed)
    <3>1. PICK S : kept = Picked(blocks[p].entries, S)
      BY <2>1 DEF Survivors
    <3>2. PICK k \in DOMAIN blocks[p].entries : kept[j] = blocks[p].entries[k]
      BY <2>3, <3>1, PickedType
    <3> QED BY <2>3, <3>2 DEF GoodBlock
  <2>7. b \in TimesOf(transaction_id, sealed)
    BY <1>0, <1>3 DEF TimesOf, Types, EpochInv
  <2> QED BY <2>2, <2>3, <2>5, <2>6, <2>7 DEF GoodBlock
<1>7. BlocksGood(blocks', transaction_id, sealed)
  BY <1>4, <1>5, <1>6 DEF BlocksGood
<1>8. LabelsGood(labels', transaction_id, sealed)
  BY <1>0, <1>1, <1>2 DEF LabelsGood
<1>9. freed' \subseteq DOMAIN blocks' /\ DOMAIN blocks \subseteq DOMAIN blocks'
  <2>1. blocks \in Seq(BlockRec) /\ Older(blocks) /\ p \in 0 .. Len(blocks)
    BY <1>0 DEF Basic, Types, OlderInv
  <2>2. Garbage(blocks, p, b) \subseteq DOMAIN blocks
    BY <2>1, GarbageThere
  <2> QED BY <1>0, <1>4, <2>2
<1>10. ASSUME NEW d \in Client PROVE OwnOf(d)'
  BY <1>1, <1>9, OwnKept
<1> QED BY <1>0, <1>1, <1>2, <1>7, <1>8, <1>9, <1>10 DEF StoreInv

LEMMA StoreStep ==
  ASSUME Basic, CommitsInv, StoreInv, [Next]_vars
  PROVE  StoreInv'
PROOF
<1>1. ASSUME NEW c \in Client, Call(c) PROVE StoreInv'
  <2>1. CASE Begin(c) \/ Commit(c) \/ Compact(c)
    BY <2>1, CallQuietGood
  <2>2. CASE Abort(c)
    BY <2>2, AbortGood
  <2>3. ASSUME NEW l \in Label, NEW want, NEW one, NEW reverse, GetEdges(c, l, want, one, reverse) PROVE StoreInv'
    BY <2>3, GetEdgesStep, ScanGood
  <2>4. ASSUME NEW l \in Label, NEW d \in Dst, PutEdge(c, l, d) \/ DelEdge(c, l, d) PROVE StoreInv'
    BY <2>4, WriteGood
  <2> QED BY <1>1, <2>1, <2>2, <2>3, <2>4 DEF Call
<1>2. ASSUME NEW c \in Client, Reading(c) PROVE StoreInv'
  <2>1. ScanStep(c)
    <3>1. CASE ReadLabel(c)
      BY <3>1, ReadLabelStep
    <3>2. CASE Walk(c)
      BY <3>2, WalkStep
    <3>3. CASE LoadTail(c)
      BY <3>3, LoadTailStep
    <3>4. CASE NextEntry(c)
      BY <3>4, NextEntryStep
    <3>5. CASE Return(c)
      BY <3>5, ReturnStep
    <3> QED BY <1>2, <3>1, <3>2, <3>3, <3>4, <3>5 DEF Reading
  <2> QED BY <2>1, ScanGood
<1>3. ASSUME NEW c \in Client, Ending(c) PROVE StoreInv'
  <2>1. ASSUME NEW p \in Pointer, InstallTail(c, p) PROVE StoreInv'
    BY <2>1, InstallTailGood
  <2>2. ASSUME NEW l \in Label, InstallLabel(c, l) PROVE StoreInv'
    BY <2>2, InstallLabelGood
  <2>3. CASE Stamp(c)
    BY <2>3, StampGood
  <2>4. CASE Clean(c)
    BY <2>4, ServerGood
  <2>5. CASE Leave(c) \/ (\E wait \in BOOLEAN : FinishCommit(c, wait)) \/ Spin(c)
    BY <2>5, EndQuietGood
  <2> QED BY <1>3, <2>1, <2>2, <2>3, <2>4, <2>5 DEF Ending
<1>4. ASSUME NEW c \in Client, Compactor(c) PROVE StoreInv'
  <2>1. CASE ScanTable(c) \/ CompactSkip(c) \/ Compacted(c)
    BY <2>1, CompactQuietGood
  <2>2. CASE CompactLabels(c)
    BY <2>2, CompactLabelsGood
  <2>3. ASSUME NEW i \in compaction[c].todo, CompactLabel(c, i) PROVE StoreInv'
    BY <2>3, CompactLabelGood
  <2> QED BY <1>4, <2>1, <2>2, <2>3 DEF Compactor
<1>5. CASE Publish \/ UNCHANGED vars \/ \E G \in SUBSET Client : RegisterGroup(G)
  BY <1>5, ServerGood
<1> QED BY <1>1, <1>2, <1>3, <1>4, <1>5 DEF Next

LEMMA StoreInit == Init => StoreInv
PROOF
<1> SUFFICES ASSUME Init PROVE StoreInv
  OBVIOUS
<1>1. /\ \A p \in DOMAIN blocks : LoadedFits(blocks[p])
      /\ LabelsFit(labels) /\ \A q \in DOMAIN labels : labels[q].creation = 0
  BY InitStore
<1>2. /\ transaction_id = 0 /\ sealed = 0 /\ freed = {} /\ freedLabels = {}
      /\ pc = [c \in Client |-> "idle"]
  BY DEF Init, EpochsInit
<1>3. TimesOf(0, 0) = {0, ROLLBACK_TOMBSTONE} /\ 0 \in 0 .. 0
  BY DEF TimesOf
<1>4. BlocksGood(blocks, 0, 0)
  <2>1. ASSUME NEW p \in DOMAIN blocks PROVE GoodBlock(blocks[p], 0, 0)
    <3>1. PICK b : b = blocks[p]
      OBVIOUS
    <3>2. /\ b.creation = 0 /\ b.committed = 0
          /\ 48 + Len(b.entries) * EntrySize + Filter(b.order) <= Bytes[b.order]
          /\ \A i \in DOMAIN b.entries :
               /\ b.entries[i].creation = 0 /\ b.entries[i].data = 0
               /\ b.entries[i].deletion \in {0, ROLLBACK_TOMBSTONE}
      BY <1>1, <3>1 DEF LoadedFits
    <3>3. \A i \in DOMAIN b.entries : GoodEntry(b.entries[i], 0, 0)
      BY <1>3, <3>2 DEF GoodEntry
    <3>4. GoodBlock(b, 0, 0)
      BY <1>3, <3>2, <3>3 DEF GoodBlock, Fits
    <3> QED BY <3>1, <3>4
  <2> QED BY <2>1 DEF BlocksGood
<1>5. LabelsGood(labels, 0, 0)
  BY <1>1, <1>3 DEF LabelsGood
<1>6. \A c \in Client : OwnOf(c)
  BY <1>2 DEF OwnOf
<1> QED BY <1>2, <1>4, <1>5, <1>6 DEF StoreInv

LEMMA StoreTypes ==
  ASSUME Basic, StoreInv
  PROVE  TypeOK
PROOF
<1>0. /\ Types /\ OlderInv /\ LabelsInv /\ TailInv /\ LockInv
      /\ blocks \in Seq(BlockRec) /\ labels \in Seq(LabelRec)
      /\ BlocksGood(blocks, transaction_id, sealed) /\ LabelsGood(labels, transaction_id, sealed)
  BY DEF Basic, Types, StoreInv
<1>1. TimesOf(transaction_id, sealed) = Times
  BY DEF TimesOf, Times
<1>2. ASSUME NEW p \in DOMAIN blocks
      PROVE  LET b == blocks[p] IN
             /\ b.creation \in Times /\ b.committed \in Times /\ b.prev \in 0 .. p - 1
             /\ b.num <= Len(b.entries) /\ 48 + Len(b.entries) * EntrySize + Filter(b.order) <= Bytes[b.order]
             /\ \A i \in DOMAIN b.entries :
                  /\ b.entries[i].dst \in AllDst /\ b.entries[i].data \in 0 .. transaction_id
                  /\ b.entries[i].creation \in Times /\ b.entries[i].deletion \in Times
                  /\ b.entries[i].creation = 0 => b.entries[i].data = 0
  <2>1. PICK b : b = blocks[p]
    OBVIOUS
  <2>2. GoodBlock(b, transaction_id, sealed) /\ b.prev \in 0 .. p - 1 /\ b.num <= Len(b.entries)
    BY <1>0, <2>1 DEF BlocksGood, OlderInv, Older, TailInv
  <2>3. b.entries \in Seq(EntryRec)
    BY <1>0, <2>1, BlockFields
  <2>4. \A i \in DOMAIN b.entries : b.entries[i].dst \in AllDst
    <3>1. \A i \in DOMAIN b.entries : b.entries[i] \in EntryRec
      BY <2>3
    <3> QED BY <3>1 DEF EntryRec
  <2>5. \A i \in DOMAIN b.entries :
          /\ b.entries[i].data \in 0 .. transaction_id
          /\ b.entries[i].creation \in Times /\ b.entries[i].deletion \in Times
          /\ b.entries[i].creation = 0 => b.entries[i].data = 0
    BY <1>1, <2>2, Zenon DEF GoodBlock, GoodEntry
  <2>6. /\ b.creation \in Times /\ b.committed \in Times
        /\ 48 + Len(b.entries) * EntrySize + Filter(b.order) <= Bytes[b.order]
    BY <1>1, <2>2, Zenon DEF GoodBlock, Fits
  <2> QED BY <2>1, <2>2, <2>4, <2>5, <2>6
<1>3. ASSUME NEW q \in DOMAIN labels
      PROVE  /\ labels[q].creation \in Times /\ labels[q].prev \in 0 .. q - 1
             /\ 32 + Len(labels[q].entries) * 16 <= Bytes[labels[q].order]
             /\ \A i \in DOMAIN labels[q].entries : labels[q].entries[i].ptr \in DOMAIN blocks
  BY <1>0, <1>1 DEF LabelsGood, LabelsFit, EntriesFit, OlderInv, Older, LabelsInv
<1>4. ASSUME NEW c \in Client
      PROVE  /\ txn[c].read \in -1 .. visible /\ txn[c].own \subseteq DOMAIN blocks
             /\ scan[c].ptr \in 0 .. Len(blocks) /\ scan[c].lb \in 0 .. Len(labels)
  <2>1. txn[c].read \in -1 .. visible
    BY DEF Basic, PlaceInv, PlaceOf
  <2>2. txn[c].own \subseteq DOMAIN blocks
    BY OwnAll
  <2>3. scan[c].ptr <= Len(blocks) /\ scan[c].lb <= Len(labels)
    BY DEF Basic, RefsInv, RefsOf
  <2>4. scan[c].ptr \in Nat /\ scan[c].lb \in Nat /\ Len(blocks) \in Nat /\ Len(labels) \in Nat
    BY <1>0 DEF Types, IsScan
  <2> QED BY <2>1, <2>2, <2>3, <2>4
<1>5. /\ vertex_futex \in {0, 1} /\ edge_label_ptr \in 0 .. Len(labels)
      /\ freed \subseteq DOMAIN blocks /\ freedLabels \subseteq DOMAIN labels
  BY <1>0 DEF LockInv, Types, StoreInv
<1> QED BY <1>2, <1>3, <1>4, <1>5 DEF TypeOK

\* Types of the store: tails within the blocks' entries, entries that fit beside the filter, times in use, blocks
\* and labels that are there, and no entry from a transaction with creation time 0, which every snapshot has.
THEOREM Typing == Spec => []TypeOK
PROOF
<1>1. Init => StoreInv
  BY StoreInit
<1>2. Inv /\ StoreInv /\ [Next]_vars => StoreInv'
  BY StoreStep DEF Inv
<1>3. Inv /\ StoreInv => TypeOK
  BY StoreTypes DEF Inv
<1> QED BY <1>1, <1>2, <1>3, Invariance, PTL DEF Spec

-----------------------------------------------------------------------------
(* Nobody reads what was given back *)

\* What is not given back is linked to nothing that is, and no two of it to the same.
Forest(chained, gone) ==
  \A p \in DOMAIN chained \ gone :
    /\ chained[p].prev \notin gone
    /\ \A q \in DOMAIN chained \ gone : chained[q].prev = chained[p].prev => q = p \/ chained[p].prev = NULLPOINTER

\* Nothing is linked to a root.
Root(chained, gone, h) ==
  h = NULLPOINTER \/ (h \notin gone /\ \A p \in DOMAIN chained \ gone : chained[p].prev # h)
RootsOf(chained, gone, H) ==
  \A l \in DOMAIN H :
    /\ Root(chained, gone, H[l])
    /\ \A m \in DOMAIN H : H[l] = H[m] => l = m \/ H[l] = NULLPOINTER

\* On the way down to p nobody with this snapshot has passed a block to stop at.
Passes(b, read) == ~(0 <= b.creation /\ b.creation < read)
Unpassed(chained, gone, p, read) ==
  \A q \in DOMAIN chained \ gone : p \in Chain(chained, q) => q = p \/ Passes(chained[q], read)

HeadsNow == [l \in AnyLabel |-> HeadOf(l)]
TopsNow(c) == [l \in AnyLabel |-> TopOf(c, l)]

LockedIn(c) == Writer(c) /\ txn[c].locked

ForestInv == Forest(blocks, freed) /\ Forest(labels, freedLabels) /\ Root(labels, freedLabels, edge_label_ptr)

HeadsInv ==
  /\ \A l \in AnyLabel : HeadOf(l) \notin freed
  /\ (\A c \in Client : ~LockedIn(c)) => RootsOf(blocks, freed, HeadsNow)

\* A writer's tops are on what is there to see; what is in between is its own and has no time anybody has.
OwnedIn(c) ==
  /\ RootsOf(blocks, freed, TopsNow(c))
  /\ \A l \in AnyLabel : HeadOf(l) # NULLPOINTER => HeadOf(l) \in Chain(blocks, TopOf(c, l))
  /\ \A p \in DOMAIN blocks \ freed :
       /\ blocks[p].prev \in txn[c].own => p \in txn[c].own
       /\ \A l \in AnyLabel : HeadOf(l) # NULLPOINTER /\ blocks[p].prev = HeadOf(l) => p \in txn[c].own
  /\ \A q \in txn[c].own : blocks[q].creation < 0 \/ (pc[c] = "install" /\ blocks[q].creation = txn[c].epoch)
OwnedOf(c) == LockedIn(c) => OwnedIn(c)

GrantOf(c) ==
  /\ grant[c] \in Nat /\ (stage[c] = "granted" => visible < grant[c])
  /\ pc[c] = "install" => stage[c] = "granted" /\ txn[c].epoch = grant[c]

Linked(l) == Chain(blocks, HeadOf(l))
OvertakenAt(c, l, p) == p \in Nat /\ \E q \in Linked(l) : q > p /\ ~Passes(blocks[q], txn[c].read)
Ahead(c, l, p) ==
  \/ p = NULLPOINTER \/ OvertakenAt(c, l, p)
  \/ p \in Linked(l) /\ Unpassed(blocks, freed, p, txn[c].read)
AheadLabel(c, l, q) ==
  \/ q = NULLPOINTER
  \/ /\ q \in Chain(labels, edge_label_ptr) /\ Unpassed(labels, freedLabels, q, txn[c].read)
     /\ Ahead(c, l, Pointed(q, l))

ReadOf(c) ==
  /\ pc[c] \in InScan => scan[c].l \in Label
  /\ pc[c] = "label" => scan[c].ptr = NULLPOINTER /\ AheadLabel(c, scan[c].l, scan[c].lb)
  /\ pc[c] = "walk" => scan[c].lb = NULLPOINTER /\ Ahead(c, scan[c].l, scan[c].ptr)
  /\ pc[c] \in {"tail", "entries"} =>
       /\ scan[c].lb = NULLPOINTER
       /\ Ahead(c, scan[c].l, scan[c].ptr) \/ scan[c].ptr = txn[c].ptrs[scan[c].l]

OwnedInv == \A c \in Client : OwnedOf(c)
GrantInv == grant \in [Client -> Nat] /\ \A c \in Client : GrantOf(c)
ReadInv  == \A c \in Client : ReadOf(c)

KeepInv == ForestInv /\ HeadsInv /\ OwnedInv /\ GrantInv /\ ReadInv

\* A chain from what is not given back is not given back, and everything in it but its first is linked to.
LEMMA ForestChain ==
  ASSUME NEW chained, Older(chained), NEW gone, Forest(chained, gone), NEW p \in 0 .. Len(chained),
         p \in DOMAIN chained => p \notin gone
  PROVE  Chain(chained, p) \subseteq DOMAIN chained \ gone
PROOF
<1> DEFINE S == DOMAIN chained \ gone
<1>1. p \in S \cup {NULLPOINTER}
  BY DEF Older
<1>2. ASSUME NEW q \in S PROVE chained[q].prev \in S \cup {NULLPOINTER}
  <2>1. chained[q].prev \notin gone
    BY DEF Forest
  <2>2. chained[q].prev \in 0 .. q - 1 /\ q \in 1 .. Len(chained) /\ Len(chained) \in Nat
    BY DEF Older
  <2> QED BY <2>1, <2>2 DEF Older
<1>3. Chain(chained, p) \subseteq S
  BY <1>1, <1>2, ChainLeast
<1> QED BY <1>3

LEMMA LinkedTo ==
  ASSUME NEW chained, Older(chained), NEW p \in 0 .. Len(chained), NEW q \in Chain(chained, p), q # p
  PROVE  \E r \in Chain(chained, p) : chained[r].prev = q
PROOF
<1> SUFFICES ASSUME \A r \in Chain(chained, p) : chained[r].prev # q PROVE FALSE
  OBVIOUS
<1> DEFINE S == Chain(chained, p) \ {q}
<1>1. p \in S \cup {NULLPOINTER}
  BY ChainFacts
<1>2. \A r \in S : chained[r].prev \in S \cup {NULLPOINTER}
  BY ChainFacts
<1>3. Chain(chained, p) \subseteq S
  BY <1>1, <1>2, ChainLeast
<1> QED BY <1>3

\* Nothing is above a root.
LEMMA RootTop ==
  ASSUME NEW chained, Older(chained), NEW gone, Forest(chained, gone), NEW h, Root(chained, gone, h),
         NEW q \in DOMAIN chained \ gone, h \in Chain(chained, q)
  PROVE  q = h
PROOF
<1>1. q \in 0 .. Len(chained) /\ q \in DOMAIN chained
  BY DEF Older
<1>2. h # NULLPOINTER
  BY <1>1, ChainFacts
<1>3. SUFFICES ASSUME q # h PROVE FALSE
  OBVIOUS
<1>4. PICK r \in Chain(chained, q) : chained[r].prev = h
  BY <1>1, <1>3, LinkedTo
<1>5. r \in DOMAIN chained \ gone
  BY <1>1, ForestChain
<1> QED BY <1>2, <1>4, <1>5 DEF Root

\* Chains from different roots have nothing in common.
LEMMA NoCommon ==
  ASSUME NEW chained, Older(chained), NEW gone, Forest(chained, gone),
         NEW h \in 0 .. Len(chained), NEW k \in 0 .. Len(chained), h # k,
         Root(chained, gone, h), Root(chained, gone, k)
  PROVE  Chain(chained, h) \cap Chain(chained, k) = {}
PROOF
<1>1. Chain(chained, h) \subseteq DOMAIN chained \ gone /\ Chain(chained, k) \subseteq DOMAIN chained \ gone
  <2>1. (h \in DOMAIN chained => h \notin gone) /\ (k \in DOMAIN chained => k \notin gone)
    BY DEF Root, Older
  <2> QED BY <2>1, ForestChain
<1> DEFINE S == Chain(chained, h) \ Chain(chained, k)
<1>2. h \in S \cup {NULLPOINTER}
  <2>1. SUFFICES ASSUME h # NULLPOINTER PROVE h \in S
    OBVIOUS
  <2>2. h \in Chain(chained, h)
    BY <2>1, ChainFacts
  <2>3. ASSUME h \in Chain(chained, k) PROVE FALSE
    <3>1. PICK r \in Chain(chained, k) : chained[r].prev = h
      BY <2>3, LinkedTo
    <3> QED BY <1>1, <2>1, <3>1 DEF Root
  <2> QED BY <2>2, <2>3
<1>3. ASSUME NEW r \in S PROVE chained[r].prev \in S \cup {NULLPOINTER}
  <2>1. r \in DOMAIN chained \ gone /\ chained[r].prev \in Chain(chained, h) \cup {NULLPOINTER}
    BY <1>1, ChainFacts
  <2>2. SUFFICES ASSUME chained[r].prev \in Chain(chained, k) PROVE FALSE
    BY <2>1
  <2>3. chained[r].prev # NULLPOINTER
    BY <2>2, ChainFacts
  <2>4. chained[r].prev # k
    BY <2>1, <2>3 DEF Root
  <2>5. PICK q \in Chain(chained, k) : chained[q].prev = chained[r].prev
    BY <2>2, <2>4, LinkedTo
  <2>6. q = r
    BY <1>1, <2>1, <2>3, <2>5 DEF Forest
  <2> QED BY <2>5, <2>6
<1>4. Chain(chained, h) \subseteq S
  <2> HIDE DEF S
  <2>1. \A r \in S : chained[r].prev \in S \cup {NULLPOINTER}
    BY <1>3
  <2> QED BY <1>2, <2>1, ChainLeast
<1> QED BY <1>4

\* What is above a block's predecessor, and is not it, is above the block.
LEMMA AbovePrev ==
  ASSUME NEW chained, Older(chained), NEW gone, Forest(chained, gone),
         NEW p \in DOMAIN chained \ gone, NEW q \in DOMAIN chained \ gone,
         chained[p].prev \in Chain(chained, q), q # chained[p].prev
  PROVE  p \in Chain(chained, q)
PROOF
<1>1. q \in 0 .. Len(chained) /\ q \in DOMAIN chained
  BY DEF Older
<1>2. PICK r \in Chain(chained, q) : chained[r].prev = chained[p].prev
  BY <1>1, LinkedTo
<1>3. r \in DOMAIN chained \ gone /\ chained[p].prev # NULLPOINTER
  BY <1>1, ForestChain, ChainFacts
<1>4. r = p
  BY <1>2, <1>3 DEF Forest
<1> QED BY <1>2, <1>4

\* If all that is linked to h or to S is in S, and nobody stops in S, nobody has stopped above h.
LEMMA HeadUnpassed ==
  ASSUME NEW chained, Older(chained), NEW gone, Forest(chained, gone), NEW h \in 0 .. Len(chained), NEW S, NEW read,
         \A p \in DOMAIN chained \ gone : chained[p].prev \in S \/ (h # NULLPOINTER /\ chained[p].prev = h) => p \in S,
         \A q \in S : q \in DOMAIN chained => Passes(chained[q], read)
  PROVE  Unpassed(chained, gone, h, read)
PROOF
<1>1. SUFFICES ASSUME NEW q \in DOMAIN chained \ gone, h \in Chain(chained, q), q # h, q \notin S PROVE FALSE
  BY DEF Unpassed
<1>2. q \in 0 .. Len(chained) /\ q \in DOMAIN chained
  BY DEF Older
<1>3. Chain(chained, q) \subseteq DOMAIN chained \ gone /\ h # NULLPOINTER
  BY <1>1, <1>2, ForestChain, ChainFacts
<1> DEFINE T == Chain(chained, q) \ (S \cup {h})
<1>4. q \in T \cup {NULLPOINTER}
  BY <1>1, <1>2, ChainFacts
<1>5. ASSUME NEW r \in T PROVE chained[r].prev \in T \cup {NULLPOINTER}
  <2>1. r \in DOMAIN chained \ gone /\ r \notin S
    BY <1>3
  <2>2. chained[r].prev \notin S /\ chained[r].prev # h
    BY <1>3, <2>1
  <2> QED BY <1>2, <2>2, ChainFacts
<1>6. Chain(chained, q) \subseteq T
  <2> HIDE DEF T
  <2>1. \A r \in T : chained[r].prev \in T \cup {NULLPOINTER}
    BY <1>5
  <2> QED BY <1>2, <1>4, <2>1, ChainLeast
<1> QED BY <1>1, <1>6

\* Cutting the chain of a root leaves a forest, whatever is put on the root then; the other roots stay.
LEMMA CutForest ==
  ASSUME NEW chained, Older(chained), NEW gone, gone \subseteq DOMAIN chained, Forest(chained, gone),
         NEW h \in DOMAIN chained, Root(chained, gone, h), NEW bound, NEW chained2, Older(chained2),
         Len(chained) <= Len(chained2),
         \A q \in DOMAIN chained :
           chained2[q].prev = IF q = Cut(chained, h, bound) THEN NULLPOINTER ELSE chained[q].prev,
         \A q \in DOMAIN chained2 \ DOMAIN chained : q = Len(chained) + 1 /\ chained2[q].prev = h
  PROVE  /\ Forest(chained2, gone \cup Garbage(chained, h, bound))
         /\ \A r : Root(chained, gone, r) /\ (r = h => DOMAIN chained2 = DOMAIN chained) =>
              Root(chained2, gone \cup Garbage(chained, h, bound), r)
         /\ Root(chained2, gone \cup Garbage(chained, h, bound), Len(chained) + 1)
         /\ h \notin Garbage(chained, h, bound)
PROOF
<1> DEFINE cut == Cut(chained, h, bound)
           garbage == Garbage(chained, h, bound)
<1>1. /\ Len(chained) \in Nat /\ Len(chained2) \in Nat /\ DOMAIN chained = 1 .. Len(chained)
      /\ DOMAIN chained2 = 1 .. Len(chained2) /\ h \in 0 .. Len(chained) /\ h # NULLPOINTER /\ h \notin gone
      /\ DOMAIN chained \subseteq DOMAIN chained2
  BY DEF Older, Root
<1>2. Chain(chained, h) \subseteq DOMAIN chained \ gone
  BY <1>1, ForestChain
<1>3. /\ cut \in Chain(chained, h) \cup {NULLPOINTER}
      /\ garbage \subseteq Chain(chained, h)
  BY <1>1, CutChain
<1>4. ASSUME NEW q \in garbage
      PROVE  \E r \in Chain(chained, h) : chained[r].prev = q /\ (r = cut \/ r \in garbage)
  <2>1. cut # NULLPOINTER /\ garbage = Chain(chained, chained[cut].prev)
    BY <1>4 DEF Garbage
  <2>2. cut \in DOMAIN chained /\ chained[cut].prev \in 0 .. Len(chained)
    BY <1>1, <1>2, <1>3, <2>1 DEF Older
  <2>3. CASE q = chained[cut].prev
    BY <1>3, <2>1, <2>3
  <2>4. CASE q # chained[cut].prev
    <3> HIDE DEF garbage, cut
    <3>1. PICK r \in garbage : chained[r].prev = q
      BY <1>4, <2>1, <2>2, <2>4, LinkedTo
    <3> QED BY <1>3, <3>1
  <2> QED BY <2>3, <2>4
<1> HIDE DEF cut, garbage
<1>5. ASSUME NEW r, Root(chained, gone, r) PROVE r \notin garbage
  <2>1. SUFFICES ASSUME r \in garbage PROVE FALSE
    OBVIOUS
  <2>2. PICK q \in Chain(chained, h) : chained[q].prev = r
    BY <1>4, <2>1
  <2>3. r # NULLPOINTER
    BY <1>1, <1>2, <1>3, <2>1
  <2> QED BY <1>2, <1>5, <2>2, <2>3 DEF Root
<1>6. ASSUME NEW p \in DOMAIN chained \ gone, p \notin garbage
      PROVE  chained2[p].prev \notin gone \cup garbage
  <2>1. NULLPOINTER \notin gone \cup garbage
    BY <1>1, <1>2, <1>3
  <2>2. CASE p = cut
    BY <2>1, <2>2 DEF cut
  <2>3. CASE p # cut
    <3>1. chained2[p].prev = chained[p].prev
      BY <2>3 DEF cut
    <3>2. chained[p].prev \notin gone
      BY DEF Forest
    <3>3. ASSUME chained[p].prev \in garbage PROVE FALSE
      <4>1. PICK r \in Chain(chained, h) : chained[r].prev = chained[p].prev /\ (r = cut \/ r \in garbage)
        BY <1>4, <3>3
      <4>2. chained[p].prev # NULLPOINTER
        BY <2>1, <3>3
      <4>3. r = p
        BY <1>2, <4>1, <4>2 DEF Forest
      <4> QED BY <1>6, <2>3, <4>1, <4>3
    <3> QED BY <3>1, <3>2, <3>3
  <2> QED BY <2>2, <2>3
<1>7. h \notin garbage
  BY <1>5
<1>8. \A p \in DOMAIN chained : chained2[p].prev = NULLPOINTER \/ chained2[p].prev = chained[p].prev
  OBVIOUS
<1>9. Forest(chained2, gone \cup garbage)
  <2>1. SUFFICES ASSUME NEW p \in DOMAIN chained2 \ (gone \cup garbage)
                 PROVE  /\ chained2[p].prev \notin gone \cup garbage
                        /\ \A q \in DOMAIN chained2 \ (gone \cup garbage) :
                             chained2[q].prev = chained2[p].prev => q = p \/ chained2[p].prev = NULLPOINTER
    BY Zenon DEF Forest
  <2>2. CASE p \in DOMAIN chained
    <3>1. ASSUME NEW q \in DOMAIN chained2 \ (gone \cup garbage), chained2[q].prev = chained2[p].prev
          PROVE  q = p \/ chained2[p].prev = NULLPOINTER
      <4>1. SUFFICES ASSUME chained2[p].prev # NULLPOINTER PROVE q = p
        OBVIOUS
      <4>2. chained2[p].prev = chained[p].prev
        BY <1>8, <2>2, <4>1
      <4>3. CASE q \in DOMAIN chained
        <5>1. chained2[q].prev = chained[q].prev
          BY <1>8, <3>1, <4>1, <4>3
        <5> QED BY <2>2, <3>1, <4>1, <4>2, <4>3, <5>1 DEF Forest
      <4>4. CASE q \notin DOMAIN chained
        <5>1. chained[p].prev = h
          BY <3>1, <4>2, <4>4
        <5> QED BY <1>1, <2>2, <5>1 DEF Root
      <4> QED BY <4>3, <4>4
    <3> QED BY <1>6, <2>2, <3>1
  <2>3. CASE p \notin DOMAIN chained
    <3>1. p = Len(chained) + 1 /\ chained2[p].prev = h
      BY <2>3
    <3>2. ASSUME NEW q \in DOMAIN chained2 \ (gone \cup garbage), chained2[q].prev = h PROVE q = p
      <4>1. ASSUME q \in DOMAIN chained PROVE FALSE
        <5>1. chained[q].prev = h
          BY <1>1, <1>8, <3>2, <4>1
        <5> QED BY <1>1, <4>1, <5>1 DEF Root
      <4> QED BY <3>1, <4>1
    <3> QED BY <1>1, <1>7, <3>1, <3>2
  <2> QED BY <2>2, <2>3
<1>10. ASSUME NEW r, Root(chained, gone, r), r = h => DOMAIN chained2 = DOMAIN chained
       PROVE  Root(chained2, gone \cup garbage, r)
  <2>1. SUFFICES ASSUME r # NULLPOINTER PROVE Root(chained2, gone \cup garbage, r)
    BY DEF Root
  <2>2. r \notin gone \cup garbage
    BY <1>5, <1>10, <2>1 DEF Root
  <2>3. ASSUME NEW p \in DOMAIN chained2 \ (gone \cup garbage), chained2[p].prev = r PROVE FALSE
    <3>1. CASE p \in DOMAIN chained
      <4>1. chained[p].prev = r
        BY <1>8, <2>1, <2>3, <3>1
      <4> QED BY <1>10, <2>1, <3>1, <4>1 DEF Root
    <3>2. CASE p \notin DOMAIN chained
      BY <1>10, <2>3, <3>2
    <3> QED BY <3>1, <3>2
  <2> QED BY <2>2, <2>3 DEF Root
<1>11. Root(chained2, gone \cup garbage, Len(chained) + 1)
  <2>1. Len(chained) + 1 \notin DOMAIN chained /\ Len(chained) + 1 # h /\ Len(chained) + 1 # NULLPOINTER
    BY <1>1
  <2>2. ASSUME NEW p \in DOMAIN chained PROVE chained[p].prev # Len(chained) + 1
    BY <1>1 DEF Older
  <2>3. Root(chained, gone, Len(chained) + 1)
    BY <2>1, <2>2 DEF Root
  <2> QED BY <1>10, <2>1, <2>3
<1> QED BY <1>7, <1>9, <1>10, <1>11 DEF garbage

\* A scan that has not passed anything older than its snapshot loses nothing to a cut before that.
LEMMA CutSpares ==
  ASSUME NEW chained, Older(chained), NEW gone, gone \subseteq DOMAIN chained, Forest(chained, gone),
         NEW h \in DOMAIN chained, Root(chained, gone, h), NEW bound \in Int, NEW chained2, Older(chained2),
         Len(chained) <= Len(chained2),
         \A q \in DOMAIN chained :
           /\ chained2[q].prev = IF q = Cut(chained, h, bound) THEN NULLPOINTER ELSE chained[q].prev
           /\ chained2[q].creation = chained[q].creation /\ chained[q].creation \in Int,
         \A q \in DOMAIN chained2 \ DOMAIN chained : q = Len(chained) + 1 /\ chained2[q].prev = h,
         NEW r \in 0 .. Len(chained), Root(chained, gone, r), NEW x \in Chain(chained, r),
         NEW read \in Int, bound <= read, Unpassed(chained, gone, x, read),
         \A q \in DOMAIN chained2 \ DOMAIN chained : x \in Chain(chained, h) => Passes(chained2[q], read)
  PROVE  /\ x \in Chain(chained2, r)
         /\ Unpassed(chained2, gone \cup Garbage(chained, h, bound), x, read)
PROOF
<1> DEFINE cut == Cut(chained, h, bound)
           garbage == Garbage(chained, h, bound)
<1>1. /\ Len(chained) \in Nat /\ Len(chained2) \in Nat /\ DOMAIN chained = 1 .. Len(chained)
      /\ DOMAIN chained2 = 1 .. Len(chained2) /\ h \in 0 .. Len(chained) /\ h # NULLPOINTER /\ h \notin gone
      /\ DOMAIN chained \subseteq DOMAIN chained2
  BY DEF Older, Root
<1>2. Chain(chained, h) \subseteq DOMAIN chained \ gone
  BY <1>1, ForestChain
<1>3. /\ cut \in Chain(chained, h) \cup {NULLPOINTER}
      /\ cut # NULLPOINTER => Before(chained[cut].creation, bound)
      /\ garbage = IF cut = NULLPOINTER THEN {} ELSE Chain(chained, chained[cut].prev)
  <2>1. garbage = IF cut = NULLPOINTER THEN {} ELSE Chain(chained, chained[cut].prev)
    BY DEF Garbage
  <2>2. \A q \in DOMAIN chained :
          chained2[q].prev = IF q = Cut(chained, h, bound) THEN NULLPOINTER ELSE chained[q].prev
    OBVIOUS
  <2> QED BY <1>1, <2>1, <2>2, CutChain
<1>4. \A q \in DOMAIN chained : chained2[q].prev = IF q = cut THEN NULLPOINTER ELSE chained[q].prev
  OBVIOUS
<1> HIDE DEF cut
<1>5. x \in DOMAIN chained \ gone
  <2>1. r \in DOMAIN chained => r \notin gone
    BY <1>1 DEF Root
  <2> QED BY <2>1, ForestChain
<1>6. x \notin garbage
  <2>1. SUFFICES ASSUME x \in garbage PROVE FALSE
    OBVIOUS
  <2>2. cut # NULLPOINTER /\ cut \in DOMAIN chained \ gone /\ cut \in 0 .. Len(chained)
    BY <1>1, <1>2, <1>3, <2>1
  <2>3. x \in Chain(chained, chained[cut].prev) /\ chained[cut].prev \in 0 .. cut - 1
    BY <1>3, <2>1, <2>2 DEF Older
  <2>4. x <= chained[cut].prev /\ x # cut
    <3>1. chained[cut].prev \in 0 .. Len(chained)
      BY <1>1, <2>2, <2>3
    <3>2. x \in 1 .. chained[cut].prev
      BY <2>3, <3>1, ChainFacts
    <3> QED BY <1>1, <2>2, <2>3, <3>2
  <2>5. x \in Chain(chained, cut)
    BY <2>2, <2>3, ChainRec
  <2>6. Passes(chained[cut], read)
    BY <2>2, <2>4, <2>5 DEF Unpassed
  <2>7. chained[cut].creation \in Int
    BY <2>2
  <2> QED BY <1>3, <2>2, <2>6, <2>7 DEF Passes, Before
<1>7. x \in Chain(chained2, r)
  <2> DEFINE S == Chain(chained2, r) \cup garbage
  <2>1. r \in S \cup {NULLPOINTER}
    <3>1. r \in 0 .. Len(chained2)
      BY <1>1
    <3> QED BY <3>1, ChainFacts
  <2>2. ASSUME NEW q \in S, q \in DOMAIN chained PROVE chained[q].prev \in S \cup {NULLPOINTER}
    <3>1. CASE q \in garbage
      <4>1. cut # NULLPOINTER /\ cut \in DOMAIN chained
        BY <1>1, <1>2, <1>3, <3>1
      <4>2. chained[cut].prev \in 0 .. Len(chained)
        BY <1>1, <4>1 DEF Older
      <4>3. chained[q].prev \in garbage \cup {NULLPOINTER}
        <5> HIDE DEF garbage
        <5> QED BY <1>3, <3>1, <4>1, <4>2, ChainFacts
      <4> QED BY <4>3
    <3>2. CASE q \in Chain(chained2, r) /\ q # cut
      <4>1. r \in 0 .. Len(chained2) /\ chained2[q].prev = chained[q].prev
        BY <1>1, <1>4, <2>2, <3>2
      <4> QED BY <3>2, <4>1, ChainFacts
    <3>3. CASE q = cut
      <4>1. cut # NULLPOINTER /\ chained[cut].prev \in 0 .. Len(chained)
        BY <1>1, <2>2, <3>3 DEF Older
      <4>2. chained[cut].prev \in garbage \cup {NULLPOINTER}
        <5> HIDE DEF garbage
        <5> QED BY <1>3, <4>1, ChainFacts
      <4> QED BY <3>3, <4>2
    <3> QED BY <3>1, <3>2, <3>3
  <2>3. Chain(chained, r) \subseteq S
    <3> HIDE DEF S
    <3>1. \A q \in S : q \in DOMAIN chained => chained[q].prev \in S \cup {NULLPOINTER}
      BY <2>2
    <3> QED BY <2>1, <3>1, ChainLeast
  <2> QED BY <1>6, <2>3
<1>8. ASSUME NEW q \in 0 .. Len(chained) PROVE Chain(chained2, q) \subseteq Chain(chained, q)
  <2>1. q \in 0 .. Len(chained2)
    BY <1>1
  <2>2. \A o \in Chain(chained, q) : o \in DOMAIN chained
    BY ChainFacts
  <2>3. \A o \in Chain(chained, q) : chained2[o].prev \in {chained[o].prev, NULLPOINTER}
    BY <1>4, <2>2
  <2> QED BY <2>1, <2>3, ChainShrinks
<1>9. ASSUME NEW q \in DOMAIN chained2 \ (gone \cup garbage), x \in Chain(chained2, q), q # x
      PROVE  Passes(chained2[q], read)
  <2>1. CASE q \in DOMAIN chained
    <3>1. x \in Chain(chained, q)
      BY <1>1, <1>8, <1>9, <2>1
    <3>2. Passes(chained[q], read)
      BY <1>9, <2>1, <3>1 DEF Unpassed
    <3>3. chained2[q].creation = chained[q].creation
      BY <2>1
    <3> QED BY <3>2, <3>3 DEF Passes
  <2>2. CASE q \notin DOMAIN chained
    <3>1. chained2[q].prev = h
      BY <2>2
    <3>2. Chain(chained2, q) = {q} \cup Chain(chained2, h)
      BY <3>1, ChainRec
    <3>3. x \in Chain(chained, h)
      BY <1>1, <1>8, <1>9, <3>2
    <3> QED BY <2>2, <3>3
  <2> QED BY <2>1, <2>2
<1> QED BY <1>7, <1>9 DEF Unpassed

\* A block put on a root is a root; the other chains and roots stay.
LEMMA AddForest ==
  ASSUME NEW chained, Older(chained), NEW gone, gone \subseteq DOMAIN chained, Forest(chained, gone),
         NEW h \in 0 .. Len(chained), Root(chained, gone, h), NEW chained2, Older(chained2),
         Len(chained2) = Len(chained) + 1, \A q \in DOMAIN chained : chained2[q].prev = chained[q].prev,
         chained2[Len(chained) + 1].prev = h
  PROVE  /\ Forest(chained2, gone) /\ Root(chained2, gone, Len(chained) + 1)
         /\ \A r : Root(chained, gone, r) /\ r # h => Root(chained2, gone, r)
         /\ \A r \in 0 .. Len(chained) : Chain(chained2, r) = Chain(chained, r)
         /\ Chain(chained2, Len(chained) + 1) = {Len(chained) + 1} \cup Chain(chained, h)
PROOF
<1> DEFINE new == Len(chained) + 1
<1>1. /\ Len(chained) \in Nat /\ DOMAIN chained = 1 .. Len(chained) /\ DOMAIN chained2 = 1 .. Len(chained) + 1
      /\ new \notin DOMAIN chained /\ DOMAIN chained2 = DOMAIN chained \cup {new} /\ new # NULLPOINTER
      /\ h # new /\ new \in Nat /\ new \notin gone
  <2>1. /\ Len(chained) \in Nat /\ DOMAIN chained = 1 .. Len(chained) /\ DOMAIN chained2 = 1 .. Len(chained) + 1
    BY DEF Older
  <2> QED BY <2>1
<1>2. \A q \in DOMAIN chained : chained[q].prev # new
  BY <1>1 DEF Older
<1>3. ASSUME NEW r \in 0 .. Len(chained) PROVE Chain(chained2, r) = Chain(chained, r)
  <2>1. r \in 0 .. Len(chained2)
    BY <1>1
  <2>2. \A q \in Chain(chained, r) : q \in DOMAIN chained
    BY ChainFacts
  <2> QED BY <2>1, <2>2, ChainSame
<1>4. Chain(chained2, new) = {new} \cup Chain(chained, h)
  BY <1>1, <1>3, ChainRec
<1> HIDE DEF new
<1>5. chained2[new].prev = h
  BY DEF new
<1>6. \A q \in DOMAIN chained : h # NULLPOINTER /\ q \notin gone => chained[q].prev # h
  BY DEF Root
<1>7. h \notin gone
  BY <1>1 DEF Root
<1>8. Forest(chained2, gone)
  <2>1. SUFFICES ASSUME NEW p \in DOMAIN chained2 \ gone
                 PROVE  /\ chained2[p].prev \notin gone
                        /\ \A q \in DOMAIN chained2 \ gone :
                             chained2[q].prev = chained2[p].prev => q = p \/ chained2[p].prev = NULLPOINTER
    BY Zenon DEF Forest
  <2>2. chained2[p].prev \notin gone
    BY <1>1, <1>5, <1>7, <2>1 DEF Forest
  <2>3. ASSUME NEW q \in DOMAIN chained2 \ gone, chained2[q].prev = chained2[p].prev, chained2[p].prev # NULLPOINTER
        PROVE  q = p
    <3>1. CASE p \in DOMAIN chained /\ q \in DOMAIN chained
      BY <2>3, <3>1 DEF Forest
    <3>2. CASE p = new /\ q \in DOMAIN chained
      BY <1>5, <1>6, <2>3, <3>2
    <3>3. CASE p \in DOMAIN chained /\ q = new
      BY <1>5, <1>6, <2>1, <2>3, <3>3
    <3> QED BY <1>1, <2>1, <2>3, <3>1, <3>2, <3>3
  <2> QED BY <2>2, <2>3
<1>9. Root(chained2, gone, new)
  <2>1. \A p \in DOMAIN chained2 : chained2[p].prev # new
    BY <1>1, <1>2, <1>5
  <2> QED BY <1>1, <2>1 DEF Root
<1>10. ASSUME NEW r, Root(chained, gone, r), r # h PROVE Root(chained2, gone, r)
  BY <1>1, <1>5, <1>10 DEF Root
<1> QED BY <1>3, <1>4, <1>8, <1>9, <1>10 DEF new

\* Nobody stops there with a time that no snapshot has.
LEMMA AddSpares ==
  ASSUME NEW chained, Older(chained), NEW gone, NEW h \in 0 .. Len(chained), NEW chained2, Older(chained2),
         Len(chained2) = Len(chained) + 1, NEW read,
         \A q \in DOMAIN chained : chained2[q].prev = chained[q].prev /\ chained2[q].creation = chained[q].creation,
         Passes(chained2[Len(chained) + 1], read), NEW x, Unpassed(chained, gone, x, read)
  PROVE  Unpassed(chained2, gone, x, read)
PROOF
<1>1. SUFFICES ASSUME NEW q \in DOMAIN chained2 \ gone, x \in Chain(chained2, q), q # x
               PROVE  Passes(chained2[q], read)
  BY DEF Unpassed
<1>2. /\ Len(chained) \in Nat /\ DOMAIN chained = 1 .. Len(chained) /\ DOMAIN chained2 = 1 .. Len(chained) + 1
  BY DEF Older
<1>3. CASE q \in DOMAIN chained
  <2>1. q \in 0 .. Len(chained2) /\ q \in 0 .. Len(chained)
    BY <1>2, <1>3
  <2>2. \A o \in Chain(chained, q) : o \in DOMAIN chained
    BY <2>1, ChainFacts
  <2>3. Chain(chained2, q) = Chain(chained, q)
    BY <2>1, <2>2, ChainSame
  <2> QED BY <1>1, <1>3, <2>3 DEF Unpassed, Passes
<1>4. CASE q \notin DOMAIN chained
  <2>1. q = Len(chained) + 1
    BY <1>1, <1>2, <1>4
  <2> QED BY <2>1
<1> QED BY <1>3, <1>4

\* Blocks that stay linked as they were.
LEMMA Reshaped ==
  ASSUME NEW chained, Older(chained), NEW chained2, Older(chained2), Len(chained2) = Len(chained),
         \A q \in DOMAIN chained : chained2[q].prev = chained[q].prev
  PROVE  /\ DOMAIN chained2 = DOMAIN chained
         /\ \A r \in 0 .. Len(chained) : Chain(chained2, r) = Chain(chained, r)
         /\ \A gone : Forest(chained, gone) => Forest(chained2, gone)
         /\ \A gone, h : Root(chained, gone, h) => Root(chained2, gone, h)
         /\ \A gone, gone2, x, read :
              /\ Unpassed(chained, gone, x, read) /\ gone \subseteq gone2
              /\ \A q \in DOMAIN chained \ gone2 :
                   chained2[q].creation = chained[q].creation \/ Passes(chained2[q], read)
              => Unpassed(chained2, gone2, x, read)
PROOF
<1>1. /\ DOMAIN chained2 = DOMAIN chained /\ DOMAIN chained = 1 .. Len(chained) /\ Len(chained) \in Nat
  BY DEF Older
<1>2. ASSUME NEW r \in 0 .. Len(chained) PROVE Chain(chained2, r) = Chain(chained, r)
  <2>1. \A q \in Chain(chained, r) : q \in DOMAIN chained
    BY ChainFacts
  <2> QED BY <2>1, ChainSame
<1>3. ASSUME NEW gone, Forest(chained, gone) PROVE Forest(chained2, gone)
  BY <1>1, <1>3 DEF Forest
<1>4. ASSUME NEW gone, NEW h, Root(chained, gone, h) PROVE Root(chained2, gone, h)
  BY <1>1, <1>4 DEF Root
<1>5. ASSUME NEW gone, NEW gone2, NEW x, NEW read, Unpassed(chained, gone, x, read), gone \subseteq gone2,
             \A q \in DOMAIN chained \ gone2 :
               chained2[q].creation = chained[q].creation \/ Passes(chained2[q], read)
      PROVE  Unpassed(chained2, gone2, x, read)
  <2>1. SUFFICES ASSUME NEW q \in DOMAIN chained2 \ gone2, x \in Chain(chained2, q), q # x
                 PROVE  Passes(chained2[q], read)
    BY DEF Unpassed
  <2>2. q \in DOMAIN chained \ gone /\ q \in 0 .. Len(chained) /\ q \in DOMAIN chained \ gone2
    BY <1>1, <1>5
  <2>3. x \in Chain(chained, q)
    BY <1>2, <2>1, <2>2
  <2>4. Passes(chained[q], read)
    BY <1>5, <2>1, <2>2, <2>3 DEF Unpassed
  <2> QED BY <1>5, <2>2, <2>4 DEF Passes
<1> QED BY <1>1, <1>2, <1>3, <1>4, <1>5

LEMMA RootUnpassed ==
  ASSUME NEW chained, Older(chained), NEW gone, Forest(chained, gone), NEW h, Root(chained, gone, h), NEW read
  PROVE  Unpassed(chained, gone, h, read)
BY RootTop DEF Unpassed

LEMMA FewerRoots ==
  ASSUME NEW chained, NEW gone, NEW H, RootsOf(chained, gone, H), NEW l \in DOMAIN H
  PROVE  Root(chained, gone, H[l]) /\ \A m \in DOMAIN H : H[l] = H[m] => l = m \/ H[l] = NULLPOINTER
BY DEF RootsOf

-----------------------------------------------------------------------------
(* What the readers' invariant says of a state *)

LEMMA KeepAt ==
  ASSUME Basic, StoreInv, KeepInv
  PROVE  /\ Types /\ OlderInv /\ LabelsInv
         /\ Older(blocks) /\ Older(labels) /\ freed \subseteq DOMAIN blocks /\ freedLabels \subseteq DOMAIN labels
         /\ Len(blocks) \in Nat /\ Len(labels) \in Nat /\ edge_label_ptr \in 0 .. Len(labels)
         /\ DOMAIN blocks = 1 .. Len(blocks) /\ DOMAIN labels = 1 .. Len(labels)
         /\ Forest(blocks, freed) /\ Forest(labels, freedLabels) /\ Root(labels, freedLabels, edge_label_ptr)
         /\ \A l : HeadOf(l) \in 0 .. Len(blocks)
         /\ \A l \in AnyLabel : HeadOf(l) \notin freed /\ Linked(l) \subseteq DOMAIN blocks \ freed
         /\ \A l : \A q \in 0 .. Len(labels) : Pointed(q, l) \in 0 .. Len(blocks)
PROOF
<1>1. /\ Types /\ OlderInv /\ LabelsInv /\ Older(blocks) /\ Older(labels)
      /\ freed \subseteq DOMAIN blocks /\ freedLabels \subseteq DOMAIN labels
  BY DEF Basic, OlderInv, StoreInv
<1>2. Len(blocks) \in Nat /\ Len(labels) \in Nat /\ edge_label_ptr \in 0 .. Len(labels)
      /\ DOMAIN blocks = 1 .. Len(blocks) /\ DOMAIN labels = 1 .. Len(labels)
  BY <1>1 DEF Types, Older
<1>3. Forest(blocks, freed) /\ Forest(labels, freedLabels) /\ Root(labels, freedLabels, edge_label_ptr)
  BY DEF KeepInv, ForestInv
<1>4. \A l : \A q \in 0 .. Len(labels) : Pointed(q, l) \in 0 .. Len(blocks)
  BY <1>1, PointedType
<1>5. \A l : HeadOf(l) \in 0 .. Len(blocks)
  BY <1>2, <1>4 DEF HeadOf
<1>6. ASSUME NEW l \in AnyLabel PROVE HeadOf(l) \notin freed /\ Linked(l) \subseteq DOMAIN blocks \ freed
  <2>1. HeadOf(l) \notin freed
    BY DEF KeepInv, HeadsInv
  <2> QED BY <1>1, <1>3, <1>5, <2>1, ForestChain DEF Linked
<1> QED BY <1>1, <1>2, <1>3, <1>4, <1>5, <1>6

LEMMA LockedHolds ==
  ASSUME NEW c \in Client, LockedIn(c)
  PROVE  Holds(c)
BY DEF LockedIn, Holds

LEMMA OthersIn ==
  ASSUME Basic, NEW c \in Client, Holds(c) \/ vertex_futex = 0, Alone(c), NEW d \in Client \ {c}
  PROVE  ~LockedIn(d) /\ ~LockedIn(d)' /\ Same(d)
PROOF
<1>1. ~Holds(d) /\ Same(d)
  BY OthersBare DEF Alone
<1>2. ~LockedIn(d)
  BY <1>1, LockedHolds
<1>3. pc'[d] = pc[d] /\ txn'[d] = txn[d]
  BY <1>1 DEF Same
<1> QED BY <1>1, <1>2, <1>3 DEF LockedIn, Writer, Open

\* Who has the lock, or may take it.
LEMMA MayWrite ==
  ASSUME Basic, StoreInv, KeepInv, NEW c \in Client, Writer(c), txn[c].locked \/ vertex_futex = 0
  PROVE  OwnedIn(c)
PROOF
<1>1. CASE txn[c].locked
  BY <1>1 DEF KeepInv, OwnedInv, OwnedOf, LockedIn
<1>2. CASE ~txn[c].locked /\ vertex_futex = 0
  <2>1. Bare(txn[c])
    BY <1>2 DEF Basic, PlaceInv, PlaceOf
  <2>2. \A d \in Client : ~LockedIn(d)
    BY <1>2, LockedHolds DEF Basic, LockInv
  <2>3. RootsOf(blocks, freed, HeadsNow)
    BY <2>2 DEF KeepInv, HeadsInv
  <2>4. txn[c].own = {} /\ \A l \in Label : txn[c].ptrs[l] = NoCache
    BY <2>1 DEF Bare
  <2>5. \A l \in AnyLabel : TopOf(c, l) = HeadOf(l)
    BY <2>4 DEF TopOf
  <2>6. TopsNow(c) = HeadsNow
    BY <2>5 DEF TopsNow, HeadsNow
  <2>7. \A l \in AnyLabel : HeadOf(l) # NULLPOINTER => HeadOf(l) \in Chain(blocks, TopOf(c, l))
    <3>1. \A l \in AnyLabel : HeadOf(l) # NULLPOINTER => HeadOf(l) \in Chain(blocks, HeadOf(l))
      BY KeepAt, ChainFacts
    <3> QED BY <2>5, <3>1
  <2>8. \A l \in AnyLabel : Root(blocks, freed, HeadOf(l))
    BY <2>3 DEF RootsOf, HeadsNow
  <2>9. \A p \in DOMAIN blocks \ freed, l \in AnyLabel : HeadOf(l) # NULLPOINTER => blocks[p].prev # HeadOf(l)
    BY <2>8 DEF Root
  <2> QED BY <2>3, <2>4, <2>6, <2>7, <2>9 DEF OwnedIn
<1> QED BY <1>1, <1>2

\* Without a writer the newest blocks are roots.
LEMMA HeadRoots ==
  ASSUME Basic, StoreInv, KeepInv, \A d \in Client : ~LockedIn(d)
  PROVE  /\ RootsOf(blocks, freed, HeadsNow)
         /\ \A l \in AnyLabel : /\ Root(blocks, freed, HeadOf(l))
                                /\ \A k \in AnyLabel : HeadOf(k) = HeadOf(l) => k = l \/ HeadOf(l) = NULLPOINTER
PROOF
<1>1. RootsOf(blocks, freed, HeadsNow)
  BY DEF KeepInv, HeadsInv
<1> QED BY <1>1 DEF RootsOf, HeadsNow

-----------------------------------------------------------------------------
(* What a step under the lock has to keep *)

ReadsStay(d, l) ==
  /\ \A p : Ahead(d, l, p) => Ahead(d, l, p)'
  /\ \A q : AheadLabel(d, l, q) => AheadLabel(d, l, q)'

LEMMA ReadStays ==
  ASSUME NEW d \in Client, Same(d), ReadOf(d), pc[d] \in InScan => ReadsStay(d, scan[d].l)
  PROVE  ReadOf(d)'
PROOF
<1>1. pc'[d] = pc[d] /\ txn'[d] = txn[d] /\ scan'[d] = scan[d]
  BY DEF Same
<1>2. CASE pc[d] \notin InScan
  BY <1>1, <1>2 DEF ReadOf, InScan
<1>3. CASE pc[d] \in InScan
  <2>1. PICK l \in Label : l = scan[d].l
    BY <1>3 DEF ReadOf
  <2>2. ReadsStay(d, l)
    BY <1>3, <2>1
  <2>3. scan'[d].l = l
    BY <1>1, <2>1
  <2>4. \A p : Ahead(d, l, p) => Ahead(d, l, p)'
    BY <2>2 DEF ReadsStay
  <2>5. \A q : AheadLabel(d, l, q) => AheadLabel(d, l, q)'
    BY <2>2 DEF ReadsStay
  <2>6. PICK p : p = scan[d].ptr
    OBVIOUS
  <2>7. PICK q : q = scan[d].lb
    OBVIOUS
  <2>8. scan'[d].ptr = p /\ scan'[d].lb = q
    BY <1>1, <2>6, <2>7
  <2>9. /\ pc[d] = "label" => p = NULLPOINTER /\ AheadLabel(d, l, q)
        /\ pc[d] = "walk" => q = NULLPOINTER /\ Ahead(d, l, p)
        /\ pc[d] \in {"tail", "entries"} => q = NULLPOINTER /\ (Ahead(d, l, p) \/ p = txn[d].ptrs[l])
    BY <2>1, <2>6, <2>7 DEF ReadOf
  <2>10. /\ pc'[d] = "label" => p = NULLPOINTER /\ AheadLabel(d, l, q)'
         /\ pc'[d] = "walk" => q = NULLPOINTER /\ Ahead(d, l, p)'
         /\ pc'[d] \in {"tail", "entries"} => q = NULLPOINTER /\ (Ahead(d, l, p)' \/ p = txn'[d].ptrs[l])
    BY <1>1, <2>4, <2>5, <2>9
  <2>11. AheadLabel(d, scan[d].l, scan[d].lb)' <=> AheadLabel(d, l, q)'
    BY <2>3, <2>8 DEF AheadLabel, Ahead, OvertakenAt, Linked
  <2>12. Ahead(d, scan[d].l, scan[d].ptr)' <=> Ahead(d, l, p)'
    BY <2>3, <2>8 DEF Ahead, OvertakenAt, Linked
  <2> QED BY <1>1, <2>1, <2>3, <2>8, <2>10, <2>11, <2>12 DEF ReadOf
<1> QED BY <1>2, <1>3

LEMMA NotReading ==
  ASSUME NEW c \in Client, pc'[c] \notin InScan
  PROVE  ReadOf(c)'
BY DEF ReadOf, InScan

LEMMA HolderKeeps ==
  ASSUME Basic, StoreInv, KeepInv, NEW c \in Client, Holds(c) \/ vertex_futex = 0, Alone(c), pc'[c] \notin InScan,
         ForestInv', \A l \in AnyLabel : HeadOf(l)' \notin freed', OwnedOf(c)',
         ~LockedIn(c)' => RootsOf(blocks, freed, HeadsNow)', GrantInv',
         \A d \in Client \ {c}, l \in Label : pc[d] \in InScan /\ scan[d].l = l => ReadsStay(d, l)
  PROVE  KeepInv'
PROOF
<1>1. \A d \in Client \ {c} : ~LockedIn(d)' /\ Same(d)
  BY OthersIn
<1>2. OwnedInv'
  BY <1>1 DEF OwnedInv, OwnedOf
<1>3. HeadsInv'
  BY DEF HeadsInv
<1>4. ASSUME NEW d \in Client PROVE ReadOf(d)'
  <2>1. CASE d = c
    BY <2>1, NotReading
  <2>2. CASE d # c
    <3>1. ReadOf(d)
      BY DEF KeepInv, ReadInv
    <3>2. pc[d] \in InScan => scan[d].l \in Label
      BY <3>1 DEF ReadOf
    <3> QED BY <1>1, <2>2, <3>1, <3>2, ReadStays
  <2> QED BY <2>1, <2>2
<1>5. ReadInv'
  BY <1>4 DEF ReadInv
<1> QED BY <1>2, <1>3, <1>5 DEF KeepInv

-----------------------------------------------------------------------------
(* An epoch that is granted is not visible yet *)

LEMMA GrantKept ==
  ASSUME Types, GrantInv, NEW c \in Client, UNCHANGED epochsVars,
         \A d \in Client \ {c} : pc'[d] = pc[d] /\ txn'[d] = txn[d],
         pc'[c] = "install" => pc[c] = "install" /\ txn'[c].epoch = txn[c].epoch
  PROVE  GrantInv'
PROOF
<1>1. visible' = visible /\ stage' = stage /\ grant' = grant
  BY DEF epochsVars
<1>2. ASSUME NEW d \in Client PROVE GrantOf(d)'
  <2>1. GrantOf(d)
    BY DEF GrantInv
  <2>2. pc'[d] = "install" => pc[d] = "install" /\ txn'[d].epoch = txn[d].epoch
    OBVIOUS
  <2> QED BY <1>1, <2>1, <2>2 DEF GrantOf
<1> QED BY <1>1, <1>2 DEF GrantInv

\* A step of c that ends somewhere else than in installing.
LEMMA GrantGoes ==
  ASSUME Types, GrantInv, NEW c \in Client, UNCHANGED epochsVars, NEW place, place # "install",
         Goto(c, place), txn' = txn \/ \E t : SetTxn(c, t)
  PROVE  GrantInv'
PROOF
<1>1. pc'[c] # "install" /\ \A d \in Client \ {c} : pc'[d] = pc[d]
  BY DEF Goto, Types
<1>2. \A d \in Client \ {c} : txn'[d] = txn[d]
  BY DEF SetTxn, Types
<1> QED BY <1>1, <1>2, GrantKept

LEMMA GrantCalls ==
  ASSUME Types, GrantInv, NEW c \in Client, Call(c)
  PROVE  GrantInv'
PROOF
<1>1. CASE Begin(c)
  <2>1. UNCHANGED epochsVars /\ (\E t : SetTxn(c, t)) /\ (Goto(c, "scan") \/ Goto(c, "open"))
    BY <1>1 DEF Begin
  <2> QED BY <2>1, GrantGoes
<1>2. CASE Commit(c)
  <2>1. Ask(c) /\ pc' = [pc EXCEPT ![c] = "registered"] /\ txn' = txn /\ pc[c] = "open"
    BY <1>2 DEF Commit, Goto
  <2>2. /\ stage' = [stage EXCEPT ![c] = "queued"] /\ UNCHANGED <<visible, grant>>
    BY <2>1 DEF Ask
  <2>3. \A d \in Client \ {c} : pc'[d] = pc[d] /\ stage'[d] = stage[d]
    BY <2>1, <2>2 DEF Types
  <2>4. pc'[c] # "install" /\ stage'[c] # "granted"
    BY <2>1, <2>2 DEF Types
  <2> QED BY <2>1, <2>2, <2>3, <2>4 DEF GrantInv, GrantOf
<1>3. CASE Abort(c)
  BY <1>3, GrantGoes DEF Abort
<1>4. CASE Compact(c)
  BY <1>4, GrantGoes DEF Compact, Compacting
<1>5. ASSUME NEW l \in Label, NEW want, NEW one, NEW reverse, GetEdges(c, l, want, one, reverse) PROVE GrantInv'
  <2>1. (\E t : SetTxn(c, t)) /\ \E place \in {"label", "tail"} : \E r : Scanning(c, place, r)
    BY <1>5 DEF GetEdges
  <2> QED BY <2>1, GrantGoes DEF Scanning
<1>6. ASSUME NEW l \in Label, NEW d \in Dst, PutEdge(c, l, d) \/ DelEdge(c, l, d) PROVE GrantInv'
  <2>1. Operate(c)
    BY <1>6 DEF PutEdge, DelEdge
  <2>2. pc[c] = "open" /\ pc' = pc /\ UNCHANGED epochsVars
    BY <2>1 DEF Operate
  <2>3. \E t : SetTxn(c, t)
    BY <1>6 DEF PutEdge, DelEdge, PutIn, Wrote
  <2>4. \A e \in Client \ {c} : txn'[e] = txn[e]
    BY <2>3 DEF SetTxn, Types
  <2> QED BY <2>2, <2>4, GrantKept
<1> QED BY <1>1, <1>2, <1>3, <1>4, <1>5, <1>6 DEF Call

LEMMA GrantEnds ==
  ASSUME Basic, CommitsInv, GrantInv, NEW c \in Client, Ending(c)
  PROVE  GrantInv'
PROOF
<1>0. Types
  BY DEF Basic
<1>1. ASSUME Installs(c), UNCHANGED epochsVars PROVE GrantInv'
  BY <1>0, <1>1, GrantKept DEF Installs
<1>2. ASSUME NEW p \in Pointer, InstallTail(c, p) PROVE GrantInv'
  BY <1>1, <1>2, InstallTailDoes DEF InstallTail, Committing
<1>3. ASSUME NEW l \in Label, InstallLabel(c, l) PROVE GrantInv'
  BY <1>1, <1>3, InstallLabelDoes DEF InstallLabel, Committing
<1>4. CASE Stamp(c)
  BY <1>1, <1>4, StampDoes DEF Stamp, Committing
<1>5. CASE Clean(c)
  BY <1>0, <1>5, GrantGoes DEF Clean
<1>6. CASE Leave(c)
  <2>1. UNCHANGED epochsVars /\ (\E t : SetTxn(c, t)) /\ (Goto(c, "finish") \/ Goto(c, "idle"))
    BY <1>6 DEF Leave
  <2> QED BY <1>0, <2>1, GrantGoes
<1>7. CASE Spin(c)
  BY <1>0, <1>7, GrantGoes DEF Spin
<1>8. ASSUME NEW wait \in BOOLEAN, FinishCommit(c, wait) PROVE GrantInv'
  <2>1. Finish(c) /\ (pc' = [pc EXCEPT ![c] = "spin"] \/ pc' = [pc EXCEPT ![c] = "idle"]) /\ txn' = txn
    BY <1>8 DEF FinishCommit, Goto
  <2>2. stage' = [stage EXCEPT ![c] = "idle"] /\ grant' = [grant EXCEPT ![c] = 0] /\ visible' = visible
    BY <2>1 DEF Finish
  <2>3. \A d \in Client \ {c} : pc'[d] = pc[d] /\ stage'[d] = stage[d] /\ grant'[d] = grant[d]
    BY <1>0, <2>1, <2>2 DEF Types, GrantInv
  <2>4. pc'[c] # "install" /\ stage'[c] = "idle" /\ grant'[c] = 0 /\ grant' \in [Client -> Nat]
    BY <1>0, <2>1, <2>2 DEF Types, GrantInv
  <2>5. \A d \in Client : GrantOf(d)'
    BY <2>1, <2>2, <2>3, <2>4 DEF GrantInv, GrantOf
  <2> QED BY <2>4, <2>5 DEF GrantInv
<1> QED BY <1>2, <1>3, <1>4, <1>5, <1>6, <1>7, <1>8 DEF Ending

LEMMA GrantCompacts ==
  ASSUME Types, GrantInv, NEW c \in Client, Compactor(c)
  PROVE  GrantInv'
PROOF
<1>1. UNCHANGED <<epochsVars, txn>>
  BY DEF Compactor, ScanTable, CompactLabels, CompactSkip, Compacted, CompactLabel, Compacting
<1>2. compaction[c].resume # "install"
  BY DEF Types, CompactionRec
<1>3. \E place : place # "install" /\ Goto(c, place)
  BY <1>2 DEF Compactor, ScanTable, CompactLabels, CompactSkip, Compacted, CompactLabel, Compacting
<1> QED BY <1>1, <1>3, GrantGoes

LEMMA GrantReads ==
  ASSUME Types, GrantInv, NEW c \in Client, Reading(c)
  PROVE  GrantInv'
PROOF
<1>1. txn' = txn /\ \E place \in {"walk", "tail", "read", "entries", "open"} : \E r : Scanning(c, place, r)
  BY DEF Reading, ReadLabel, Walk, LoadTail, NextEntry, Return
<1>2. PICK place \in {"walk", "tail", "read", "entries", "open"} : UNCHANGED epochsVars /\ Goto(c, place)
  BY <1>1 DEF Scanning
<1> QED BY <1>1, <1>2, GrantGoes

LEMMA GrantServes ==
  ASSUME Basic, GrantInv, Publish \/ (\E G \in SUBSET Client : RegisterGroup(G))
  PROVE  GrantInv'
PROOF
<1>0. Types /\ sealed \in Nat /\ visible \in Nat /\ visible <= sealed
  BY DEF Basic, Types, EpochInv
<1>1. CASE Publish
  <2>1. /\ Holders(visible + 1) = {} /\ visible' = visible + 1 /\ UNCHANGED <<stage, grant, pc, txn>>
    BY <1>1 DEF Publish, MakeVisible
  <2>2. ASSUME NEW c \in Client, stage[c] = "granted" PROVE visible + 1 < grant[c]
    <3>1. grant[c] \in Nat /\ visible < grant[c]
      BY <2>2 DEF GrantInv, GrantOf
    <3>2. grant[c] # visible + 1
      BY <2>1, <2>2 DEF Holders
    <3> QED BY <1>0, <3>1, <3>2
  <2> QED BY <2>1, <2>2 DEF GrantInv, GrantOf
<1>2. ASSUME NEW G \in SUBSET Client, RegisterGroup(G) PROVE GrantInv'
  <2>1. /\ stage' = [c \in Client |-> IF c \in G THEN "granted" ELSE stage[c]]
        /\ grant' = [c \in Client |-> IF c \in G THEN sealed + 1 ELSE grant[c]]
        /\ visible' = visible
        /\ pc' = [c \in Client |-> IF c \in G THEN "install" ELSE pc[c]]
    BY <1>2 DEF RegisterGroup, Grant
  <2>2. \A c \in G : txn'[c].epoch = sealed + 1
    BY <1>2, GroupFacts DEF Granted
  <2>3. \A c \in Client \ G : txn'[c] = txn[c]
    BY <1>2, GroupFacts DEF Same
  <2>4. ASSUME NEW c \in Client PROVE GrantOf(c)'
    <3>1. CASE c \in G
      <4>1. stage'[c] = "granted" /\ grant'[c] = sealed + 1 /\ sealed + 1 \in Nat /\ visible' < sealed + 1
        BY <1>0, <2>1, <3>1
      <4> QED BY <2>2, <3>1, <4>1 DEF GrantOf
    <3>2. CASE c \notin G
      <4>1. stage'[c] = stage[c] /\ grant'[c] = grant[c] /\ pc'[c] = pc[c] /\ txn'[c] = txn[c]
        BY <2>1, <2>3, <3>2
      <4>2. GrantOf(c)
        BY DEF GrantInv
      <4> QED BY <2>1, <4>1, <4>2 DEF GrantOf
    <3> QED BY <3>1, <3>2
  <2>5. grant' \in [Client -> Nat]
    BY <1>0, <2>1 DEF GrantInv
  <2> QED BY <2>4, <2>5 DEF GrantInv
<1> QED BY <1>1, <1>2

LEMMA GrantStep ==
  ASSUME Basic, CommitsInv, GrantInv, [Next]_vars
  PROVE  GrantInv'
PROOF
<1>1. CASE UNCHANGED vars
  <2>1. UNCHANGED <<visible, stage, grant, pc, txn>>
    BY <1>1 DEF vars, epochsVars
  <2> QED BY <2>1 DEF GrantInv, GrantOf
<1>2. CASE Next
  <2>1. ASSUME NEW c \in Client, Call(c) \/ Reading(c) \/ Ending(c) \/ Compactor(c) PROVE GrantInv'
    BY <2>1, GrantCalls, GrantReads, GrantEnds, GrantCompacts DEF Basic
  <2> QED BY <1>2, <2>1, GrantServes DEF Next
<1> QED BY <1>1, <1>2

-----------------------------------------------------------------------------
(* Steps that leave all blocks alone *)

LEMMA StoreAlike ==
  ASSUME UNCHANGED store
  PROVE  /\ UNCHANGED <<edge_label_ptr, labels, blocks, freed, freedLabels>>
         /\ \A l : HeadOf(l)' = HeadOf(l) /\ Linked(l)' = Linked(l)
         /\ \A q, l : Pointed(q, l)' = Pointed(q, l)
         /\ HeadsNow' = HeadsNow /\ (ForestInv => ForestInv')
PROOF
<1>1. UNCHANGED <<edge_label_ptr, labels, blocks, freed, freedLabels>>
  BY DEF store
<1>2. \A q, l : Pointed(q, l)' = Pointed(q, l)
  BY <1>1 DEF Pointed
<1>3. \A l : HeadOf(l)' = HeadOf(l)
  BY <1>1 DEF HeadOf, Pointed
<1>4. \A l : Linked(l)' = Linked(l)
  BY <1>1, <1>3 DEF Linked
<1>5. HeadsNow' = HeadsNow
  BY <1>3 DEF HeadsNow
<1>6. ForestInv => ForestInv'
  BY <1>1 DEF ForestInv
<1> QED BY <1>1, <1>2, <1>3, <1>4, <1>5, <1>6

LEMMA AheadAlike ==
  ASSUME UNCHANGED store, NEW d, txn'[d].read = txn[d].read, NEW l
  PROVE  /\ \A p : Ahead(d, l, p)' <=> Ahead(d, l, p)
         /\ \A q : AheadLabel(d, l, q)' <=> AheadLabel(d, l, q)
PROOF
<1>1. UNCHANGED <<edge_label_ptr, labels, blocks, freed, freedLabels>> /\ Linked(l)' = Linked(l)
  BY StoreAlike
<1>2. \A p : Ahead(d, l, p)' <=> Ahead(d, l, p)
  BY <1>1 DEF Ahead, OvertakenAt
<1>3. ASSUME NEW q PROVE AheadLabel(d, l, q)' <=> AheadLabel(d, l, q)
  <2>1. PICK p : p = Pointed(q, l)
    OBVIOUS
  <2>2. Pointed(q, l)' = p
    BY <2>1, StoreAlike
  <2>3. Ahead(d, l, Pointed(q, l))' <=> Ahead(d, l, p)'
    BY <2>2 DEF Ahead, OvertakenAt, Linked
  <2> QED BY <1>1, <1>2, <2>1, <2>3 DEF AheadLabel
<1> QED BY <1>2, <1>3

LEMMA ReadAlike ==
  ASSUME UNCHANGED store, NEW d \in Client, Same(d), ReadOf(d)
  PROVE  ReadOf(d)'
PROOF
<1>1. txn'[d].read = txn[d].read
  BY DEF Same
<1>2. \A l : ReadsStay(d, l)
  BY <1>1, AheadAlike DEF ReadsStay
<1> QED BY <1>2, ReadStays

\* A writer that stays one with what it has made.
StaysIn(d) ==
  /\ txn'[d].ptrs = txn[d].ptrs /\ txn'[d].own = txn[d].own
  /\ pc[d] = "install" => pc'[d] = "install" /\ txn'[d].epoch = txn[d].epoch

LEMMA OwnedAlike ==
  ASSUME UNCHANGED store, NEW d \in Client, StaysIn(d), OwnedIn(d)
  PROVE  OwnedIn(d)'
PROOF
<1>1. UNCHANGED <<edge_label_ptr, labels, blocks, freed, freedLabels>> /\ \A l : HeadOf(l)' = HeadOf(l)
  BY StoreAlike
<1>2. \A l : TopOf(d, l)' = TopOf(d, l)
  BY <1>1 DEF TopOf, StaysIn
<1>3. TopsNow(d)' = TopsNow(d)
  BY <1>2 DEF TopsNow
<1>4. RootsOf(blocks, freed, TopsNow(d))'
  BY <1>1, <1>3 DEF OwnedIn
<1>5. \A l \in AnyLabel : HeadOf(l)' # NULLPOINTER => HeadOf(l)' \in Chain(blocks', TopOf(d, l)')
  BY <1>1, <1>2 DEF OwnedIn
<1>6. \A p \in DOMAIN blocks' \ freed' :
        /\ blocks'[p].prev \in txn'[d].own => p \in txn'[d].own
        /\ \A l \in AnyLabel : HeadOf(l)' # NULLPOINTER /\ blocks'[p].prev = HeadOf(l)' => p \in txn'[d].own
  BY <1>1 DEF OwnedIn, StaysIn
<1>7. \A q \in txn'[d].own : blocks'[q].creation < 0 \/ (pc'[d] = "install" /\ blocks'[q].creation = txn'[d].epoch)
  BY <1>1 DEF OwnedIn, StaysIn
<1> QED BY <1>4, <1>5, <1>6, <1>7 DEF OwnedIn

LEMMA SameStoreKeeps ==
  ASSUME KeepInv, UNCHANGED store, GrantInv',
         \A d \in Client : LockedIn(d)' <=> LockedIn(d),
         \A d \in Client : LockedIn(d) => StaysIn(d),
         \A d \in Client : ReadOf(d)'
  PROVE  KeepInv'
PROOF
<1>1. ForestInv' /\ HeadsNow' = HeadsNow
  BY StoreAlike DEF KeepInv
<1>2. HeadsInv'
  <2>1. UNCHANGED <<blocks, freed>> /\ \A l : HeadOf(l)' = HeadOf(l)
    BY StoreAlike
  <2>2. \A l \in AnyLabel : HeadOf(l)' \notin freed'
    BY <2>1 DEF KeepInv, HeadsInv
  <2>3. (\A d \in Client : ~LockedIn(d)') => RootsOf(blocks, freed, HeadsNow)'
    BY <1>1, <2>1 DEF KeepInv, HeadsInv
  <2> QED BY <2>2, <2>3 DEF HeadsInv
<1>3. OwnedInv'
  <2>1. \A d \in Client : LockedIn(d)' => OwnedIn(d)'
    BY OwnedAlike DEF KeepInv, OwnedInv, OwnedOf
  <2> QED BY <2>1 DEF OwnedInv, OwnedOf
<1>4. ReadInv'
  BY DEF ReadInv
<1> QED BY <1>1, <1>2, <1>3, <1>4 DEF KeepInv

\* The same for a step of c that other clients do not see.
LEMMA QuietReads ==
  ASSUME KeepInv, NEW c \in Client, Alone(c), UNCHANGED store, GrantInv',
         LockedIn(c)' <=> LockedIn(c), LockedIn(c) => StaysIn(c), ReadOf(c)'
  PROVE  KeepInv'
PROOF
<1>1. \A d \in Client \ {c} : Same(d)
  BY DEF Alone
<1>2. ASSUME NEW d \in Client \ {c} PROVE (LockedIn(d)' <=> LockedIn(d)) /\ StaysIn(d) /\ ReadOf(d)'
  <2>1. pc'[d] = pc[d] /\ txn'[d] = txn[d] /\ ReadOf(d)
    BY <1>1 DEF Same, KeepInv, ReadInv
  <2> QED BY <1>1, <2>1, ReadAlike DEF LockedIn, Writer, Open, StaysIn
<1> QED BY <1>2, SameStoreKeeps

LEMMA TurnReads ==
  ASSUME Basic, KeepInv, NEW c \in Client, QuietStep(c), GrantInv', NEW place, Goto(c, place), place \notin InScan,
         \/ ~Writer(c) /\ (~Writer(c)' \/ ~txn'[c].locked)
         \/ Open(c) /\ txn' = txn /\ (~txn[c].locked \/ place = "registered")
  PROVE  KeepInv'
PROOF
<1>1. Alone(c) /\ UNCHANGED store
  BY DEF QuietStep
<1>2. pc'[c] = place
  BY DEF Goto, Basic, Types
<1>3. ReadOf(c)'
  BY <1>2, NotReading
<1>4. CASE ~Writer(c) /\ (~Writer(c)' \/ ~txn'[c].locked)
  <2>1. ~LockedIn(c) /\ ~LockedIn(c)'
    BY <1>4 DEF LockedIn
  <2> QED BY <1>1, <1>3, <2>1, QuietReads
<1>5. CASE Open(c) /\ txn' = txn /\ (~txn[c].locked \/ place = "registered")
  <2>1. pc[c] # "install"
    BY <1>5 DEF Open, InScan
  <2>2. StaysIn(c)
    BY <1>5, <2>1 DEF StaysIn
  <2>3. LockedIn(c)' <=> LockedIn(c)
    BY <1>2, <1>5 DEF LockedIn, Writer, Open
  <2> QED BY <1>1, <1>3, <2>2, <2>3, QuietReads
<1> QED BY <1>4, <1>5

LEMMA CallReads ==
  ASSUME Basic, CommitsInv, KeepInv, GrantInv', NEW c \in Client,
         Begin(c) \/ Commit(c) \/ Compact(c) \/ (Abort(c) /\ ~txn[c].locked)
  PROVE  KeepInv'
PROOF
<1>0. Types
  BY DEF Basic
<1>1. CASE Begin(c)
  <2>1. PICK place \in {"scan", "open"} : Goto(c, place) /\ pc[c] = "idle"
    BY <1>1 DEF Begin
  <2>2. txn'[c].locked = FALSE
    <3> DEFINE t == [NoTxn EXCEPT !.id = IF c \in ReadOnly THEN ROLLBACK_TOMBSTONE - 1 ELSE transaction_id + 1, !.read = visible]
    <3>1. txn' = [txn EXCEPT ![c] = t]
      BY <1>1 DEF Begin, SetTxn
    <3>2. t.locked = FALSE
      BY DEF NoTxn
    <3>3. txn \in [Client -> TxnRec]
      BY <1>0 DEF Types
    <3> HIDE DEF t
    <3> QED BY <3>1, <3>2, <3>3
  <2>4. ~Writer(c)
    BY <2>1 DEF Writer, Open, InScan
  <2>5. place \notin InScan
    BY DEF InScan
  <2> QED BY <1>1, <2>1, <2>2, <2>4, <2>5, BeginQuiet, TurnReads
<1>2. CASE Commit(c)
  <2>1. Goto(c, "registered") /\ Open(c) /\ txn' = txn
    BY <1>2 DEF Commit, Open
  <2> QED BY <1>2, <2>1, CommitQuiet, TurnReads DEF InScan
<1>3. CASE Compact(c)
  <2>1. Goto(c, "scan") /\ pc[c] = "idle"
    BY <1>3 DEF Compact, Compacting
  <2>2. ~Writer(c) /\ ~Writer(c)'
    BY <1>0, <2>1 DEF Goto, Types, Writer, Open, InScan
  <2> QED BY <1>3, <2>1, <2>2, CompactQuiet, TurnReads DEF InScan
<1>4. CASE Abort(c) /\ ~txn[c].locked
  <2>1. Goto(c, "clean") /\ Open(c) /\ txn' = txn
    BY <1>4 DEF Abort, Open
  <2> QED BY <1>4, <2>1, AbortQuiet, TurnReads DEF InScan
<1> QED BY <1>1, <1>2, <1>3, <1>4

LEMMA EndReads ==
  ASSUME Basic, CommitsInv, KeepInv, GrantInv', NEW c \in Client,
         Leave(c) \/ (\E wait \in BOOLEAN : FinishCommit(c, wait)) \/ Spin(c)
  PROVE  KeepInv'
PROOF
<1>0. Types
  BY DEF Basic
<1>1. PICK place \in {"finish", "idle", "spin"} : Goto(c, place) /\ pc[c] \in {"leave", "finish", "spin"}
  BY DEF Leave, FinishCommit, Spin
<1>2. ~Writer(c) /\ ~Writer(c)' /\ place \notin InScan
  BY <1>0, <1>1 DEF Goto, Types, Writer, Open, InScan
<1>3. QuietStep(c)
  BY LeaveQuiet, FinishQuiet
<1> QED BY <1>1, <1>2, <1>3, TurnReads

LEMMA CompactReads ==
  ASSUME Basic, CommitsInv, KeepInv, GrantInv', NEW c \in Client, ScanTable(c) \/ CompactSkip(c) \/ Compacted(c)
  PROVE  KeepInv'
PROOF
<1>0. Types /\ PlaceOf(c)
  BY DEF Basic, PlaceInv
<1>1. pc[c] \in {"scan", "lock", "compact"} /\ txn' = txn
  BY DEF ScanTable, CompactSkip, Compacted, Compacting
<1>2. PICK place : Goto(c, place) /\ place \in {"lock", "idle", "open"}
  <2>1. compaction[c].resume \in {"idle", "open"}
    BY <1>0 DEF Types, CompactionRec
  <2> QED BY <2>1 DEF ScanTable, CompactSkip, Compacted, Compacting
<1>3. ~Writer(c) /\ ~txn'[c].locked /\ place \notin InScan
  <2>1. ~Writer(c) /\ place \notin InScan
    BY <1>1, <1>2 DEF Writer, Open, InScan
  <2> QED BY <1>0, <1>1, <2>1 DEF PlaceOf
<1>4. QuietStep(c)
  BY ScanTableQuiet, CompactedQuiet
<1> QED BY <1>2, <1>3, <1>4, TurnReads

\* When all is installed, what a writer has on top is what there is to see.
LEMMA CleanReads ==
  ASSUME Basic, StoreInv, CommitsInv, KeepInv, GrantInv', NEW c \in Client, Clean(c)
  PROVE  KeepInv'
PROOF
<1>0. Types
  BY DEF Basic
<1>1. Goto(c, "leave") /\ txn' = txn /\ UNCHANGED <<store, scan, compaction, epochsVars>>
  BY DEF Clean
<1>2. pc'[c] = "leave"
  BY <1>0, <1>1 DEF Goto, Types
<1>3. ~Writer(c)' /\ pc'[c] \notin InScan
  BY <1>2 DEF Writer, Open, InScan
<1>4. CASE Installing(c)
  <2>1. Pending(txn[c]) = {} /\ pc[c] = "install" /\ txn[c].locked
    BY <1>4 DEF Installing, Clean
  <2>2. \A l : TopOf(c, l) = HeadOf(l)
    BY <2>1 DEF TopOf, Pending
  <2>3. TopsNow(c) = HeadsNow
    BY <2>2 DEF TopsNow, HeadsNow
  <2>4. Writer(c) /\ Holds(c) /\ LockedIn(c)
    BY <2>1 DEF Writer, Holds, LockedIn
  <2>5. RootsOf(blocks, freed, HeadsNow)
    BY <2>3, <2>4 DEF KeepInv, OwnedInv, OwnedOf, OwnedIn
  <2>6. Alone(c)
    <3>1. \A d \in Client \ {c} : pc'[d] = pc[d]
      BY <1>0, <1>1 DEF Goto, Types
    <3>2. stage' = stage
      BY <1>1 DEF epochsVars
    <3> QED BY <1>1, <3>1, <3>2 DEF Alone, Same
  <2>7. ForestInv' /\ \A l \in AnyLabel : HeadOf(l)' \notin freed'
    BY <1>1, StoreAlike DEF KeepInv, HeadsInv
  <2>8. RootsOf(blocks, freed, HeadsNow)'
    BY <1>1, <2>5, StoreAlike
  <2>9. OwnedOf(c)'
    BY <1>3 DEF OwnedOf, LockedIn
  <2>10. \A d \in Client \ {c}, l \in Label : ReadsStay(d, l)
    BY <1>1, AheadAlike DEF ReadsStay
  <2> QED BY <1>3, <2>4, <2>6, <2>7, <2>8, <2>9, <2>10, HolderKeeps
<1>5. CASE ~Installing(c)
  <2>1. QuietStep(c)
    BY <1>5, CleanQuiet
  <2>2. ~LockedIn(c) /\ ~LockedIn(c)'
    <3>1. pc[c] \in {"clean", "install"}
      BY DEF Clean
    <3> QED BY <1>3, <1>5, <3>1 DEF LockedIn, Installing, Writer, Open, InScan
  <2>3. Alone(c) /\ UNCHANGED store /\ ReadOf(c)'
    BY <1>3, <2>1, NotReading DEF QuietStep
  <2> QED BY <2>2, <2>3, QuietReads
<1> QED BY <1>4, <1>5

LEMMA ServerReads ==
  ASSUME Basic, KeepInv, GrantInv',
         Publish \/ UNCHANGED vars \/ \E G \in SUBSET Client : RegisterGroup(G)
  PROVE  KeepInv'
PROOF
<1>1. CASE Publish \/ UNCHANGED vars
  <2>1. UNCHANGED <<store, pc, txn, scan, compaction>>
    BY <1>1 DEF Publish, vars
  <2>2. ASSUME NEW d \in Client PROVE (LockedIn(d)' <=> LockedIn(d)) /\ StaysIn(d) /\ ReadOf(d)'
    <3>1. Same(d) /\ ReadOf(d) /\ UNCHANGED store
      BY <2>1 DEF Same, KeepInv, ReadInv
    <3>2. ReadOf(d)'
      BY <3>1, ReadAlike
    <3> QED BY <2>1, <3>2 DEF LockedIn, Writer, Open, StaysIn
  <2> QED BY <2>1, <2>2, SameStoreKeeps
<1>2. ASSUME NEW G \in SUBSET Client, RegisterGroup(G) PROVE KeepInv'
  <2>1. UNCHANGED store
    BY <1>2 DEF RegisterGroup
  <2>2. ASSUME NEW d \in Client PROVE (LockedIn(d)' <=> LockedIn(d)) /\ StaysIn(d) /\ ReadOf(d)'
    <3>1. CASE d \in G
      <4>1. Granted(d)
        BY <1>2, <3>1, GroupFacts
      <4>2. /\ pc[d] = "registered" /\ pc'[d] = "install" /\ txn'[d].ptrs = txn[d].ptrs
            /\ txn'[d].own = txn[d].own /\ txn'[d].locked = txn[d].locked
        BY <4>1 DEF Granted
      <4>3. LockedIn(d)' <=> LockedIn(d)
        BY <4>2 DEF LockedIn, Writer, Open
      <4>4. ReadOf(d)'
        BY <4>2, NotReading DEF InScan
      <4> QED BY <4>2, <4>3, <4>4 DEF StaysIn
    <3>2. CASE d \notin G
      <4>1. Same(d) /\ ReadOf(d)
        BY <1>2, <3>2, GroupFacts DEF KeepInv, ReadInv
      <4>2. ReadOf(d)'
        BY <2>1, <4>1, ReadAlike
      <4> QED BY <4>1, <4>2 DEF Same, LockedIn, Writer, Open, StaysIn
    <3> QED BY <3>1, <3>2
  <2> QED BY <2>1, <2>2, SameStoreKeeps
<1> QED BY <1>1, <1>2

LEMMA ScanReads ==
  ASSUME Basic, KeepInv, NEW c \in Client, ScanStep(c), GrantInv', ReadOf(c)'
  PROVE  KeepInv'
PROOF
<1>1. /\ Alone(c) /\ UNCHANGED store /\ Keeps(c)
      /\ pc[c] \in InScan \cup {"open", "read"} /\ pc'[c] \in InScan \cup {"open", "read"}
  BY DEF ScanStep
<1>2. Writer(c) /\ Writer(c)' /\ pc[c] # "install"
  BY <1>1 DEF Writer, Open, InScan
<1>3. (LockedIn(c)' <=> LockedIn(c)) /\ StaysIn(c)
  BY <1>1, <1>2 DEF LockedIn, StaysIn, Keeps
<1> QED BY <1>1, <1>3, QuietReads

\* A reader that comes to the newest block to see has passed nothing it should stop at.
LEMMA HeadAhead ==
  ASSUME Basic, StoreInv, KeepInv, NEW c \in Client, Open(c), NEW l \in AnyLabel
  PROVE  Ahead(c, l, HeadOf(l))
PROOF
<1> DEFINE h == HeadOf(l)
           read == txn[c].read
<1>1. /\ Older(blocks) /\ Forest(blocks, freed) /\ h \in 0 .. Len(blocks)
  BY KeepAt
<1>2. read \in Int /\ read <= visible /\ visible \in Int /\ DOMAIN blocks = 1 .. Len(blocks)
  <2>1. PlaceOf(c) /\ Types
    BY DEF Basic, PlaceInv
  <2>2. visible \in Nat /\ read \in -1 .. visible
    BY <2>1 DEF PlaceOf, Types, EpochInv
  <2> QED BY <1>1, <2>2 DEF Older
<1> HIDE DEF h, read
<1>3. Unpassed(blocks, freed, h, read)
  <2>1. CASE \A d \in Client : ~LockedIn(d)
    <3>1. Root(blocks, freed, h)
      BY <2>1, HeadRoots DEF h
    <3> QED BY <1>1, <3>1, RootUnpassed
  <2>2. ASSUME NEW d \in Client, LockedIn(d) PROVE Unpassed(blocks, freed, h, read)
    <3> DEFINE S == txn[d].own
    <3>1. OwnedIn(d) /\ GrantOf(d) /\ grant[d] \in Int
      BY <2>2 DEF KeepInv, OwnedInv, OwnedOf, GrantInv
    <3>2. \A p \in DOMAIN blocks \ freed : blocks[p].prev \in S \/ (h # NULLPOINTER /\ blocks[p].prev = h) => p \in S
      BY <3>1 DEF OwnedIn, h
    <3>3. \A q \in S : q \in DOMAIN blocks => Passes(blocks[q], read)
      <4> SUFFICES ASSUME NEW q \in S, q \in DOMAIN blocks PROVE Passes(blocks[q], read)
        OBVIOUS
      <4>1. blocks[q].creation < 0 \/ (pc[d] = "install" /\ blocks[q].creation = txn[d].epoch)
        BY <3>1 DEF OwnedIn
      <4>2. pc[d] = "install" => txn[d].epoch = grant[d] /\ visible < grant[d]
        BY <3>1 DEF GrantOf
      <4>3. CASE blocks[q].creation < 0
        <5>1. Types
          BY DEF Basic
        <5>2. blocks[q].creation \in Int
          BY <5>1, BlockFields
        <5> QED BY <4>3, <5>2 DEF Passes
      <4>4. CASE blocks[q].creation = grant[d] /\ visible < grant[d]
        <5>1. ~(blocks[q].creation < read)
          BY <1>2, <3>1, <4>4
        <5> QED BY <5>1 DEF Passes
      <4> QED BY <4>1, <4>2, <4>3, <4>4
    <3> HIDE DEF S
    <3> QED BY <1>1, <3>2, <3>3, HeadUnpassed
  <2> QED BY <2>1, <2>2
<1>4. h = NULLPOINTER \/ h \in Chain(blocks, h)
  BY <1>1, ChainFacts
<1> QED BY <1>3, <1>4 DEF Ahead, Linked, h, read

LEMMA GetEdgesReads ==
  ASSUME Basic, StoreInv, KeepInv, NEW c \in Client, GrantInv',
         NEW l \in Label, NEW want, NEW one, NEW reverse, GetEdges(c, l, want, one, reverse)
  PROVE  KeepInv'
PROOF
<1>1. /\ ScanStep(c) /\ pc[c] = "open" /\ scan'[c].l = l
      /\ \/ pc'[c] = "label" /\ scan'[c].lb = edge_label_ptr /\ scan'[c].ptr = NULLPOINTER
         \/ pc'[c] = "tail" /\ scan'[c].lb = NULLPOINTER /\ scan'[c].ptr = txn[c].ptrs[l]
  BY GetEdgesStep
<1>2. UNCHANGED store /\ txn'[c].read = txn[c].read /\ txn'[c].ptrs = txn[c].ptrs
  BY <1>1 DEF ScanStep, Keeps
<1>3. AheadLabel(c, l, edge_label_ptr)
  <2>1. Ahead(c, l, HeadOf(l))
    BY <1>1, HeadAhead DEF Open, AnyLabel
  <2>2. /\ Older(labels) /\ Forest(labels, freedLabels) /\ Root(labels, freedLabels, edge_label_ptr)
        /\ edge_label_ptr \in 0 .. Len(labels)
    BY KeepAt
  <2>3. Unpassed(labels, freedLabels, edge_label_ptr, txn[c].read)
    BY <2>2, RootUnpassed
  <2>4. edge_label_ptr = NULLPOINTER \/ edge_label_ptr \in Chain(labels, edge_label_ptr)
    BY <2>2, ChainFacts
  <2> QED BY <2>1, <2>3, <2>4 DEF AheadLabel, HeadOf
<1>4. PICK e : e = edge_label_ptr
  OBVIOUS
<1>5. AheadLabel(c, l, e)'
  BY <1>2, <1>3, <1>4, AheadAlike
<1>6. ReadOf(c)'
  <2>1. CASE pc'[c] = "label" /\ scan'[c].lb = edge_label_ptr /\ scan'[c].ptr = NULLPOINTER
    <3>1. AheadLabel(c, scan[c].l, scan[c].lb)'
      BY <1>1, <1>4, <1>5, <2>1
    <3> QED BY <1>1, <2>1, <3>1 DEF ReadOf
  <2>2. CASE pc'[c] = "tail" /\ scan'[c].lb = NULLPOINTER /\ scan'[c].ptr = txn[c].ptrs[l]
    BY <1>1, <1>2, <2>2 DEF ReadOf
  <2> QED BY <1>1, <2>1, <2>2
<1> QED BY <1>1, <1>6, ScanReads

LEMMA ReadLabelReads ==
  ASSUME Basic, KeepInv, NEW c \in Client, GrantInv', ReadLabel(c)
  PROVE  KeepInv'
PROOF
<1>1. /\ ScanStep(c) /\ pc'[c] = "walk" /\ scan'[c].lb = NULLPOINTER /\ scan'[c].l = scan[c].l
      /\ scan'[c].ptr = Pointed(scan[c].lb, scan[c].l) /\ pc[c] = "label"
  BY ReadLabelStep DEF ReadLabel
<1>2. UNCHANGED store /\ txn'[c].read = txn[c].read
  BY <1>1 DEF ScanStep, Keeps
<1>3. PICK l, q : l \in Label /\ l = scan[c].l /\ q = scan[c].lb /\ AheadLabel(c, l, q)
  BY <1>1 DEF KeepInv, ReadInv, ReadOf, InScan
<1>4. PICK p : p = Pointed(q, l)
  OBVIOUS
<1>5. Ahead(c, l, p)
  <2>1. CASE q = NULLPOINTER
    BY <1>4, <2>1 DEF Ahead, Pointed
  <2>2. CASE q # NULLPOINTER
    BY <1>3, <1>4, <2>2 DEF AheadLabel
  <2> QED BY <2>1, <2>2
<1>6. Ahead(c, l, p)'
  BY <1>2, <1>5, AheadAlike
<1>7. Ahead(c, scan[c].l, scan[c].ptr)'
  BY <1>1, <1>3, <1>4, <1>6
<1>8. ReadOf(c)'
  BY <1>1, <1>3, <1>7 DEF ReadOf
<1> QED BY <1>1, <1>8, ScanReads

LEMMA WalkReads ==
  ASSUME Basic, StoreInv, KeepInv, NEW c \in Client, GrantInv', Walk(c)
  PROVE  KeepInv'
PROOF
<1> DEFINE read == txn[c].read
<1>1. /\ ScanStep(c) /\ pc[c] = "walk" /\ scan'[c].l = scan[c].l /\ scan'[c].lb = scan[c].lb
      /\ \/ pc'[c] = "tail" /\ scan'[c].ptr = scan[c].ptr
         \/ /\ pc'[c] = "walk" /\ scan[c].ptr # NULLPOINTER /\ scan'[c].ptr = blocks[scan[c].ptr].prev
            /\ ~Visible(blocks[scan[c].ptr].creation, txn[c])
  BY WalkStep
<1>2. UNCHANGED store /\ txn'[c].read = txn[c].read
  BY <1>1 DEF ScanStep, Keeps
<1>3. PICK l, p : l \in Label /\ l = scan[c].l /\ p = scan[c].ptr /\ Ahead(c, l, p) /\ scan[c].lb = NULLPOINTER
  BY <1>1 DEF KeepInv, ReadInv, ReadOf, InScan
<1>4. CASE pc'[c] = "tail" /\ scan'[c].ptr = scan[c].ptr
  <2>1. Ahead(c, l, p)'
    BY <1>2, <1>3, AheadAlike
  <2>2. Ahead(c, scan[c].l, scan[c].ptr)'
    BY <1>1, <1>3, <1>4, <2>1
  <2>3. ReadOf(c)'
    BY <1>1, <1>3, <1>4, <2>2 DEF ReadOf
  <2> QED BY <1>1, <2>3, ScanReads
<1>5. CASE pc'[c] = "walk" /\ p # NULLPOINTER /\ scan'[c].ptr = blocks[p].prev /\ ~Visible(blocks[p].creation, txn[c])
  <2>1. PICK n : n = blocks[p].prev
    OBVIOUS
  <2>2. Older(blocks) /\ Forest(blocks, freed) /\ Linked(l) \subseteq DOMAIN blocks \ freed /\ HeadOf(l) \in 0 .. Len(blocks)
        /\ DOMAIN blocks = 1 .. Len(blocks) /\ Len(blocks) \in Nat
    <3>1. l \in AnyLabel
      BY <1>3 DEF AnyLabel
    <3> QED BY <3>1, KeepAt
  <2>3. ASSUME OvertakenAt(c, l, p) PROVE Ahead(c, l, n)
    <3>1. PICK q \in Linked(l) : q > p /\ ~Passes(blocks[q], read)
      BY <2>3 DEF OvertakenAt
    <3>2. p \in DOMAIN blocks
      <4>1. RefsOf(c) /\ IsScan(scan[c])
        BY DEF Basic, RefsInv, Types
      <4>2. p \in Nat /\ p <= Len(blocks)
        BY <1>3, <4>1 DEF RefsOf, IsScan
      <4> QED BY <1>5, <2>2, <4>2
    <3>3. n \in 0 .. p - 1
      BY <2>1, <2>2, <3>2 DEF Older
    <3>4. q > n
      BY <2>2, <3>1, <3>2, <3>3
    <3> QED BY <2>2, <3>1, <3>2, <3>3, <3>4 DEF Ahead, OvertakenAt
  <2>4. ASSUME p \in Linked(l), Unpassed(blocks, freed, p, read) PROVE Ahead(c, l, n)
    <3>1. n = NULLPOINTER \/ n \in Linked(l)
      BY <2>1, <2>2, <2>4, ChainFacts DEF Linked
    <3>2. Passes(blocks[p], read)
      <4>1. Types /\ PlaceOf(c) /\ p \in DOMAIN blocks
        BY <2>2, <2>4 DEF Basic, PlaceInv
      <4>2. blocks[p].creation \in Int
        BY <4>1, BlockFields
      <4>3. read \in Int
        <5>1. visible \in Nat
          BY <4>1 DEF Types, EpochInv
        <5> QED BY <4>1, <5>1 DEF PlaceOf
      <4> QED BY <1>5, <4>2, <4>3 DEF Visible, Passes
    <3>3. Unpassed(blocks, freed, n, read)
      <4> SUFFICES ASSUME NEW q \in DOMAIN blocks \ freed, n \in Chain(blocks, q), q # n PROVE Passes(blocks[q], read)
        BY DEF Unpassed
      <4>1. p \in Chain(blocks, q)
        BY <2>1, <2>2, <2>4, AbovePrev
      <4> QED BY <2>4, <3>2, <4>1 DEF Unpassed
    <3> QED BY <3>1, <3>3 DEF Ahead
  <2>5. Ahead(c, l, n)
    BY <1>3, <1>5, <2>3, <2>4 DEF Ahead
  <2>6. Ahead(c, l, n)'
    BY <1>2, <2>5, AheadAlike
  <2>7. Ahead(c, scan[c].l, scan[c].ptr)'
    BY <1>1, <1>3, <1>5, <2>1, <2>6
  <2>8. ReadOf(c)'
    BY <1>1, <1>3, <1>5, <2>7 DEF ReadOf
  <2> QED BY <1>1, <2>8, ScanReads
<1> QED BY <1>1, <1>3, <1>4, <1>5

LEMMA BlockReads ==
  ASSUME Basic, KeepInv, NEW c \in Client, GrantInv', LoadTail(c) \/ NextEntry(c) \/ Return(c)
  PROVE  KeepInv'
PROOF
<1>1. CASE LoadTail(c) \/ NextEntry(c)
  <2>1. /\ ScanStep(c) /\ pc[c] \in {"tail", "entries"} /\ scan'[c].l = scan[c].l /\ scan'[c].lb = scan[c].lb
        /\ scan'[c].ptr = scan[c].ptr /\ pc'[c] \in {"read", "entries"}
    BY <1>1, LoadTailStep, NextEntryStep
  <2>2. UNCHANGED store /\ txn'[c].read = txn[c].read /\ txn'[c].ptrs = txn[c].ptrs
    BY <2>1 DEF ScanStep, Keeps
  <2>3. PICK l, p : /\ l \in Label /\ l = scan[c].l /\ p = scan[c].ptr /\ (Ahead(c, l, p) \/ p = txn[c].ptrs[l])
                    /\ scan[c].lb = NULLPOINTER
    BY <2>1 DEF KeepInv, ReadInv, ReadOf, InScan
  <2>4. Ahead(c, l, p)' \/ p = txn'[c].ptrs[l]
    BY <2>2, <2>3, AheadAlike
  <2>5. l = scan'[c].l /\ p = scan'[c].ptr
    BY <2>1, <2>3
  <2>6. Ahead(c, scan[c].l, scan[c].ptr)' \/ scan'[c].ptr = txn'[c].ptrs[scan'[c].l]
    BY <2>4, <2>5
  <2>7. ReadOf(c)'
    BY <2>1, <2>3, <2>5, <2>6 DEF ReadOf, InScan
  <2> QED BY <2>1, <2>7, ScanReads
<1>2. CASE Return(c)
  <2>1. ScanStep(c) /\ pc'[c] = "open"
    BY <1>2, ReturnStep
  <2>2. ReadOf(c)'
    BY <2>1, NotReading DEF InScan
  <2> QED BY <2>1, <2>2, ScanReads
<1> QED BY <1>1, <1>2

\* What a scan needs to go on after a step of somebody with the lock.
LEMMA StaysBy ==
  ASSUME NEW d, NEW l, txn'[d].read = txn[d].read,
         \A p : Ahead(d, l, p) => Ahead(d, l, p)',
         \A q : q \in Chain(labels, edge_label_ptr) /\ Unpassed(labels, freedLabels, q, txn[d].read) =>
           q \in Chain(labels', edge_label_ptr') /\ Unpassed(labels', freedLabels', q, txn[d].read),
         \A q : q # NULLPOINTER /\ AheadLabel(d, l, q) => Ahead(d, l, Pointed(q, l))'
  PROVE  ReadsStay(d, l)
PROOF
<1>1. ASSUME NEW q, AheadLabel(d, l, q) PROVE AheadLabel(d, l, q)'
  <2>1. CASE q = NULLPOINTER
    BY <2>1 DEF AheadLabel
  <2>2. CASE q # NULLPOINTER
    <3>1. q \in Chain(labels, edge_label_ptr) /\ Unpassed(labels, freedLabels, q, txn[d].read)
      BY <1>1, <2>2 DEF AheadLabel
    <3>2. Ahead(d, l, Pointed(q, l))'
      BY <1>1, <2>2
    <3> QED BY <3>1, <3>2 DEF AheadLabel
  <2> QED BY <2>1, <2>2
<1> QED BY <1>1 DEF ReadsStay

\* What is in reach at a snapshot, and what it has been overtaken by, stays so.
LEMMA AheadStays ==
  ASSUME NEW d, NEW l, txn'[d].read = txn[d].read, Linked(l) \subseteq Linked(l)',
         \A q \in Linked(l) : Passes(blocks'[q], txn[d].read) => Passes(blocks[q], txn[d].read),
         \A p \in Linked(l) : Unpassed(blocks, freed, p, txn[d].read) => Unpassed(blocks', freed', p, txn[d].read)
  PROVE  \A p : Ahead(d, l, p) => Ahead(d, l, p)'
PROOF
<1> SUFFICES ASSUME NEW p, Ahead(d, l, p) PROVE Ahead(d, l, p)'
  OBVIOUS
<1>1. CASE OvertakenAt(d, l, p)
  <2>1. PICK q \in Linked(l) : p \in Nat /\ q > p /\ ~Passes(blocks[q], txn[d].read)
    BY <1>1 DEF OvertakenAt
  <2>2. q \in Linked(l)' /\ ~Passes(blocks'[q], txn'[d].read)
    BY <2>1
  <2>3. OvertakenAt(d, l, p)'
    BY <2>1, <2>2 DEF OvertakenAt, Passes
  <2> QED BY <2>3 DEF Ahead
<1>2. CASE p = NULLPOINTER \/ (p \in Linked(l) /\ Unpassed(blocks, freed, p, txn[d].read))
  BY <1>2 DEF Ahead
<1> QED BY <1>1, <1>2 DEF Ahead

LEMMA SameLabelsStay ==
  ASSUME NEW d, NEW l, txn'[d].read = txn[d].read, UNCHANGED <<labels, edge_label_ptr, freedLabels>>,
         \A p : Ahead(d, l, p) => Ahead(d, l, p)'
  PROVE  ReadsStay(d, l)
PROOF
<1>1. ASSUME NEW q, q # NULLPOINTER, AheadLabel(d, l, q) PROVE Ahead(d, l, Pointed(q, l))'
  <2>1. PICK p : p = Pointed(q, l)
    OBVIOUS
  <2>2. Pointed(q, l)' = p
    BY <2>1 DEF Pointed
  <2>3. Ahead(d, l, p)
    BY <1>1, <2>1 DEF AheadLabel
  <2>4. Ahead(d, l, p)'
    BY <2>3
  <2> QED BY <2>2, <2>4
<1> QED BY <1>1, StaysBy

LEMMA LabelsAlike ==
  ASSUME UNCHANGED <<edge_label_ptr, labels>>
  PROVE  (\A q, l : Pointed(q, l)' = Pointed(q, l)) /\ \A l : HeadOf(l)' = HeadOf(l)
BY DEF HeadOf, Pointed

LEMMA TopIn ==
  ASSUME Basic, StoreInv, KeepInv, NEW c \in Client, Writer(c), NEW k
  PROVE  TopOf(c, k) \in 0 .. Len(blocks)
PROOF
<1>1. RefsOf(c) /\ Types /\ Len(blocks) \in Nat /\ HeadOf(k) \in 0 .. Len(blocks)
  BY KeepAt DEF Basic, RefsInv
<1>2. CASE k \in Label /\ txn[c].ptrs[k] # NoCache
  <2>1. txn[c].ptrs[k] \in Nat \cup {NoCache}
    BY <1>1, <1>2, TxnFields
  <2>2. txn[c].ptrs[k] \in Nat /\ txn[c].ptrs[k] <= Len(blocks)
    BY <1>1, <1>2, <2>1 DEF RefsOf
  <2> QED BY <1>1, <1>2, <2>2 DEF TopOf
<1>3. CASE ~(k \in Label /\ txn[c].ptrs[k] # NoCache)
  BY <1>1, <1>3 DEF TopOf
<1> QED BY <1>2, <1>3

\* A step of a writer that makes no block and leaves what is on top, the chains and their creation times.
LEMMA ShapeKeeps ==
  ASSUME Basic, StoreInv, KeepInv, GrantInv', NEW c \in Client, Writer(c), txn[c].locked \/ vertex_futex = 0, Alone(c),
         pc' = pc, pc[c] \notin InScan, txn'[c].locked, txn'[c].own = txn[c].own, txn'[c].epoch = txn[c].epoch,
         Older(blocks'), Len(blocks') = Len(blocks),
         \A o \in DOMAIN blocks : blocks'[o].prev = blocks[o].prev /\ blocks'[o].creation = blocks[o].creation,
         UNCHANGED <<edge_label_ptr, labels, freed, freedLabels>>,
         \A k \in AnyLabel : TopOf(c, k)' = TopOf(c, k)
  PROVE  KeepInv'
PROOF
<1>1. /\ Older(blocks) /\ \A k : HeadOf(k)' = HeadOf(k) /\ HeadOf(k) \in 0 .. Len(blocks)
      /\ ForestInv /\ \A k \in AnyLabel : HeadOf(k) \notin freed
  BY KeepAt, LabelsAlike DEF KeepInv, HeadsInv
<1>2. /\ DOMAIN blocks' = DOMAIN blocks
      /\ \A r \in 0 .. Len(blocks) : Chain(blocks', r) = Chain(blocks, r)
      /\ Forest(blocks, freed) => Forest(blocks', freed)
      /\ \A h : Root(blocks, freed, h) => Root(blocks', freed, h)
      /\ \A x, read : Unpassed(blocks, freed, x, read) => Unpassed(blocks', freed, x, read)
  BY <1>1, Reshaped
<1>3. ForestInv'
  BY <1>1, <1>2 DEF ForestInv
<1>4. OwnedIn(c)
  BY MayWrite
<1>5. TopsNow(c)' = TopsNow(c)
  BY DEF TopsNow
<1>6. RootsOf(blocks, freed, TopsNow(c))'
  BY <1>2, <1>4, <1>5 DEF OwnedIn, RootsOf
<1>7. OwnedIn(c)'
  <2>1. \A k \in AnyLabel : HeadOf(k)' # NULLPOINTER => HeadOf(k)' \in Chain(blocks', TopOf(c, k)')
    <3> SUFFICES ASSUME NEW k \in AnyLabel, HeadOf(k) # NULLPOINTER PROVE HeadOf(k) \in Chain(blocks', TopOf(c, k))
      BY <1>1
    <3>1. HeadOf(k) \in Chain(blocks, TopOf(c, k))
      BY <1>4 DEF OwnedIn
    <3>2. TopOf(c, k) \in 0 .. Len(blocks)
      BY TopIn
    <3> QED BY <1>2, <3>1, <3>2
  <2>2. \A p \in DOMAIN blocks' \ freed' :
          /\ blocks'[p].prev \in txn'[c].own => p \in txn'[c].own
          /\ \A k \in AnyLabel : HeadOf(k)' # NULLPOINTER /\ blocks'[p].prev = HeadOf(k)' => p \in txn'[c].own
    BY <1>1, <1>2, <1>4 DEF OwnedIn
  <2>3. \A q \in txn'[c].own : blocks'[q].creation < 0 \/ (pc'[c] = "install" /\ blocks'[q].creation = txn'[c].epoch)
    <3>1. txn[c].own \subseteq DOMAIN blocks
      BY DEF Basic, RefsInv, RefsOf
    <3> QED BY <1>4, <3>1 DEF OwnedIn
  <2> QED BY <1>6, <2>1, <2>2, <2>3 DEF OwnedIn
<1>8. OwnedOf(c)'
  BY <1>7 DEF OwnedOf
<1>9. ASSUME NEW d \in Client \ {c}, NEW l \in Label PROVE ReadsStay(d, l)
  <2>1. txn'[d].read = txn[d].read
    BY DEF Alone, Same
  <2>2. \A p : Ahead(d, l, p) => Ahead(d, l, p)'
    <3>1. Linked(l)' = Linked(l) /\ Linked(l) \subseteq DOMAIN blocks
      BY <1>1, <1>2, ChainFacts DEF Linked
    <3>2. \A q \in Linked(l) : Passes(blocks'[q], txn[d].read) => Passes(blocks[q], txn[d].read)
      BY <3>1 DEF Passes
    <3> QED BY <1>2, <2>1, <3>1, <3>2, AheadStays
  <2> QED BY <2>1, <2>2, SameLabelsStay
<1>10. LockedIn(c)' /\ (Holds(c) \/ vertex_futex = 0)
  BY DEF LockedIn, Writer, Open, Holds
<1>11. \A k \in AnyLabel : HeadOf(k)' \notin freed'
  BY <1>1
<1> QED BY <1>3, <1>8, <1>9, <1>10, <1>11, HolderKeeps

\* A new block goes on top of what the transaction has there.
LEMMA NewBlockKeeps ==
  ASSUME Basic, StoreInv, CommitsInv, KeepInv, GrantInv', NEW c \in Client, pc[c] = "open",
         txn[c].locked \/ vertex_futex = 0, txn[c].id \in 1 .. transaction_id,
         NEW l \in Label, NEW p, NEW e, NEW m, NEW ws, NEW chained,
         Edited(c, l, p, e, m, ws, chained), p \notin DOMAIN blocks
  PROVE  KeepInv'
PROOF
<1> DEFINE h == TopOf(c, l)
<1>1. /\ Older(blocks) /\ Forest(blocks, freed) /\ freed \subseteq DOMAIN blocks /\ DOMAIN blocks = 1 .. Len(blocks)
      /\ Len(blocks) \in Nat /\ ForestInv /\ \A k \in AnyLabel : HeadOf(k) \notin freed /\ HeadOf(k) \in 0 .. Len(blocks)
  BY KeepAt DEF KeepInv
<1>2. /\ UNCHANGED <<edge_label_ptr, labels, freed, freedLabels, pc>> /\ txn'[c].locked
      /\ txn'[c].ptrs = [txn[c].ptrs EXCEPT ![l] = p]
      /\ txn'[c].own = txn[c].own \cup {p} /\ txn'[c].epoch = txn[c].epoch /\ p \in Pointer
  BY DEF Edited
<1>3. /\ Alone(c) /\ Older(blocks') /\ \A k : HeadOf(k)' = HeadOf(k)
      /\ p = Len(blocks) + 1 /\ Len(blocks') = Len(blocks) + 1 /\ blocks'[p].prev = h /\ blocks'[p].creation = -txn[c].id
      /\ \A o \in DOMAIN blocks : blocks'[o].creation = blocks[o].creation /\ blocks'[o].prev = blocks[o].prev
  BY EditFacts DEF OlderInv
<1>4. OwnedIn(c) /\ Writer(c)
  <2>1. Writer(c)
    BY DEF Writer, Open
  <2> QED BY <2>1, MayWrite
<1>5. \A k : TopOf(c, k) \in 0 .. Len(blocks)
  BY <1>4, TopIn
<1>6. \A k : TopOf(c, k)' = IF k = l THEN p ELSE TopOf(c, k)
  <2>1. txn[c].ptrs \in [Label -> Nat \cup {NoCache}] /\ p # NoCache
    <3>1. Types /\ p \in Nat
      BY <1>1, <1>3 DEF Basic
    <3> QED BY <3>1, TxnFields
  <2>2. txn'[c].ptrs[l] = p /\ \A k \in Label : k # l => txn'[c].ptrs[k] = txn[c].ptrs[k]
    BY <1>2, <2>1
  <2> QED BY <1>3, <2>1, <2>2 DEF TopOf
<1>7. Root(blocks, freed, h) /\ h \in 0 .. Len(blocks)
  BY <1>4, <1>5 DEF OwnedIn, RootsOf, TopsNow, AnyLabel
<1> HIDE DEF h
<1>8. /\ Forest(blocks', freed) /\ Root(blocks', freed, p)
      /\ \A r : Root(blocks, freed, r) /\ r # h => Root(blocks', freed, r)
      /\ \A r \in 0 .. Len(blocks) : Chain(blocks', r) = Chain(blocks, r)
      /\ Chain(blocks', p) = {p} \cup Chain(blocks, h)
  BY <1>1, <1>3, <1>7, AddForest
<1>9. DOMAIN blocks' = DOMAIN blocks \cup {p} /\ p \notin 0 .. Len(blocks) /\ p # NULLPOINTER /\ p \in Nat
  BY <1>1, <1>3 DEF Older
<1>10. ForestInv'
  BY <1>1, <1>2, <1>8 DEF ForestInv
<1>11. RootsOf(blocks, freed, TopsNow(c))'
  <2>1. ASSUME NEW k \in AnyLabel PROVE Root(blocks', freed, TopOf(c, k)')
    <3>1. CASE k = l
      BY <1>6, <1>8, <3>1
    <3>2. CASE k # l
      <4>1. Root(blocks, freed, TopOf(c, k)) /\ (TopOf(c, k) = h => TopOf(c, k) = NULLPOINTER)
        BY <1>4, <3>2 DEF OwnedIn, RootsOf, TopsNow, AnyLabel, h
      <4>2. Root(blocks', freed, TopOf(c, k))
        BY <1>8, <4>1 DEF Root
      <4> QED BY <1>6, <3>2, <4>2
    <3> QED BY <3>1, <3>2
  <2>2. ASSUME NEW k \in AnyLabel, NEW j \in AnyLabel, TopOf(c, k)' = TopOf(c, j)' PROVE k = j \/ TopOf(c, k)' = NULLPOINTER
    <3>1. CASE k = l \/ j = l
      BY <1>5, <1>6, <1>9, <2>2, <3>1
    <3>2. CASE k # l /\ j # l
      <4>1. TopOf(c, k) = TopOf(c, j)
        BY <1>6, <2>2, <3>2
      <4>2. k = j \/ TopOf(c, k) = NULLPOINTER
        BY <1>4, <4>1 DEF OwnedIn, RootsOf, TopsNow
      <4> QED BY <1>6, <3>2, <4>2
    <3> QED BY <3>1, <3>2
  <2>3. /\ DOMAIN TopsNow(c)' = AnyLabel /\ freed' = freed
        /\ \A k \in AnyLabel : TopsNow(c)'[k] = TopOf(c, k)'
    BY <1>2 DEF TopsNow, AnyLabel
  <2> QED BY <2>1, <2>2, <2>3 DEF RootsOf
<1>12. OwnedIn(c)'
  <2>1. \A k \in AnyLabel : HeadOf(k)' # NULLPOINTER => HeadOf(k)' \in Chain(blocks', TopOf(c, k)')
    <3> SUFFICES ASSUME NEW k \in AnyLabel, HeadOf(k) # NULLPOINTER PROVE HeadOf(k) \in Chain(blocks', TopOf(c, k)')
      BY <1>3
    <3>1. HeadOf(k) \in Chain(blocks, TopOf(c, k))
      BY <1>4 DEF OwnedIn
    <3>2. CASE k = l
      BY <1>6, <1>8, <3>1, <3>2 DEF h
    <3>3. CASE k # l
      BY <1>5, <1>6, <1>8, <3>1, <3>3
    <3> QED BY <3>2, <3>3
  <2>2. ASSUME NEW q \in DOMAIN blocks' \ freed'
        PROVE  /\ blocks'[q].prev \in txn'[c].own => q \in txn'[c].own
               /\ \A k \in AnyLabel : HeadOf(k)' # NULLPOINTER /\ blocks'[q].prev = HeadOf(k)' => q \in txn'[c].own
    <3>1. CASE q = p
      BY <1>2, <3>1
    <3>2. CASE q # p
      <4>1. q \in DOMAIN blocks \ freed /\ blocks'[q].prev = blocks[q].prev
        BY <1>2, <1>3, <1>9, <3>2
      <4>2. blocks[q].prev # p
        <5>1. blocks[q].prev \in 0 .. q - 1 /\ q \in 1 .. Len(blocks)
          BY <1>1, <4>1 DEF Older
        <5> QED BY <1>1, <1>3, <5>1
      <4> QED BY <1>2, <1>3, <1>4, <4>1, <4>2 DEF OwnedIn
    <3> QED BY <3>1, <3>2
  <2>3. ASSUME NEW q \in txn'[c].own PROVE blocks'[q].creation < 0
    <3>1. CASE q = p
      <4>1. transaction_id \in Nat
        BY DEF Basic, Types
      <4>2. -txn[c].id < 0
        BY <4>1
      <4> QED BY <1>3, <3>1, <4>2
    <3>2. CASE q # p
      <4>1. q \in txn[c].own /\ txn[c].own \subseteq DOMAIN blocks
        BY <1>2, <1>4, <3>2 DEF Basic, RefsInv, RefsOf
      <4>2. blocks[q].creation < 0
        BY <1>4, <4>1 DEF OwnedIn
      <4> QED BY <1>3, <4>1, <4>2
    <3> QED BY <3>1, <3>2
  <2>4. \A q \in txn'[c].own : blocks'[q].creation < 0 \/ (pc'[c] = "install" /\ blocks'[q].creation = txn'[c].epoch)
    BY <2>3
  <2> QED BY <1>11, <2>1, <2>2, <2>4 DEF OwnedIn
<1>13. ASSUME NEW d \in Client \ {c}, NEW k \in Label PROVE ReadsStay(d, k)
  <2>1. txn'[d].read = txn[d].read
    BY <1>3 DEF Alone, Same
  <2>2. Passes(blocks'[p], txn[d].read)
    <3>1. transaction_id \in Nat
      BY DEF Basic, Types
    <3>2. ~(0 <= -txn[c].id)
      BY <3>1
    <3> QED BY <1>3, <3>2 DEF Passes
  <2>3. \A x : Unpassed(blocks, freed, x, txn[d].read) => Unpassed(blocks', freed, x, txn[d].read)
    BY <1>1, <1>3, <1>7, <2>2, AddSpares
  <2>4. Linked(k)' = Linked(k)
    BY <1>1, <1>3, <1>8 DEF Linked, AnyLabel
  <2>5. \A x : Ahead(d, k, x) => Ahead(d, k, x)'
    <3>1. Linked(k) \subseteq DOMAIN blocks
      BY <1>1, ChainFacts DEF Linked, AnyLabel
    <3>2. \A q \in Linked(k) : Passes(blocks'[q], txn[d].read) => Passes(blocks[q], txn[d].read)
      BY <1>3, <3>1 DEF Passes
    <3> QED BY <1>2, <2>1, <2>3, <2>4, <3>2, AheadStays
  <2> QED BY <1>2, <2>1, <2>5, SameLabelsStay
<1>14. LockedIn(c)' /\ (Holds(c) \/ vertex_futex = 0) /\ pc'[c] \notin InScan /\ OwnedOf(c)'
  BY <1>2, <1>4, <1>12 DEF LockedIn, Writer, Open, Holds, OwnedOf, InScan
<1>15. \A k \in AnyLabel : HeadOf(k)' \notin freed'
  BY <1>1, <1>2, <1>3
<1> QED BY <1>3, <1>10, <1>13, <1>14, <1>15, HolderKeeps

LEMMA WriteReads ==
  ASSUME Basic, StoreInv, CommitsInv, KeepInv, GrantInv', NEW c \in Client, NEW l \in Label, NEW d \in Dst,
         PutEdge(c, l, d) \/ DelEdge(c, l, d)
  PROVE  KeepInv'
PROOF
<1>1. /\ pc[c] = "open" /\ (txn[c].locked \/ vertex_futex = 0) /\ txn[c].id \in 1 .. transaction_id
  BY WriterId DEF PutEdge, DelEdge
<1>2. Writer(c) /\ pc[c] \notin InScan
  BY <1>1 DEF Writer, Open, InScan
<1>3. (\E p, e, m, ws, chained : Edited(c, l, p, e, m, ws, chained)) \/ Looked(c, l)
  BY PutEdgeEdits, DelEdgeEdits
<1>4. Types /\ txn[c].ptrs \in [Label -> Nat \cup {NoCache}]
  <2>1. Types
    BY DEF Basic
  <2> QED BY <2>1, TxnFields
<1>5. ASSUME NEW p, NEW e, NEW m, NEW ws, NEW chained, Edited(c, l, p, e, m, ws, chained), p \in DOMAIN blocks
      PROVE  KeepInv'
  <2>1. /\ UNCHANGED <<edge_label_ptr, labels, freed, freedLabels, pc>> /\ txn'[c].locked
        /\ txn'[c].ptrs = [txn[c].ptrs EXCEPT ![l] = p] /\ p \in Pointer
        /\ txn'[c].own = txn[c].own /\ txn'[c].epoch = txn[c].epoch
    BY <1>5 DEF Edited
  <2>2. /\ Alone(c) /\ Older(blocks') /\ Len(blocks') = Len(blocks) /\ p = TopOf(c, l)
        /\ \A k : HeadOf(k)' = HeadOf(k)
        /\ \A o \in DOMAIN blocks : blocks'[o].prev = blocks[o].prev /\ blocks'[o].creation = blocks[o].creation
    BY <1>1, <1>5, EditFacts DEF OlderInv
  <2>3. p # NoCache
    BY <2>1 DEF Pointer
  <2>4. \A k : TopOf(c, k)' = TopOf(c, k)
    <3>1. txn'[c].ptrs[l] = p /\ \A k \in Label : k # l => txn'[c].ptrs[k] = txn[c].ptrs[k]
      BY <1>4, <2>1
    <3>2. TopOf(c, l)' = TopOf(c, l)
      BY <2>2, <2>3, <3>1 DEF TopOf
    <3>3. ASSUME NEW k, k # l PROVE TopOf(c, k)' = TopOf(c, k)
      BY <2>2, <3>1, <3>3 DEF TopOf
    <3> QED BY <3>2, <3>3
  <2> QED BY <1>1, <1>2, <2>1, <2>2, <2>4, ShapeKeeps
<1>6. CASE Looked(c, l)
  <2>1. /\ UNCHANGED <<edge_label_ptr, labels, blocks, freed, freedLabels, pc, scan, stage, compaction>> /\ txn'[c].locked
        /\ txn'[c].own = txn[c].own /\ txn'[c].epoch = txn[c].epoch /\ \A b \in Client \ {c} : txn'[b] = txn[b]
        /\ \A k \in Label \ {l} : txn'[c].ptrs[k] = txn[c].ptrs[k]
        /\ \/ txn'[c].ptrs[l] = txn[c].ptrs[l]
           \/ txn'[c].ptrs[l] = NULLPOINTER /\ HeadOf(l) = NULLPOINTER /\ txn[c].ptrs[l] \in {NoCache, NULLPOINTER}
    BY <1>6 DEF Looked
  <2>2. Alone(c) /\ Older(blocks)
    BY <2>1, KeepAt DEF Alone, Same
  <2>3. \A k : HeadOf(k)' = HeadOf(k)
    BY <2>1, LabelsAlike
  <2>4. \A k : TopOf(c, k)' = TopOf(c, k)
    <3>1. TopOf(c, l)' = TopOf(c, l)
      BY <2>1, <2>3 DEF TopOf
    <3>2. ASSUME NEW k, k # l PROVE TopOf(c, k)' = TopOf(c, k)
      BY <2>1, <2>3, <3>2 DEF TopOf
    <3> QED BY <3>1, <3>2
  <2>5. Older(blocks') /\ Len(blocks') = Len(blocks)
        /\ \A o \in DOMAIN blocks : blocks'[o].prev = blocks[o].prev /\ blocks'[o].creation = blocks[o].creation
    BY <2>1, <2>2
  <2> QED BY <1>1, <1>2, <2>1, <2>2, <2>4, <2>5, ShapeKeeps
<1>7. CASE \E p, e, m, ws, chained : Edited(c, l, p, e, m, ws, chained)
  <2>1. PICK p, e, m, ws, chained : Edited(c, l, p, e, m, ws, chained)
    BY <1>7
  <2> QED BY <1>1, <1>5, <2>1, NewBlockKeeps
<1> QED BY <1>3, <1>6, <1>7

LEMMA InstallTailReads ==
  ASSUME Basic, StoreInv, CommitsInv, KeepInv, GrantInv', NEW c \in Client, NEW p \in Pointer, InstallTail(c, p)
  PROVE  KeepInv'
PROOF
<1>1. /\ Installing(c) /\ Installs(c) /\ UNCHANGED <<labels, edge_label_ptr>> /\ p \in DOMAIN blocks
      /\ txn'[c].ptrs = txn[c].ptrs /\ blocks' \in Seq(BlockRec) /\ Len(blocks') = Len(blocks) /\ DOMAIN blocks' = DOMAIN blocks
      /\ blocks'[p].creation = blocks[p].creation /\ blocks'[p].prev = blocks[p].prev
      /\ \A o \in DOMAIN blocks : o # p => blocks'[o] = blocks[o]
  BY InstallTailDoes
<1>2. UNCHANGED <<freed, freedLabels>>
  BY DEF InstallTail, Committing
<1>3. /\ UNCHANGED <<stage, scan, pc, compaction>> /\ \A d \in Client \ {c} : txn'[d] = txn[d]
      /\ txn'[c].epoch = txn[c].epoch /\ txn'[c].locked = txn[c].locked /\ txn'[c].own = txn[c].own
  BY <1>1 DEF Installs
<1>4. Alone(c) /\ Writer(c) /\ txn[c].locked /\ pc[c] \notin InScan
  BY <1>1, <1>3 DEF Alone, Same, Installing, Writer, InScan
<1>5. \A o \in DOMAIN blocks : blocks'[o].prev = blocks[o].prev /\ blocks'[o].creation = blocks[o].creation
  BY <1>1
<1>6. Older(blocks')
  BY <1>1, <1>5, KeepAt DEF Older
<1>7. \A k : TopOf(c, k)' = TopOf(c, k)
  <2>1. \A k : HeadOf(k)' = HeadOf(k)
    BY <1>1, LabelsAlike
  <2> QED BY <1>1, <2>1 DEF TopOf
<1> QED BY <1>1, <1>2, <1>3, <1>4, <1>5, <1>6, <1>7, ShapeKeeps

-----------------------------------------------------------------------------
(* Blocks and times are installed under the readers *)

\* Of the label blocks at most the one on top changes what it points to.
TopChanges ==
  \A q \in DOMAIN labels : labels'[q].entries = labels[q].entries \/ q = edge_label_ptr'

LEMMA PointedOnTop ==
  ASSUME TopChanges, NEW q \in DOMAIN labels, NEW k
  PROVE  Pointed(q, k)' = Pointed(q, k) \/ Pointed(q, k)' = HeadOf(k)'
PROOF
<1>1. CASE q = edge_label_ptr'
  BY <1>1 DEF HeadOf, Pointed
<1>2. CASE labels'[q].entries = labels[q].entries
  BY <1>2 DEF Pointed
<1> QED BY <1>1, <1>2 DEF TopChanges

LEMMA PointedStays ==
  ASSUME OlderInv, edge_label_ptr \in 0 .. Len(labels), TopChanges, NEW d, NEW l,
         \A p : Ahead(d, l, p) => Ahead(d, l, p)', Ahead(d, l, HeadOf(l))'
  PROVE  \A q : q # NULLPOINTER /\ AheadLabel(d, l, q) => Ahead(d, l, Pointed(q, l))'
PROOF
<1> SUFFICES ASSUME NEW q, q # NULLPOINTER, AheadLabel(d, l, q) PROVE Ahead(d, l, Pointed(q, l))'
  OBVIOUS
<1>1. q \in DOMAIN labels
  BY ChainFacts DEF AheadLabel, OlderInv
<1>2. Ahead(d, l, Pointed(q, l))
  BY DEF AheadLabel
<1>3. PICK p, h : p = Pointed(q, l) /\ h = HeadOf(l)'
  OBVIOUS
<1>4. Ahead(d, l, p)' /\ Ahead(d, l, h)'
  <2>1. Ahead(d, l, p)'
    BY <1>2, <1>3
  <2>2. Ahead(d, l, h)'
    BY <1>3 DEF Ahead, OvertakenAt, Linked
  <2> QED BY <2>1, <2>2
<1>5. Pointed(q, l)' \in {p, h}
  BY <1>1, <1>3, PointedOnTop
<1> QED BY <1>3, <1>4, <1>5 DEF Ahead, OvertakenAt, Linked

\* How commit changes the label blocks.
LEMMA InstallLabelShape ==
  ASSUME Basic, NEW c \in Client, NEW l \in Label, InstallLabel(c, l), labels' \in Seq(LabelRec)
  PROVE  /\ TopChanges
         /\ \/ Len(labels') = Len(labels) /\ edge_label_ptr' = edge_label_ptr
            \/ /\ Len(labels') = Len(labels) + 1 /\ edge_label_ptr' = Len(labels) + 1
               /\ labels'[Len(labels) + 1].prev = edge_label_ptr
PROOF
<1>1. labels \in Seq(LabelRec) /\ Len(labels) \in Nat /\ DOMAIN labels = 1 .. Len(labels)
  BY DEF Basic, Types
<1>2. PICK t : /\ t = [txn[c] EXCEPT !.ptrs[l] = NoCache]
               /\ UpdateLabel(c, t, l, txn[c].ptrs[l]) \/ UNCHANGED <<labels, edge_label_ptr>>
  BY DEF InstallLabel
<1>3. CASE UNCHANGED <<labels, edge_label_ptr>>
  BY <1>3 DEF TopChanges
<1>4. CASE UpdateLabel(c, t, l, txn[c].ptrs[l])
  <2> DEFINE lb == edge_label_ptr
             n  == IF lb = NULLPOINTER THEN 0 ELSE Len(labels[lb].entries)
             entry == [label |-> l, ptr |-> txn[c].ptrs[l]]
             x == [creation |-> -t.id, prev |-> lb, order |-> LabelOrder(n + 1),
                   entries |-> Append(IF lb = NULLPOINTER THEN <<>> ELSE labels[lb].entries, entry)]
  <2>1. \/ /\ \/ labels' = [labels EXCEPT ![lb].entries[CHOOSE i \in LabelAt(lb, l) : TRUE].ptr = txn[c].ptrs[l]]
              \/ labels' = [labels EXCEPT ![lb].entries = Append(@, entry)]
           /\ edge_label_ptr' = lb
        \/ labels' = Append(labels, x) /\ edge_label_ptr' = Len(labels) + 1
    BY <1>4 DEF UpdateLabel
  <2>2. CASE /\ \/ labels' = [labels EXCEPT ![lb].entries[CHOOSE i \in LabelAt(lb, l) : TRUE].ptr = txn[c].ptrs[l]]
                \/ labels' = [labels EXCEPT ![lb].entries = Append(@, entry)]
             /\ edge_label_ptr' = lb
    <3>1. PICK y : labels' = [labels EXCEPT ![lb] = y]
      BY <2>2
    <3>2. DOMAIN labels' = DOMAIN labels /\ \A q \in DOMAIN labels : q # lb => labels'[q] = labels[q]
      BY <3>1
    <3>3. Len(labels') = Len(labels)
      BY <1>1, <3>2
    <3> QED BY <2>2, <3>2, <3>3 DEF TopChanges
  <2>3. CASE labels' = Append(labels, x) /\ edge_label_ptr' = Len(labels) + 1
    <3>1. x.prev = lb
      OBVIOUS
    <3> HIDE DEF x
    <3>2. /\ Len(labels') = Len(labels) + 1 /\ labels'[Len(labels) + 1] = x
          /\ \A q \in DOMAIN labels : labels'[q] = labels[q]
      BY <1>1, <2>3
    <3> QED BY <2>3, <3>1, <3>2 DEF TopChanges
  <2> QED BY <2>1, <2>2, <2>3
<1> QED BY <1>2, <1>3, <1>4

LEMMA InstallLabelReads ==
  ASSUME Basic, StoreInv, CommitsInv, KeepInv, GrantInv', NEW c \in Client, NEW l \in Label, InstallLabel(c, l)
  PROVE  KeepInv'
PROOF
<1>1. /\ Installing(c) /\ Installs(c) /\ blocks' = blocks
      /\ \A k : HeadOf(k)' = IF k = l THEN TopOf(c, l) ELSE HeadOf(k)
      /\ txn'[c].ptrs = [txn[c].ptrs EXCEPT ![l] = NoCache]
      /\ labels' \in Seq(LabelRec) /\ OlderInv'
      /\ \A q \in DOMAIN labels : labels'[q].prev = labels[q].prev /\ labels'[q].creation = labels[q].creation
      /\ \A q \in DOMAIN labels' : q \in DOMAIN labels \/ labels'[q].creation = -txn[c].id
  BY InstallLabelDoes
<1>2. /\ UNCHANGED <<freed, freedLabels>> /\ TopChanges
      /\ \/ Len(labels') = Len(labels) /\ edge_label_ptr' = edge_label_ptr
         \/ /\ Len(labels') = Len(labels) + 1 /\ edge_label_ptr' = Len(labels) + 1
            /\ labels'[Len(labels) + 1].prev = edge_label_ptr
  BY <1>1, InstallLabelShape DEF InstallLabel, Committing
<1>3. /\ UNCHANGED <<stage, scan, pc, compaction>> /\ \A d \in Client \ {c} : txn'[d] = txn[d]
      /\ txn'[c].epoch = txn[c].epoch /\ txn'[c].locked = txn[c].locked /\ txn'[c].own = txn[c].own
  BY <1>1 DEF Installs
<1>4. /\ Alone(c) /\ Writer(c) /\ LockedIn(c) /\ LockedIn(c)' /\ Holds(c) /\ pc'[c] \notin InScan /\ pc[c] = "install"
  BY <1>1, <1>3 DEF Alone, Same, Installing, Writer, Open, InScan, LockedIn, Holds
<1>5. OwnedIn(c)
  BY <1>4 DEF KeepInv, OwnedInv, OwnedOf
<1>6. /\ Older(blocks) /\ Older(labels) /\ Older(labels') /\ Forest(blocks, freed) /\ Forest(labels, freedLabels)
      /\ Root(labels, freedLabels, edge_label_ptr) /\ freedLabels \subseteq DOMAIN labels
      /\ edge_label_ptr \in 0 .. Len(labels) /\ OlderInv
      /\ \A k \in AnyLabel : HeadOf(k) \notin freed /\ HeadOf(k) \in 0 .. Len(blocks)
      /\ freed \subseteq DOMAIN blocks
  BY <1>1, KeepAt DEF OlderInv
<1>7. \A k : TopOf(c, k) \in 0 .. Len(blocks)
  BY <1>4, TopIn
<1>8. \A k \in AnyLabel : Root(blocks, freed, TopOf(c, k))
  BY <1>5 DEF OwnedIn, RootsOf, TopsNow
<1>9. \A k : TopOf(c, k)' = TopOf(c, k)
  <2>1. txn[c].ptrs \in [Label -> Nat \cup {NoCache}]
    <3>1. Types
      BY DEF Basic
    <3> QED BY <3>1, TxnFields
  <2>2. txn'[c].ptrs[l] = NoCache /\ \A k \in Label : k # l => txn'[c].ptrs[k] = txn[c].ptrs[k]
    BY <1>1, <2>1
  <2>3. TopOf(c, l)' = TopOf(c, l)
    BY <1>1, <2>2 DEF TopOf
  <2>4. ASSUME NEW k, k # l PROVE TopOf(c, k)' = TopOf(c, k)
    BY <1>1, <2>2, <2>4 DEF TopOf
  <2> QED BY <2>3, <2>4
<1>10. OwnedIn(c)'
  <2>1. TopsNow(c)' = TopsNow(c)
    BY <1>9 DEF TopsNow
  <2>2. RootsOf(blocks, freed, TopsNow(c))'
    BY <1>1, <1>2, <1>5, <2>1 DEF OwnedIn
  <2>3. \A k \in AnyLabel : HeadOf(k)' # NULLPOINTER => HeadOf(k)' \in Chain(blocks', TopOf(c, k)')
    <3> SUFFICES ASSUME NEW k \in AnyLabel, HeadOf(k)' # NULLPOINTER PROVE HeadOf(k)' \in Chain(blocks, TopOf(c, k))
      BY <1>1, <1>9
    <3>1. CASE k = l
      BY <1>1, <1>6, <1>7, <3>1, ChainFacts
    <3>2. CASE k # l
      BY <1>1, <1>5, <3>2 DEF OwnedIn
    <3> QED BY <3>1, <3>2
  <2>4. ASSUME NEW p \in DOMAIN blocks' \ freed'
        PROVE  /\ blocks'[p].prev \in txn'[c].own => p \in txn'[c].own
               /\ \A k \in AnyLabel : HeadOf(k)' # NULLPOINTER /\ blocks'[p].prev = HeadOf(k)' => p \in txn'[c].own
    <3>1. p \in DOMAIN blocks \ freed /\ blocks'[p] = blocks[p]
      BY <1>1, <1>2
    <3>2. ASSUME NEW k \in AnyLabel, HeadOf(k)' # NULLPOINTER, blocks[p].prev = HeadOf(k)' PROVE p \in txn[c].own
      <4>1. CASE k = l
        <5>1. HeadOf(l)' = TopOf(c, l)
          BY <1>1
        <5>2. Root(blocks, freed, TopOf(c, l)) /\ TopOf(c, l) # NULLPOINTER
          BY <1>8, <3>2, <4>1, <5>1
        <5> QED BY <3>1, <3>2, <4>1, <5>1, <5>2 DEF Root
      <4>2. CASE k # l
        BY <1>1, <1>5, <3>1, <3>2, <4>2 DEF OwnedIn
      <4> QED BY <4>1, <4>2
    <3> QED BY <1>3, <1>5, <3>1, <3>2 DEF OwnedIn
  <2>5. \A q \in txn'[c].own : blocks'[q].creation < 0 \/ (pc'[c] = "install" /\ blocks'[q].creation = txn'[c].epoch)
    BY <1>1, <1>3, <1>5 DEF OwnedIn
  <2> QED BY <2>2, <2>3, <2>4, <2>5 DEF OwnedIn
<1>11. \A k \in AnyLabel : HeadOf(k)' \notin freed'
  <2>1. 0 \notin freed
    BY <1>6 DEF Older
  <2>2. TopOf(c, l) \notin freed
    BY <1>8, <2>1 DEF Root, AnyLabel
  <2> QED BY <1>1, <1>2, <1>6, <2>2
<1>12. /\ Forest(labels', freedLabels) /\ Root(labels', freedLabels, edge_label_ptr')
       /\ \A q \in Chain(labels, edge_label_ptr) : q \in Chain(labels', edge_label_ptr')
       /\ \A x, read : Unpassed(labels, freedLabels, x, read) => Unpassed(labels', freedLabels, x, read)
  <2>1. CASE Len(labels') = Len(labels) /\ edge_label_ptr' = edge_label_ptr
    BY <1>1, <1>6, <2>1, Reshaped
  <2>2. CASE /\ Len(labels') = Len(labels) + 1 /\ edge_label_ptr' = Len(labels) + 1
             /\ labels'[Len(labels) + 1].prev = edge_label_ptr
    <3>1. /\ Forest(labels', freedLabels) /\ Root(labels', freedLabels, Len(labels) + 1)
          /\ Chain(labels', Len(labels) + 1) = {Len(labels) + 1} \cup Chain(labels, edge_label_ptr)
      <4>1. PICK labs, m : labs = labels' /\ m = Len(labels) + 1
        OBVIOUS
      <4>2. /\ Older(labs) /\ Len(labs) = Len(labels) + 1 /\ labs[Len(labels) + 1].prev = edge_label_ptr
            /\ \A q \in DOMAIN labels : labs[q].prev = labels[q].prev
        BY <1>1, <1>6, <2>2, <4>1
      <4>3. /\ Forest(labs, freedLabels) /\ Root(labs, freedLabels, Len(labels) + 1)
            /\ Chain(labs, Len(labels) + 1) = {Len(labels) + 1} \cup Chain(labels, edge_label_ptr)
        BY <1>6, <4>2, AddForest
      <4> QED BY <4>1, <4>3
    <3>2. ASSUME NEW x, NEW read, Unpassed(labels, freedLabels, x, read) PROVE Unpassed(labels', freedLabels, x, read)
      <4>1. labels'[Len(labels) + 1].creation = -txn[c].id /\ txn[c].id \in Nat /\ txn[c].id # 0
        <5>1. Len(labels) \in Nat /\ DOMAIN labels = 1 .. Len(labels) /\ Len(labels) + 1 \in DOMAIN labels'
          BY <1>6, <2>2 DEF Older
        <5>2. labels'[Len(labels) + 1].creation = -txn[c].id
          BY <1>1, <5>1
        <5>3. txn[c].id \in 1 .. transaction_id
          <6>1. PlaceOf(c) /\ visible \in Nat
            BY DEF Basic, PlaceInv, Types, EpochInv
          <6>2. c \notin ReadOnly /\ txn[c].read >= 0
            BY <1>4, <6>1 DEF PlaceOf
          <6> QED BY <6>1, <6>2 DEF PlaceOf
        <5> QED BY <5>2, <5>3
      <4>2. Passes(labels'[Len(labels) + 1], read)
        BY <4>1 DEF Passes
      <4> QED BY <1>1, <1>6, <2>2, <3>2, <4>2, AddSpares
    <3> QED BY <2>2, <3>1, <3>2
  <2> QED BY <1>2, <2>1, <2>2
<1>13. ForestInv'
  BY <1>1, <1>2, <1>6, <1>12 DEF ForestInv
<1>14. ASSUME NEW d \in Client \ {c}, NEW k \in Label, pc[d] \in InScan PROVE ReadsStay(d, k)
  <2>1. txn'[d].read = txn[d].read /\ k \in AnyLabel
    BY <1>3 DEF AnyLabel
  <2>2. Linked(k) \subseteq Linked(k)'
    <3>1. CASE k = l
      <4>1. Linked(k)' = Chain(blocks, TopOf(c, l))
        BY <1>1, <3>1 DEF Linked
      <4>2. CASE HeadOf(l) = NULLPOINTER
        BY <1>6, <3>1, <4>2, ChainRec DEF Linked
      <4>3. CASE HeadOf(l) # NULLPOINTER
        <5>1. HeadOf(l) \in Chain(blocks, TopOf(c, l))
          BY <1>5, <2>1, <3>1, <4>3 DEF OwnedIn
        <5> QED BY <1>6, <1>7, <3>1, <4>1, <5>1, ChainWithin DEF Linked
      <4> QED BY <4>2, <4>3
    <3>2. CASE k # l
      BY <1>1, <3>2 DEF Linked
    <3> QED BY <3>1, <3>2
  <2>3. \A p : Ahead(d, k, p) => Ahead(d, k, p)'
    BY <1>1, <1>2, <2>1, <2>2, AheadStays
  <2>4. Ahead(d, k, HeadOf(k))'
    <3>1. CASE k = l
      <4>1. HeadOf(k)' = TopOf(c, l)
        BY <1>1, <3>1
      <4>2. Root(blocks, freed, HeadOf(k))' /\ HeadOf(k)' \in 0 .. Len(blocks')
        BY <1>1, <1>2, <1>7, <1>8, <2>1, <3>1, <4>1
      <4>3. Older(blocks)' /\ Forest(blocks, freed)'
        BY <1>1, <1>2, <1>6
      <4>4. PICK h : h = HeadOf(k)'
        OBVIOUS
      <4>5. Unpassed(blocks', freed', h, txn'[d].read)
        BY <4>2, <4>3, <4>4, RootUnpassed
      <4>6. h = NULLPOINTER \/ h \in Chain(blocks', h)
        BY <4>2, <4>3, <4>4, ChainFacts
      <4> QED BY <4>4, <4>5, <4>6 DEF Ahead, Linked
    <3>2. CASE k # l
      <4>1. HeadOf(k)' = HeadOf(k)
        BY <1>1, <3>2
      <4>2. PICK h : h = HeadOf(k)
        OBVIOUS
      <4>3. Ahead(d, k, h)
        BY <1>14, <2>1, <4>2, HeadAhead DEF Open
      <4>4. Ahead(d, k, h)'
        BY <2>3, <4>3
      <4> QED BY <4>1, <4>2, <4>4 DEF Ahead, OvertakenAt, Linked
    <3> QED BY <3>1, <3>2
  <2>5. \A q : q # NULLPOINTER /\ AheadLabel(d, k, q) => Ahead(d, k, Pointed(q, k))'
    BY <1>2, <1>6, <2>3, <2>4, PointedStays
  <2>6. \A q : q \in Chain(labels, edge_label_ptr) /\ Unpassed(labels, freedLabels, q, txn[d].read) =>
          q \in Chain(labels', edge_label_ptr') /\ Unpassed(labels', freedLabels', q, txn[d].read)
    BY <1>2, <1>12
  <2> QED BY <2>1, <2>3, <2>5, <2>6, StaysBy
<1>15. OwnedOf(c)'
  BY <1>10 DEF OwnedOf
<1> QED BY <1>4, <1>11, <1>13, <1>14, <1>15, HolderKeeps

LEMMA StampReads ==
  ASSUME Basic, StoreInv, CommitsInv, KeepInv, GrantInv', NEW c \in Client, Stamp(c)
  PROVE  KeepInv'
PROOF
<1> DEFINE time == txn[c].epoch
<1>1. /\ Installing(c) /\ Installs(c) /\ SameLabels(labels, labels') /\ edge_label_ptr' = edge_label_ptr
      /\ txn'[c].ptrs = txn[c].ptrs /\ \E w : Restamped(blocks, blocks', w, time)
  BY StampDoes
<1>2. /\ UNCHANGED <<stage, scan, pc, compaction>> /\ \A d \in Client \ {c} : txn'[d] = txn[d]
      /\ txn'[c].epoch = txn[c].epoch /\ txn'[c].locked = txn[c].locked /\ txn'[c].own = txn[c].own
      /\ UNCHANGED <<freed, freedLabels>>
  BY <1>1 DEF Installs, Stamp, Committing
<1>3. /\ Alone(c) /\ Writer(c) /\ LockedIn(c) /\ LockedIn(c)' /\ Holds(c) /\ pc'[c] \notin InScan /\ pc[c] = "install"
  BY <1>1, <1>2 DEF Alone, Same, Installing, Writer, Open, InScan, LockedIn, Holds
<1>4. OwnedIn(c)
  BY <1>3 DEF KeepInv, OwnedInv, OwnedOf
<1>5. /\ Types /\ OlderInv /\ LabelsInv /\ Older(blocks) /\ Older(labels) /\ Forest(blocks, freed) /\ Forest(labels, freedLabels)
      /\ Root(labels, freedLabels, edge_label_ptr) /\ edge_label_ptr \in 0 .. Len(labels)
      /\ \A k \in AnyLabel : HeadOf(k) \notin freed
      /\ \A k : HeadOf(k) \in 0 .. Len(blocks)
  BY KeepAt
<1>6. /\ Len(blocks') = Len(blocks) /\ DOMAIN blocks' = DOMAIN blocks /\ blocks' \in Seq(BlockRec)
      /\ \A o \in DOMAIN blocks : /\ blocks'[o].prev = blocks[o].prev
                                  /\ blocks'[o].creation \in {blocks[o].creation, time}
  BY <1>1 DEF Restamped
<1>7. Older(blocks')
  BY <1>5, <1>6 DEF Older
<1>8. /\ (\A k : HeadOf(k)' = HeadOf(k)) /\ Older(labels')
      /\ Len(labels') = Len(labels) /\ DOMAIN labels' = DOMAIN labels
      /\ \A q \in DOMAIN labels : labels'[q].prev = labels[q].prev /\ labels'[q].entries = labels[q].entries
  <2>1. (\A k : HeadOf(k)' = HeadOf(k)) /\ Older(labels)'
    BY <1>1, <1>5, <1>6, SamePointed
  <2> QED BY <1>1, <2>1 DEF SameLabels
<1>9. \A q \in DOMAIN labels : labels'[q].creation \in {labels[q].creation, time}
  <2>1. PICK w : labels' = IF w.field = "label" THEN [labels EXCEPT ![w.p].creation = time] ELSE labels
    BY DEF Stamp
  <2> QED BY <2>1
<1>10. ASSUME NEW d \in Client, pc[d] \in InScan
       PROVE  \A b : b.creation = time => Passes(b, txn[d].read)
  <2>1. GrantOf(c) /\ grant[c] \in Int /\ PlaceOf(d) /\ visible \in Nat
    BY <1>5 DEF KeepInv, GrantInv, Basic, PlaceInv, Types, EpochInv
  <2>2. time = grant[c] /\ visible < time /\ time \in Int
    BY <1>3, <2>1 DEF GrantOf
  <2>3. txn[d].read \in -1 .. visible
    BY <2>1 DEF PlaceOf
  <2>4. ~(time < txn[d].read)
    BY <2>1, <2>2, <2>3
  <2> QED BY <2>4 DEF Passes
<1>11. /\ \A r \in 0 .. Len(blocks) : Chain(blocks', r) = Chain(blocks, r)
       /\ Forest(blocks, freed) => Forest(blocks', freed)
       /\ \A h : Root(blocks, freed, h) => Root(blocks', freed, h)
       /\ \A x, read : /\ Unpassed(blocks, freed, x, read)
                       /\ \A q \in DOMAIN blocks : blocks'[q].creation = blocks[q].creation \/ Passes(blocks'[q], read)
                       => Unpassed(blocks', freed, x, read)
  BY <1>5, <1>6, <1>7, Reshaped
<1>12. /\ \A r \in 0 .. Len(labels) : Chain(labels', r) = Chain(labels, r)
       /\ Forest(labels, freedLabels) => Forest(labels', freedLabels)
       /\ \A h : Root(labels, freedLabels, h) => Root(labels', freedLabels, h)
       /\ \A x, read : /\ Unpassed(labels, freedLabels, x, read)
                       /\ \A q \in DOMAIN labels : labels'[q].creation = labels[q].creation \/ Passes(labels'[q], read)
                       => Unpassed(labels', freedLabels, x, read)
  BY <1>5, <1>8, Reshaped
<1> HIDE DEF time
<1>13. ForestInv'
  BY <1>1, <1>2, <1>5, <1>11, <1>12 DEF ForestInv
<1>14. OwnedIn(c)'
  <2>1. \A k : TopOf(c, k)' = TopOf(c, k)
    BY <1>1, <1>8 DEF TopOf
  <2>2. TopsNow(c)' = TopsNow(c)
    BY <2>1 DEF TopsNow
  <2>3. RootsOf(blocks, freed, TopsNow(c))'
    BY <1>2, <1>4, <1>11, <2>2 DEF OwnedIn, RootsOf
  <2>4. \A k \in AnyLabel : HeadOf(k)' # NULLPOINTER => HeadOf(k)' \in Chain(blocks', TopOf(c, k)')
    <3>1. \A k : TopOf(c, k) \in 0 .. Len(blocks)
      BY <1>3, TopIn
    <3> QED BY <1>4, <1>8, <1>11, <2>1, <3>1 DEF OwnedIn
  <2>5. \A p \in DOMAIN blocks' \ freed' :
          /\ blocks'[p].prev \in txn'[c].own => p \in txn'[c].own
          /\ \A k \in AnyLabel : HeadOf(k)' # NULLPOINTER /\ blocks'[p].prev = HeadOf(k)' => p \in txn'[c].own
    BY <1>2, <1>4, <1>6, <1>8 DEF OwnedIn
  <2>6. \A q \in txn'[c].own : blocks'[q].creation < 0 \/ (pc'[c] = "install" /\ blocks'[q].creation = txn'[c].epoch)
    <3>1. txn[c].own \subseteq DOMAIN blocks
      BY <1>3 DEF Basic, RefsInv, RefsOf
    <3> QED BY <1>2, <1>3, <1>4, <1>6, <3>1 DEF OwnedIn, time
  <2> QED BY <2>3, <2>4, <2>5, <2>6 DEF OwnedIn
<1>15. \A q \in DOMAIN blocks : blocks[q].creation >= 0 => blocks'[q].creation = blocks[q].creation
  <2> SUFFICES ASSUME NEW q \in DOMAIN blocks, blocks[q].creation >= 0, blocks'[q].creation # blocks[q].creation PROVE FALSE
    OBVIOUS
  <2>1. PICK w : Restamped(blocks, blocks', w, time) /\ w \in Members(txn[c].stamps)
    BY StampDoes DEF time
  <2>2. w.field = "block" /\ w.p = q
    BY <2>1 DEF Restamped
  <2>3. q \in txn[c].own
    BY <1>3, <2>1, <2>2 DEF Basic, RefsInv, RefsOf
  <2>4. blocks'[q].creation = time
    BY <1>6
  <2>5. blocks[q].creation < 0
    BY <1>4, <2>3, <2>4 DEF OwnedIn, time
  <2>6. blocks[q].creation \in Int
    BY <1>5, BlockFields
  <2> QED BY <2>5, <2>6
<1>16. ASSUME NEW d \in Client \ {c}, NEW k \in Label, pc[d] \in InScan PROVE ReadsStay(d, k)
  <2>1. txn'[d].read = txn[d].read
    BY <1>2
  <2>2. \A b : b.creation = time => Passes(b, txn[d].read)
    BY <1>10, <1>16
  <2>3. \A x : Unpassed(blocks, freed, x, txn[d].read) => Unpassed(blocks', freed, x, txn[d].read)
    BY <1>6, <1>11, <2>2
  <2>4. \A x : Unpassed(labels, freedLabels, x, txn[d].read) => Unpassed(labels', freedLabels, x, txn[d].read)
    BY <1>9, <1>12, <2>2
  <2>5. Linked(k)' = Linked(k)
    BY <1>5, <1>8, <1>11 DEF Linked
  <2>6. \A p : Ahead(d, k, p) => Ahead(d, k, p)'
    <3>1. \A q \in Linked(k) : Passes(blocks'[q], txn[d].read) => Passes(blocks[q], txn[d].read)
      <4>1. Linked(k) \subseteq DOMAIN blocks
        BY <1>5, ChainFacts DEF Linked
      <4> QED BY <1>15, <4>1 DEF Passes
    <3> QED BY <1>2, <2>1, <2>3, <2>5, <3>1, AheadStays
  <2>7. ASSUME NEW q, q # NULLPOINTER, AheadLabel(d, k, q) PROVE Ahead(d, k, Pointed(q, k))'
    <3>1. q \in DOMAIN labels
      BY <1>5, <2>7, ChainFacts DEF AheadLabel
    <3>2. PICK p : p = Pointed(q, k)
      OBVIOUS
    <3>5. labels'[q].entries = labels[q].entries
      BY <1>8, <3>1
    <3>6. Pointed(q, k)' = Pointed(q, k)
      BY <3>5 DEF Pointed
    <3>3. Pointed(q, k)' = p
      BY <3>2, <3>6
    <3>4. Ahead(d, k, p)'
      BY <2>6, <2>7, <3>2 DEF AheadLabel
    <3> QED BY <3>3, <3>4 DEF Ahead, OvertakenAt, Linked
  <2>8. \A q : q \in Chain(labels, edge_label_ptr) /\ Unpassed(labels, freedLabels, q, txn[d].read) =>
          q \in Chain(labels', edge_label_ptr') /\ Unpassed(labels', freedLabels', q, txn[d].read)
    BY <1>1, <1>2, <1>5, <1>12, <2>4
  <2> QED BY <2>1, <2>6, <2>7, <2>8, StaysBy
<1>17. (\A k \in AnyLabel : HeadOf(k)' \notin freed') /\ OwnedOf(c)'
  BY <1>2, <1>5, <1>8, <1>14 DEF OwnedOf
<1> QED BY <1>3, <1>13, <1>16, <1>17, HolderKeeps

\* What a transaction leaves when it gives up is what it found.
LEMMA AbortReads ==
  ASSUME Basic, StoreInv, CommitsInv, KeepInv, GrantInv', NEW c \in Client, Abort(c), txn[c].locked
  PROVE  KeepInv'
PROOF
<1> DEFINE own == txn[c].own
           gone == freed \cup own
<1>1. /\ pc[c] = "open" /\ freed' = gone /\ UNCHANGED <<edge_label_ptr, labels, freedLabels, txn, scan, compaction, epochsVars>>
      /\ Goto(c, "clean")
  BY DEF Abort
<1>2. /\ Older(blocks) /\ Forest(blocks, freed) /\ ForestInv /\ Len(blocks) \in Nat /\ DOMAIN blocks = 1 .. Len(blocks)
      /\ \A k \in AnyLabel : HeadOf(k) \notin freed
      /\ \A k : HeadOf(k) \in 0 .. Len(blocks)
      /\ Types
  BY KeepAt DEF KeepInv
<1>3. /\ Len(blocks') = Len(blocks) /\ DOMAIN blocks' = DOMAIN blocks
      /\ \A p \in DOMAIN blocks : BlockUndone(blocks[p], blocks'[p], p, Members(txn[c].stamps))
  BY <1>2, AbortDoes
<1>4. Writer(c) /\ Open(c) /\ LockedIn(c) /\ Holds(c)
  BY <1>1 DEF Writer, Open, LockedIn, Holds
<1>5. OwnedIn(c) /\ RefsOf(c) /\ TopsOf(c)
  BY <1>4 DEF KeepInv, OwnedInv, OwnedOf, Basic, RefsInv, CommitsInv, TopsInv
<1>6. \A p \in DOMAIN blocks : /\ blocks'[p].prev = blocks[p].prev
                               /\ p \notin own => blocks'[p].creation = blocks[p].creation
  <2> SUFFICES ASSUME NEW p \in DOMAIN blocks
               PROVE  blocks'[p].prev = blocks[p].prev /\ (p \notin own => blocks'[p].creation = blocks[p].creation)
    OBVIOUS
  <2>1. blocks'[p].prev = blocks[p].prev
        /\ blocks'[p].creation = IF Word("block", p, 0) \in Members(txn[c].stamps) THEN ROLLBACK_TOMBSTONE ELSE blocks[p].creation
    BY <1>3 DEF BlockUndone
  <2>2. Word("block", p, 0) \in Members(txn[c].stamps) => p \in own
    <3>1. Word("block", p, 0).field = "block" /\ Word("block", p, 0).p = p
      BY DEF Word
    <3> QED BY <1>4, <1>5, <3>1 DEF RefsOf
  <2> QED BY <2>1, <2>2
<1>7. Older(blocks')
  BY <1>2, <1>3, <1>6 DEF Older
<1>8. \A k : HeadOf(k)' = HeadOf(k)
  BY <1>1, LabelsAlike
<1>9. /\ \A r \in 0 .. Len(blocks) : Chain(blocks', r) = Chain(blocks, r)
      /\ \A g : Forest(blocks, g) => Forest(blocks', g)
      /\ \A g, h : Root(blocks, g, h) => Root(blocks', g, h)
      /\ \A g, g2, x, read :
           /\ Unpassed(blocks, g, x, read) /\ g \subseteq g2
           /\ \A q \in DOMAIN blocks \ g2 : blocks'[q].creation = blocks[q].creation \/ Passes(blocks'[q], read)
           => Unpassed(blocks', g2, x, read)
  BY <1>2, <1>3, <1>6, <1>7, Reshaped
<1>10. \A p \in DOMAIN blocks \ gone :
         /\ p \in DOMAIN blocks \ freed /\ p \notin own
         /\ blocks[p].prev \notin own
         /\ \A k \in AnyLabel : HeadOf(k) # NULLPOINTER => blocks[p].prev # HeadOf(k)
  BY <1>5 DEF OwnedIn
<1>11. Forest(blocks, gone)
  BY <1>2, <1>10 DEF Forest
<1>12. ForestInv'
  BY <1>1, <1>2, <1>9, <1>11 DEF ForestInv
<1>13. ASSUME NEW k \in AnyLabel PROVE HeadOf(k) \notin gone /\ Root(blocks, gone, HeadOf(k))
  <2>1. HeadOf(k) \notin own
    <3>1. \A q \in own : HeadOf(k) < q
      BY <1>4, <1>5 DEF TopsOf
    <3> QED BY <1>2, <3>1
  <2>2. HeadOf(k) \notin gone
    BY <1>2, <2>1
  <2> QED BY <1>10, <2>2 DEF Root
<1> HIDE DEF gone, own
<1>14. RootsOf(blocks, freed, HeadsNow)'
  <2>1. ASSUME NEW k \in AnyLabel, NEW j \in AnyLabel, HeadOf(k) = HeadOf(j), HeadOf(k) # NULLPOINTER PROVE k = j
    <3> DEFINE s == TopOf(c, k)
               t == TopOf(c, j)
    <3>1. HeadOf(k) \in Chain(blocks, s) \cap Chain(blocks, t)
      BY <1>5, <2>1 DEF OwnedIn
    <3>2. s \in 0 .. Len(blocks) /\ t \in 0 .. Len(blocks)
      BY <1>4, TopIn
    <3>3. Root(blocks, freed, s) /\ Root(blocks, freed, t) /\ (s = t => k = j \/ s = NULLPOINTER)
      BY <1>5 DEF OwnedIn, RootsOf, TopsNow
    <3> HIDE DEF s, t
    <3>4. s = t
      BY <1>2, <3>1, <3>2, <3>3, NoCommon
    <3>5. s # NULLPOINTER
      BY <1>2, <3>1, ChainRec
    <3> QED BY <3>3, <3>4, <3>5
  <2>2. \A k \in AnyLabel : Root(blocks', gone, HeadOf(k))
    BY <1>9, <1>13
  <2>3. HeadsNow' = HeadsNow /\ freed' = gone
    BY <1>1, <1>8 DEF HeadsNow
  <2> QED BY <2>1, <2>2, <2>3 DEF RootsOf, HeadsNow
<1>15. ASSUME NEW d \in Client \ {c}, NEW k \in Label PROVE ReadsStay(d, k)
  <2>1. txn'[d].read = txn[d].read /\ Linked(k)' = Linked(k) /\ freed' = gone
    BY <1>1, <1>2, <1>8, <1>9 DEF Linked
  <2>2. \A q \in DOMAIN blocks \ gone : blocks'[q].creation = blocks[q].creation
    BY <1>6 DEF gone
  <2>3. freed \subseteq gone
    BY DEF gone
  <2>4. \A x, read : Unpassed(blocks, freed, x, read) => Unpassed(blocks', gone, x, read)
    BY <1>9, <2>2, <2>3
  <2>5. \A p : Ahead(d, k, p) => Ahead(d, k, p)'
    <3>1. \A q \in Linked(k) : Passes(blocks'[q], txn[d].read) => Passes(blocks[q], txn[d].read)
      <4>1. PICK h \in 0 .. Len(blocks) : h = HeadOf(k) /\ \A q \in own : h < q
        BY <1>2, <1>4, <1>5 DEF TopsOf, AnyLabel, own
      <4>2. Linked(k) \subseteq 1 .. h /\ Linked(k) \subseteq DOMAIN blocks
        BY <1>2, <4>1, ChainFacts DEF Linked
      <4>3. \A q \in Linked(k) : q \notin own
        BY <1>2, <4>1, <4>2
      <4> QED BY <1>6, <4>2, <4>3 DEF Passes
    <3> QED BY <2>1, <2>4, <3>1, AheadStays
  <2> QED BY <1>1, <2>1, <2>5, SameLabelsStay
<1>16. pc'[c] = "clean" /\ Alone(c)
  <2>1. pc' = [pc EXCEPT ![c] = "clean"] /\ UNCHANGED <<txn, scan, compaction, stage>>
    BY <1>1 DEF Goto, epochsVars
  <2> QED BY <1>2, <2>1 DEF Types, Alone, Same
<1>17. pc'[c] \notin InScan /\ ~Writer(c)' /\ OwnedOf(c)'
  BY <1>16 DEF InScan, Writer, Open, OwnedOf, LockedIn
<1>18. \A k \in AnyLabel : HeadOf(k)' \notin freed'
  BY <1>1, <1>8, <1>13
<1> QED BY <1>4, <1>12, <1>14, <1>15, <1>16, <1>17, <1>18, HolderKeeps

-----------------------------------------------------------------------------
(* Compaction under the readers *)

LEMMA BoundRead ==
  ASSUME Basic, CommitsInv, NEW c \in Client, pc[c] \in {"lock", "compact"}, NEW d \in Client, pc[d] \in InScan
  PROVE  compaction[c].bound \in Nat /\ compaction[c].bound \in Int /\ txn[d].read \in Int /\ compaction[c].bound <= txn[d].read
PROOF
<1>1. /\ Types /\ PlaceOf(d) /\ BoundOf(c) /\ Open(d)
  BY DEF Basic, PlaceInv, CommitsInv, BoundInv, Open
<1>2. compaction[c].bound \in Nat /\ visible \in Nat
  BY <1>1 DEF Types, CompactionRec, EpochInv
<1>3. txn[d].read \in Int /\ txn[d].read >= 0
  BY <1>1, <1>2 DEF PlaceOf
<1>4. Old(compaction[c].bound)
  BY <1>1 DEF BoundOf
<1> QED BY <1>2, <1>3, <1>4 DEF Old, Active

LEMMA CompactLabelsReads ==
  ASSUME Basic, StoreInv, CommitsInv, KeepInv, GrantInv', NEW c \in Client, CompactLabels(c)
  PROVE  KeepInv'
PROOF
<1>1. PICK b, lb :
        /\ b = compaction[c].bound /\ lb = edge_label_ptr
        /\ labels' = CutUnder(labels, lb, b) /\ freedLabels' = freedLabels \cup Garbage(labels, lb, b)
  BY DEF CompactLabels
<1>2. /\ pc[c] = "lock" /\ vertex_futex = 0 /\ Goto(c, "compact") /\ UNCHANGED <<edge_label_ptr, blocks, freed, txn, scan, stage>>
      /\ \E r : compaction' = [compaction EXCEPT ![c] = r]
  BY DEF CompactLabels, Compacting, epochsVars
<1>3. /\ Types /\ Older(blocks) /\ Older(labels) /\ Forest(blocks, freed) /\ Forest(labels, freedLabels)
      /\ Root(labels, freedLabels, lb) /\ lb \in 0 .. Len(labels) /\ freedLabels \subseteq DOMAIN labels
      /\ \A k \in AnyLabel : HeadOf(k) \notin freed
      /\ DOMAIN labels = 1 .. Len(labels) /\ Len(labels) \in Nat
  BY <1>1, KeepAt
<1>4. labels \in Seq(LabelRec) /\ Older(labels')
  <2>1. Basic'
    BY CompactLabelsKeeps
  <2> QED BY <1>3, <2>1 DEF Types, Basic, OlderInv
<1>5. /\ Len(labels') = Len(labels) /\ DOMAIN labels' = DOMAIN labels
      /\ \A q \in DOMAIN labels :
           /\ labels'[q].prev = (IF q = Cut(labels, lb, b) THEN NULLPOINTER ELSE labels[q].prev)
           /\ labels'[q].creation = labels[q].creation /\ labels'[q].entries = labels[q].entries
  <2>1. PICK s : s = CutUnder(labels, lb, b)
    OBVIOUS
  <2>2. /\ Len(s) = Len(labels) /\ DOMAIN s = DOMAIN labels
        /\ \A q \in DOMAIN labels :
           /\ s[q].prev = (IF q = Cut(labels, lb, b) THEN NULLPOINTER ELSE labels[q].prev)
           /\ s[q].creation = labels[q].creation /\ s[q].entries = labels[q].entries
    BY <1>3, <1>4, <2>1, CutLabels
  <2> QED BY <1>1, <2>1, <2>2
<1>6. \A k : \A q \in DOMAIN labels : Pointed(q, k)' = Pointed(q, k)
  <2> SUFFICES ASSUME NEW q \in DOMAIN labels, NEW k PROVE Pointed(q, k)' = Pointed(q, k)
    OBVIOUS
  <2>1. labels'[q].entries = labels[q].entries
    BY <1>5
  <2> QED BY <2>1 DEF Pointed
<1>7. \A k : HeadOf(k)' = HeadOf(k)
  <2>1. CASE edge_label_ptr = NULLPOINTER
    BY <1>2, <2>1 DEF HeadOf, Pointed
  <2>2. CASE edge_label_ptr # NULLPOINTER
    <3>1. edge_label_ptr \in DOMAIN labels /\ edge_label_ptr' = edge_label_ptr
      BY <1>1, <1>2, <1>3, <2>2
    <3>2. \A k : Pointed(edge_label_ptr, k)' = Pointed(edge_label_ptr, k)
      BY <1>6, <3>1
    <3> QED BY <3>2 DEF HeadOf
  <2> QED BY <2>1, <2>2
<1>8. \A d \in Client : ~LockedIn(d)
  BY <1>2, LockedHolds DEF Basic, LockInv
<1>9. ASSUME NEW d \in Client, pc[d] \in InScan
      PROVE  b \in Int /\ txn[d].read \in Int /\ b <= txn[d].read
  BY <1>1, <1>2, <1>9, BoundRead
<1>10. /\ Forest(labels', freedLabels') /\ Root(labels', freedLabels', lb)
       /\ \A d \in Client, x \in Chain(labels, lb) :
            pc[d] \in InScan /\ Unpassed(labels, freedLabels, x, txn[d].read) =>
              x \in Chain(labels', lb) /\ Unpassed(labels', freedLabels', x, txn[d].read)
  <2>1. CASE lb = NULLPOINTER
    <3>1. Chain(labels, lb) = {}
      BY <1>3, <2>1, ChainRec
    <3>2. Cut(labels, lb, b) = NULLPOINTER
      <4>1. {q \in Chain(labels, lb) : Before(labels[q].creation, b)} = {}
        BY <3>1
      <4> QED BY <4>1 DEF Cut, Newest
    <3>3. freedLabels' = freedLabels
      BY <1>1, <3>2 DEF Garbage
    <3>4. \A q \in DOMAIN labels : labels'[q].prev = labels[q].prev
      BY <1>3, <1>5, <3>2
    <3>5. Forest(labels', freedLabels)
      BY <1>3, <1>4, <1>5, <3>4, Reshaped
    <3> QED BY <2>1, <3>1, <3>3, <3>5 DEF Root
  <2>2. CASE lb # NULLPOINTER
    <3>1. lb \in DOMAIN labels
      BY <1>3, <2>2
    <3>2. DOMAIN labels' \ DOMAIN labels = {} /\ Len(labels) <= Len(labels')
      BY <1>3, <1>5
    <3>3. Forest(labels', freedLabels') /\ Root(labels', freedLabels', lb)
      BY <1>1, <1>3, <1>4, <1>5, <3>1, <3>2, CutForest
    <3>4. ASSUME NEW d \in Client, NEW x \in Chain(labels, lb), pc[d] \in InScan, Unpassed(labels, freedLabels, x, txn[d].read)
          PROVE  x \in Chain(labels', lb) /\ Unpassed(labels', freedLabels', x, txn[d].read)
      <4>1. PICK read, labs : read \in Int /\ read = txn[d].read /\ labs = labels' /\ b \in Int /\ b <= read
        BY <1>9, <3>4
      <4>2. /\ Older(labs) /\ Len(labels) <= Len(labs) /\ DOMAIN labs \ DOMAIN labels = {}
            /\ \A q \in DOMAIN labels :
                 /\ labs[q].prev = (IF q = Cut(labels, lb, b) THEN NULLPOINTER ELSE labels[q].prev)
                 /\ labs[q].creation = labels[q].creation /\ labels[q].creation \in Int
        BY <1>3, <1>4, <1>5, <3>2, <4>1, LabelFields
      <4>3. Unpassed(labels, freedLabels, x, read)
        BY <3>4, <4>1
      <4>5. /\ \A q \in DOMAIN labs \ DOMAIN labels : q = Len(labels) + 1 /\ labs[q].prev = lb
            /\ \A q \in DOMAIN labs \ DOMAIN labels : x \in Chain(labels, lb) => Passes(labs[q], read)
        BY <4>2
      <4>6. /\ Older(labels) /\ Older(labs) /\ Len(labels) <= Len(labs) /\ Forest(labels, freedLabels)
            /\ Root(labels, freedLabels, lb) /\ lb \in 0 .. Len(labels) /\ lb \in DOMAIN labels
            /\ freedLabels \subseteq DOMAIN labels /\ x \in Chain(labels, lb) /\ b \in Int /\ b <= read /\ read \in Int
        BY <1>3, <3>1, <3>4, <4>1, <4>2
      <4>7. \A q \in DOMAIN labels :
                 /\ labs[q].prev = (IF q = Cut(labels, lb, b) THEN NULLPOINTER ELSE labels[q].prev)
                 /\ labs[q].creation = labels[q].creation /\ labels[q].creation \in Int
        BY <4>2
      <4>4. x \in Chain(labs, lb) /\ Unpassed(labs, freedLabels \cup Garbage(labels, lb, b), x, read)
        BY <4>3, <4>5, <4>6, <4>7, CutSpares
      <4> QED BY <1>1, <4>1, <4>4
    <3> QED BY <3>3, <3>4
  <2> QED BY <2>1, <2>2
<1>11. ForestInv'
  BY <1>1, <1>2, <1>3, <1>10 DEF ForestInv
<1>12. RootsOf(blocks, freed, HeadsNow)'
  <2>1. HeadsNow' = HeadsNow
    BY <1>7 DEF HeadsNow
  <2>2. RootsOf(blocks, freed, HeadsNow)
    BY <1>8, HeadRoots
  <2> QED BY <1>2, <2>1, <2>2
<1>13. pc'[c] = "compact" /\ Alone(c)
  <2>1. pc \in [Client -> Place] /\ compaction \in [Client -> CompactionRec]
    BY <1>3 DEF Types
  <2> QED BY <1>2, <2>1 DEF Goto, Alone, Same
<1>14. pc'[c] \notin InScan /\ OwnedOf(c)'
  BY <1>13 DEF InScan, OwnedOf, LockedIn, Writer, Open
<1>15. ASSUME NEW d \in Client \ {c}, NEW k \in Label, pc[d] \in InScan PROVE ReadsStay(d, k)
  <2>1. txn'[d].read = txn[d].read /\ Linked(k)' = Linked(k)
    BY <1>2, <1>7 DEF Linked
  <2>2. \A p : Ahead(d, k, p) => Ahead(d, k, p)'
    BY <1>2, <2>1 DEF Ahead, OvertakenAt
  <2>3. ASSUME NEW q, q # NULLPOINTER, AheadLabel(d, k, q) PROVE Ahead(d, k, Pointed(q, k))'
    <3>1. q \in DOMAIN labels
      BY <1>1, <1>3, <2>3, ChainFacts DEF AheadLabel
    <3>2. PICK p : p = Pointed(q, k)
      OBVIOUS
    <3>3. Pointed(q, k)' = p
      BY <1>6, <3>1, <3>2
    <3>4. Ahead(d, k, p)'
      BY <2>2, <2>3, <3>2 DEF AheadLabel
    <3> QED BY <3>3, <3>4 DEF Ahead, OvertakenAt, Linked
  <2>4. \A q : q \in Chain(labels, edge_label_ptr) /\ Unpassed(labels, freedLabels, q, txn[d].read) =>
          q \in Chain(labels', edge_label_ptr') /\ Unpassed(labels', freedLabels', q, txn[d].read)
    BY <1>1, <1>2, <1>10, <1>15
  <2> QED BY <2>1, <2>2, <2>3, <2>4, StaysBy
<1>16. \A k \in AnyLabel : HeadOf(k)' \notin freed'
  BY <1>2, <1>3, <1>7
<1> QED BY <1>2, <1>11, <1>12, <1>13, <1>14, <1>15, <1>16, HolderKeeps

LEMMA CompactLabelTop ==
  ASSUME NEW c \in Client, NEW i, CompactLabel(c, i)
  PROVE  TopChanges
PROOF
<1>1. edge_label_ptr' = edge_label_ptr
  BY DEF CompactLabel
<1>2. labels' = labels \/ labels' = [labels EXCEPT ![edge_label_ptr].entries[i].ptr = Len(blocks) + 1]
  BY DEF CompactLabel, CopyBlock
<1>3. \A q \in DOMAIN labels : q # edge_label_ptr => labels'[q] = labels[q]
  <2>1. CASE labels' = [labels EXCEPT ![edge_label_ptr].entries[i].ptr = Len(blocks) + 1]
    <3>1. PICK y : labels' = [labels EXCEPT ![edge_label_ptr] = y]
      BY <2>1
    <3> QED BY <3>1
  <2>2. CASE labels' = labels
    BY <2>2
  <2> QED BY <1>2, <2>1, <2>2
<1> QED BY <1>1, <1>3 DEF TopChanges

\* A copy is on top of what scans are at: those that would have to stop at it are overtaken by it.
LEMMA CompactLabelReads ==
  ASSUME Basic, StoreInv, CommitsInv, KeepInv, GrantInv', NEW c \in Client,
         NEW i \in compaction[c].todo, CompactLabel(c, i)
  PROVE  KeepInv'
PROOF
<1>0. PICK b : b = compaction[c].bound
  OBVIOUS
<1>1. PICK p \in DOMAIN blocks, l \in AnyLabel :
        /\ p = HeadOf(l) /\ CutAt(blocks', p, b) /\ freed' = freed \cup Garbage(blocks, p, b)
        /\ \/ DOMAIN blocks' = DOMAIN blocks /\ labels' = labels
           \/ /\ Copied(blocks', Len(blocks) + 1, p, b)
              /\ DOMAIN blocks' = DOMAIN blocks \cup {Len(blocks) + 1}
              /\ HeadOf(l)' = Len(blocks) + 1 /\ \A k : k # l => HeadOf(k)' = HeadOf(k)
  <2>1. \E p \in DOMAIN blocks, l \in AnyLabel :
              /\ p = HeadOf(l) /\ CutAt(blocks', p, compaction[c].bound)
              /\ freed' = freed \cup Garbage(blocks, p, compaction[c].bound)
              /\ \/ DOMAIN blocks' = DOMAIN blocks /\ labels' = labels
                 \/ /\ Copied(blocks', Len(blocks) + 1, p, compaction[c].bound)
                    /\ DOMAIN blocks' = DOMAIN blocks \cup {Len(blocks) + 1}
                    /\ HeadOf(l)' = Len(blocks) + 1 /\ \A k : k # l => HeadOf(k)' = HeadOf(k)
    BY CompactLabelDoes DEF Basic
  <2> QED BY <1>0, <2>1
<1>2. /\ pc[c] = "compact" /\ pc' = pc /\ UNCHANGED <<stage, txn, scan, edge_label_ptr, freedLabels>>
      /\ \A d \in Client \ {c} : compaction'[d] = compaction[d]
      /\ Len(blocks) <= Len(blocks') /\ Len(labels') = Len(labels) /\ OlderInv' /\ TopChanges
      /\ \A q \in DOMAIN labels : labels'[q].prev = labels[q].prev /\ labels'[q].creation = labels[q].creation
  BY CompactLabelDoes, CompactLabelTop
<1>3. /\ Types /\ OlderInv /\ Older(blocks) /\ Older(labels) /\ Forest(blocks, freed) /\ Forest(labels, freedLabels)
      /\ Root(labels, freedLabels, edge_label_ptr) /\ edge_label_ptr \in 0 .. Len(labels)
      /\ freed \subseteq DOMAIN blocks /\ DOMAIN blocks = 1 .. Len(blocks) /\ Len(blocks) \in Nat
      /\ \A k \in AnyLabel : HeadOf(k) \notin freed
      /\ \A k : HeadOf(k) \in 0 .. Len(blocks)
  BY KeepAt
<1>4. Alone(c) /\ Holds(c) /\ pc'[c] \notin InScan /\ ~Writer(c) /\ OwnedOf(c)'
  BY <1>2 DEF Alone, Same, Holds, InScan, Writer, Open, OwnedOf, LockedIn
<1>5. \A d \in Client : ~LockedIn(d)
  BY <1>4, LockedHolds DEF Basic, LockInv, LockedIn
<1>6. /\ RootsOf(blocks, freed, HeadsNow)
      /\ \A k \in AnyLabel : /\ Root(blocks, freed, HeadOf(k))
                             /\ \A j \in AnyLabel : HeadOf(j) = HeadOf(k) => j = k \/ HeadOf(k) = NULLPOINTER
  BY <1>5, HeadRoots
<1>7. Root(blocks, freed, p) /\ p # NULLPOINTER /\ \A k \in AnyLabel : HeadOf(k) = p => k = l
  BY <1>1, <1>3, <1>6
<1> DEFINE n == Len(blocks) + 1
           Copy == /\ blocks'[n].prev = p /\ blocks'[n].creation = b /\ Len(blocks') = n
                   /\ HeadOf(l)' = n /\ (\A k : k # l => HeadOf(k)' = HeadOf(k))
                   /\ DOMAIN blocks' = DOMAIN blocks \cup {n}
           None == DOMAIN blocks' = DOMAIN blocks /\ \A k : HeadOf(k)' = HeadOf(k)
<1>8. Copy \/ None
  <2>1. CASE DOMAIN blocks' = DOMAIN blocks /\ labels' = labels
    BY <1>2, <2>1, LabelsAlike
  <2>2. CASE /\ Copied(blocks', Len(blocks) + 1, p, b)
             /\ DOMAIN blocks' = DOMAIN blocks \cup {Len(blocks) + 1}
             /\ HeadOf(l)' = Len(blocks) + 1 /\ \A k : k # l => HeadOf(k)' = HeadOf(k)
    BY <2>2 DEF Copied
  <2> QED BY <1>1, <2>1, <2>2
<1>9. PICK after, gone : after = blocks' /\ gone = freed \cup Garbage(blocks, p, b) /\ freed' = gone
  BY <1>1
<1>10. /\ Older(after) /\ Len(blocks) <= Len(after)
       /\ \A q \in DOMAIN blocks :
            /\ after[q].prev = (IF q = Cut(blocks, p, b) THEN NULLPOINTER ELSE blocks[q].prev)
            /\ after[q].creation = blocks[q].creation /\ blocks[q].creation \in Int
       /\ \A q \in DOMAIN after \ DOMAIN blocks : q = Len(blocks) + 1 /\ after[q].prev = p
  <2>1. Older(after) /\ Len(blocks) <= Len(after)
    BY <1>2, <1>9 DEF OlderInv
  <2>2. \A q \in DOMAIN after \ DOMAIN blocks : q = Len(blocks) + 1 /\ after[q].prev = p
    BY <1>8, <1>9
  <2>3. ASSUME NEW q \in DOMAIN blocks PROVE blocks[q].creation \in Int
    BY <1>3, BlockFields
  <2>4. \A q \in DOMAIN blocks :
            /\ after[q].prev = (IF q = Cut(blocks, p, b) THEN NULLPOINTER ELSE blocks[q].prev)
            /\ after[q].creation = blocks[q].creation
    BY <1>1, <1>9 DEF CutAt
  <2> QED BY <2>1, <2>2, <2>3, <2>4
<1>11. /\ Forest(after, gone) /\ p \notin Garbage(blocks, p, b)
       /\ \A r : Root(blocks, freed, r) /\ (r = p => DOMAIN after = DOMAIN blocks) => Root(after, gone, r)
       /\ Root(after, gone, n)
  <2>1. \A q \in DOMAIN blocks : after[q].prev = (IF q = Cut(blocks, p, b) THEN NULLPOINTER ELSE blocks[q].prev)
    BY <1>10
  <2> QED BY <1>3, <1>7, <1>9, <1>10, <2>1, CutForest
<1> HIDE DEF Copy, None, n
<1>12. \A k \in AnyLabel : Root(after, gone, HeadOf(k)')
  <2> SUFFICES ASSUME NEW k \in AnyLabel PROVE Root(after, gone, HeadOf(k)')
    OBVIOUS
  <2>1. CASE None
    BY <1>6, <1>9, <1>11, <2>1 DEF None
  <2>2. CASE Copy /\ k = l
    BY <1>11, <2>2 DEF Copy
  <2>3. CASE Copy /\ k # l
    <3>1. HeadOf(k) # p /\ HeadOf(k)' = HeadOf(k)
      BY <1>7, <2>3 DEF Copy
    <3> QED BY <1>6, <1>11, <3>1
  <2> QED BY <1>8, <2>1, <2>2, <2>3
<1>13. RootsOf(blocks, freed, HeadsNow)'
  <2>1. ASSUME NEW k \in AnyLabel, NEW j \in AnyLabel, HeadOf(k)' = HeadOf(j)' PROVE k = j \/ HeadOf(k)' = NULLPOINTER
    <3>1. CASE None
      <4>1. HeadOf(k) = HeadOf(j) /\ HeadOf(k)' = HeadOf(k)
        BY <2>1, <3>1 DEF None
      <4> QED BY <1>6, <4>1
    <3>2. CASE Copy /\ k # l /\ j # l
      <4>1. HeadOf(k) = HeadOf(j) /\ HeadOf(k)' = HeadOf(k)
        BY <2>1, <3>2 DEF Copy
      <4> QED BY <1>6, <4>1
    <3>3. CASE Copy /\ (k = l \/ j = l)
      <4>1. n \notin 0 .. Len(blocks)
        BY <1>3 DEF n
      <4>2. k # l => HeadOf(k)' \in 0 .. Len(blocks)
        BY <1>3, <3>3 DEF Copy
      <4>3. j # l => HeadOf(j)' \in 0 .. Len(blocks)
        BY <1>3, <3>3 DEF Copy
      <4> QED BY <2>1, <3>3, <4>1, <4>2, <4>3 DEF Copy
    <3> QED BY <1>8, <3>1, <3>2, <3>3
  <2> QED BY <1>9, <1>12, <2>1 DEF RootsOf, HeadsNow
<1>14. \A k \in AnyLabel : HeadOf(k)' \notin freed'
  <2>1. gone \subseteq DOMAIN blocks
    <3>1. p \in 0 .. Len(blocks)
      BY <1>3
    <3> QED BY <1>3, <1>9, <3>1, GarbageThere
  <2>2. 0 \notin gone
    BY <1>3, <2>1
  <2> QED BY <1>9, <1>12, <2>2 DEF Root
<1>15. /\ Forest(labels', freedLabels) /\ Root(labels', freedLabels, edge_label_ptr)
       /\ \A r \in 0 .. Len(labels) : Chain(labels', r) = Chain(labels, r)
       /\ \A x, read : Unpassed(labels, freedLabels, x, read) => Unpassed(labels', freedLabels, x, read)
  <2>1. Older(labels')
    BY <1>2 DEF OlderInv
  <2> QED BY <1>2, <1>3, <2>1, Reshaped
<1>16. ForestInv'
  BY <1>2, <1>9, <1>11, <1>15 DEF ForestInv
<1>17. ASSUME NEW d \in Client, NEW k \in Label, pc[d] \in InScan, NEW x, Ahead(d, k, x)
       PROVE  Ahead(d, k, x)'
  <2>1. CASE x = NULLPOINTER
    BY <2>1 DEF Ahead
  <2>2. CASE x # NULLPOINTER
    <3>0. compaction[c].bound \in Int /\ txn[d].read \in Int /\ compaction[c].bound <= txn[d].read
      BY <1>2, <1>17, BoundRead
    <3>1. PICK read, h : read \in Int /\ h = HeadOf(k) /\ read = txn[d].read /\ b \in Int /\ b <= read
      BY <1>0, <3>0
    <3>2. h \in 0 .. Len(blocks) /\ Root(blocks, freed, h) /\ (h = p => k = l) /\ (k = l => h = p) /\ k \in AnyLabel
      BY <1>1, <1>3, <1>6, <1>7, <3>1 DEF AnyLabel
    <3>3. txn'[d].read = read
      BY <1>2, <3>1
    <3>4. h # p => Chain(blocks, h) \cap Chain(blocks, p) = {}
      <4>1. p \in 0 .. Len(blocks)
        BY <1>3
      <4> QED BY <1>3, <1>7, <3>2, <4>1, NoCommon
    <3>5. Chain(after, h) \subseteq Linked(k)'
      <4>1. CASE HeadOf(k)' = HeadOf(k)
        BY <1>9, <3>1, <4>1 DEF Linked
      <4>2. CASE HeadOf(k)' # HeadOf(k)
        <5>1. Copy /\ k = l /\ h = p
          BY <1>8, <3>2, <4>2 DEF Copy, None
        <5>2. n \in DOMAIN after /\ after[n].prev = p
          BY <1>9, <5>1 DEF Copy
        <5>3. Chain(after, n) = {n} \cup Chain(after, p)
          BY <1>10, <5>2, ChainRec
        <5> QED BY <1>9, <5>1, <5>3 DEF Linked, Copy
      <4> QED BY <4>1, <4>2
    <3>6. CASE OvertakenAt(d, k, x)
      <4>1. PICK q \in Chain(blocks, h) : q > x /\ ~Passes(blocks[q], read) /\ x \in Nat
        BY <3>1, <3>6 DEF OvertakenAt, Linked
      <4>2. \E o \in Chain(after, h) : o \in DOMAIN blocks /\ o > x /\ ~Passes(blocks[o], read)
        <5>0. Chain(blocks, h) \subseteq DOMAIN blocks
          BY <1>3, <3>2, ChainFacts
        <5>1. PICK cut : cut = Cut(blocks, p, b)
          OBVIOUS
        <5>2. /\ cut \in Chain(blocks, p) \cup {NULLPOINTER}
              /\ cut # NULLPOINTER => Before(blocks[cut].creation, b)
              /\ \A o \in Chain(blocks, p) : cut <= o => o \in Chain(after, p)
              /\ \A r \in 0 .. Len(blocks) : Chain(blocks, r) \cap Chain(blocks, p) = {} => Chain(after, r) = Chain(blocks, r)
          <6>1. p \in 0 .. Len(blocks) /\ \A o \in DOMAIN blocks :
                  after[o].prev = (IF o = Cut(blocks, p, b) THEN NULLPOINTER ELSE blocks[o].prev)
            BY <1>3, <1>10
          <6>2. Older(blocks) /\ Older(after) /\ Len(blocks) <= Len(after)
            BY <1>3, <1>10
          <6>3. /\ Cut(blocks, p, b) \in Chain(blocks, p) \cup {NULLPOINTER}
                /\ Cut(blocks, p, b) # NULLPOINTER => Before(blocks[Cut(blocks, p, b)].creation, b)
                /\ \A o \in Chain(blocks, p) : Cut(blocks, p, b) <= o => o \in Chain(after, p)
                /\ \A r \in 0 .. Len(blocks) : Chain(blocks, r) \cap Chain(blocks, p) = {} => Chain(after, r) = Chain(blocks, r)
            BY <6>1, <6>2, CutChain
          <6> QED BY <5>1, <6>3
        <5>3. CASE h # p
          BY <3>2, <3>4, <4>1, <5>0, <5>2, <5>3
        <5>4. CASE h = p /\ cut <= q
          BY <4>1, <5>0, <5>2, <5>4
        <5>5. CASE h = p /\ ~(cut <= q)
          <6>1. q \in DOMAIN blocks /\ cut \in Chain(blocks, p) /\ cut \in DOMAIN blocks /\ cut > q
            BY <1>3, <4>1, <5>0, <5>2, <5>5
          <6>2. cut \in Chain(after, h)
            BY <1>3, <5>2, <5>5, <6>1
          <6>3. 0 <= blocks[cut].creation /\ blocks[cut].creation < b /\ blocks[cut].creation \in Int
            BY <1>10, <5>2, <6>1 DEF Before
          <6>4. ~Passes(blocks[cut], read)
            BY <3>1, <6>3 DEF Passes
          <6>5. cut > x
            BY <1>3, <4>1, <6>1
          <6> QED BY <6>1, <6>2, <6>4, <6>5
        <5> QED BY <5>3, <5>4, <5>5
      <4>3. PICK o \in Linked(k)' : o > x /\ ~Passes(after[o], read)
        BY <1>10, <3>5, <4>2 DEF Passes
      <4> QED BY <1>9, <3>3, <4>1, <4>3 DEF Ahead, OvertakenAt
    <3>7. CASE /\ x \in Chain(blocks, h) /\ Unpassed(blocks, freed, x, read)
               /\ \A q \in DOMAIN after \ DOMAIN blocks : x \in Chain(blocks, p) => Passes(after[q], read)
      <4>1. \A q \in DOMAIN after \ DOMAIN blocks : x \in Chain(blocks, p) => Passes(after[q], read)
        BY <3>7
      <4>2. /\ Older(blocks) /\ Older(after) /\ Len(blocks) <= Len(after) /\ Forest(blocks, freed)
            /\ Root(blocks, freed, p) /\ p \in DOMAIN blocks /\ freed \subseteq DOMAIN blocks
            /\ h \in 0 .. Len(blocks) /\ Root(blocks, freed, h)
            /\ x \in Chain(blocks, h) /\ b \in Int /\ b <= read /\ read \in Int
        BY <1>3, <1>7, <1>10, <3>1, <3>2, <3>7
      <4>3. \A q \in DOMAIN blocks :
                 /\ after[q].prev = (IF q = Cut(blocks, p, b) THEN NULLPOINTER ELSE blocks[q].prev)
                 /\ after[q].creation = blocks[q].creation /\ blocks[q].creation \in Int
        BY <1>10
      <4>4. \A q \in DOMAIN after \ DOMAIN blocks : q = Len(blocks) + 1 /\ after[q].prev = p
        BY <1>10
      <4>5. x \in Chain(after, h) /\ Unpassed(after, freed \cup Garbage(blocks, p, b), x, read)
        BY <3>7, <4>1, <4>2, <4>3, <4>4, CutSpares
      <4> QED BY <1>9, <3>3, <3>5, <4>5 DEF Ahead
    <3>8. CASE /\ x \in Chain(blocks, h)
               /\ \E q \in DOMAIN after \ DOMAIN blocks : x \in Chain(blocks, p) /\ ~Passes(after[q], read)
      <4>1. PICK q \in DOMAIN after \ DOMAIN blocks : x \in Chain(blocks, p) /\ ~Passes(after[q], read)
        BY <3>8
      <4>2. h = p /\ k = l
        BY <3>2, <3>4, <3>8, <4>1
      <4>3. Copy /\ q = n
        BY <1>8, <1>9, <1>10, <4>1 DEF Copy, None, n
      <4>4. n \in Linked(k)'
        <5>1. n \in 0 .. Len(after) /\ n # NULLPOINTER /\ HeadOf(k)' = n
          BY <1>3, <1>9, <4>2, <4>3 DEF Copy, n
        <5>2. n \in Chain(after, n)
          BY <1>10, <5>1, ChainFacts
        <5> QED BY <1>9, <5>1, <5>2 DEF Linked
      <4>5. x \in Nat /\ n > x
        <5>1. Chain(blocks, h) \subseteq DOMAIN blocks
          BY <1>3, <3>2, ChainFacts
        <5> QED BY <1>3, <3>8, <5>1 DEF n
      <4> QED BY <1>9, <3>3, <4>1, <4>3, <4>4, <4>5 DEF Ahead, OvertakenAt
    <3>9. OvertakenAt(d, k, x) \/ (x \in Chain(blocks, h) /\ Unpassed(blocks, freed, x, read))
      BY <1>17, <2>2, <3>1 DEF Ahead, Linked
    <3> QED BY <3>6, <3>7, <3>8, <3>9
  <2> QED BY <2>1, <2>2
<1>18. ASSUME NEW d \in Client \ {c}, NEW k \in Label, pc[d] \in InScan PROVE ReadsStay(d, k)
  <2>1. txn'[d].read = txn[d].read /\ k \in AnyLabel
    BY <1>2 DEF AnyLabel
  <2>2. \A x : Ahead(d, k, x) => Ahead(d, k, x)'
    BY <1>17, <1>18
  <2>3. Ahead(d, k, HeadOf(k))'
    <3>1. PICK h : h = HeadOf(k)'
      OBVIOUS
    <3>2. Root(after, gone, h) /\ Older(after) /\ Forest(after, gone)
      BY <1>10, <1>11, <1>12, <2>1, <3>1
    <3>3. h \in 0 .. Len(after)
      <4>1. Len(after) \in Nat
        BY <1>10 DEF Older
      <4>2. h \in 0 .. Len(blocks) \/ h = Len(after)
        BY <1>3, <1>8, <1>9, <3>1 DEF Copy, None
      <4> QED BY <1>3, <1>10, <4>1, <4>2
    <3>4. Unpassed(after, gone, h, txn'[d].read)
      BY <3>2, RootUnpassed
    <3>5. h = NULLPOINTER \/ h \in Chain(after, h)
      BY <3>2, <3>3, ChainFacts
    <3> QED BY <1>9, <3>1, <3>4, <3>5 DEF Ahead, Linked
  <2>4. \A q : q # NULLPOINTER /\ AheadLabel(d, k, q) => Ahead(d, k, Pointed(q, k))'
    BY <1>2, <1>3, <2>2, <2>3, PointedStays
  <2>5. \A q : q \in Chain(labels, edge_label_ptr) /\ Unpassed(labels, freedLabels, q, txn[d].read) =>
          q \in Chain(labels', edge_label_ptr') /\ Unpassed(labels', freedLabels', q, txn[d].read)
    BY <1>2, <1>3, <1>15
  <2> QED BY <2>1, <2>2, <2>4, <2>5, StaysBy
<1> QED BY <1>4, <1>13, <1>14, <1>16, <1>18, HolderKeeps

-----------------------------------------------------------------------------
(* Every step under the readers *)

LEMMA ElementIn ==
  ASSUME NEW T, NEW s \in Seq(T), NEW i \in DOMAIN s
  PROVE  s[i] \in T
OBVIOUS

LEMMA LoadedHeads ==
  ASSUME Init, NEW l \in AnyLabel, HeadOf(l) # NULLPOINTER
  PROVE  \E i \in DOMAIN LoadedLabels : l = LoadedLabels[i] /\ HeadOf(l) = i
PROOF
<1>1. \A i \in DOMAIN LoadedLabels : HeadOf(LoadedLabels[i]) = i
  BY InitStore
<1>2. LoadedLabels # <<>> /\ edge_label_ptr = 1
  BY DEF Init, HeadOf, Pointed
<1>3. PICK es : es = [i \in DOMAIN LoadedLabels |-> [label |-> LoadedLabels[i], ptr |-> i]]
  OBVIOUS
<1>4. labels[1].entries = es
  BY <1>2, <1>3 DEF Init
<1>5. DOMAIN es = DOMAIN LoadedLabels /\ \A i \in DOMAIN LoadedLabels : es[i].label = LoadedLabels[i]
  BY <1>3
<1>6. {i \in DOMAIN es : es[i].label = l} # {}
  BY <1>2, <1>4 DEF HeadOf, Pointed
<1>7. PICK i \in DOMAIN LoadedLabels : l = LoadedLabels[i]
  BY <1>5, <1>6
<1> QED BY <1>1, <1>7

LEMMA KeepInit == Init => KeepInv
PROOF
<1> SUFFICES ASSUME Init PROVE KeepInv
  OBVIOUS
<1>1. /\ freed = {} /\ freedLabels = {} /\ sealed = 0 /\ visible = 0
      /\ stage = [c \in Client |-> "idle"] /\ grant = [c \in Client |-> 0]
      /\ pc = [c \in Client |-> "idle"]
  BY DEF Init, EpochsInit
<1>2. \A p \in DOMAIN blocks : blocks[p].prev = NULLPOINTER
  BY InitStore DEF LoadedFits
<1>3. \A q \in DOMAIN labels : q = 1 /\ labels[q].prev = NULLPOINTER
  BY DEF Init
<1>4. edge_label_ptr \in {0, 1}
  BY DEF Init
<1>5. ForestInv
  <2>1. Forest(blocks, freed)
    BY <1>1, <1>2 DEF Forest
  <2>2. Forest(labels, freedLabels)
    BY <1>1, <1>3 DEF Forest
  <2>3. Root(labels, freedLabels, edge_label_ptr)
    BY <1>1, <1>3, <1>4 DEF Root
  <2> QED BY <2>1, <2>2, <2>3 DEF ForestInv
<1>6. HeadsInv
  <2>1. ASSUME NEW l \in AnyLabel PROVE Root(blocks, freed, HeadOf(l))
    BY <1>1, <1>2 DEF Root
  <2>2. ASSUME NEW l \in AnyLabel, NEW k \in AnyLabel, HeadOf(l) = HeadOf(k) PROVE l = k \/ HeadOf(l) = NULLPOINTER
    BY <2>2, LoadedHeads
  <2>3. RootsOf(blocks, freed, HeadsNow)
    BY <2>1, <2>2 DEF RootsOf, HeadsNow
  <2> QED BY <1>1, <2>3 DEF HeadsInv
<1>7. \A c \in Client : pc[c] = "idle" /\ stage[c] = "idle" /\ grant[c] = 0
  BY <1>1
<1>8. OwnedInv
  BY <1>7 DEF OwnedInv, OwnedOf, LockedIn, Writer, Open, InScan
<1>9. GrantInv
  BY <1>1, <1>7 DEF GrantInv, GrantOf
<1>10. ReadInv
  BY <1>7 DEF ReadInv, ReadOf, InScan
<1> QED BY <1>5, <1>6, <1>8, <1>9, <1>10 DEF KeepInv

LEMMA KeepStep ==
  ASSUME Basic, CommitsInv, StoreInv, KeepInv, [Next]_vars
  PROVE  KeepInv'
PROOF
<1>0. GrantInv'
  BY GrantStep DEF KeepInv
<1>1. ASSUME NEW c \in Client, Call(c) PROVE KeepInv'
  <2>1. CASE Begin(c) \/ Commit(c) \/ Compact(c) \/ (Abort(c) /\ ~txn[c].locked)
    BY <1>0, <2>1, CallReads
  <2>2. CASE Abort(c) /\ txn[c].locked
    BY <1>0, <2>2, AbortReads
  <2>3. ASSUME NEW l \in Label, NEW want, NEW one, NEW reverse, GetEdges(c, l, want, one, reverse) PROVE KeepInv'
    BY <1>0, <2>3, GetEdgesReads
  <2>4. ASSUME NEW l \in Label, NEW d \in Dst, PutEdge(c, l, d) \/ DelEdge(c, l, d) PROVE KeepInv'
    BY <1>0, <2>4, WriteReads
  <2> QED BY <1>1, <2>1, <2>2, <2>3, <2>4 DEF Call
<1>2. ASSUME NEW c \in Client, Reading(c) PROVE KeepInv'
  <2>1. CASE ReadLabel(c)
    BY <1>0, <2>1, ReadLabelReads
  <2>2. CASE Walk(c)
    BY <1>0, <2>2, WalkReads
  <2>3. CASE LoadTail(c) \/ NextEntry(c) \/ Return(c)
    BY <1>0, <2>3, BlockReads
  <2> QED BY <1>2, <2>1, <2>2, <2>3 DEF Reading
<1>3. ASSUME NEW c \in Client, Ending(c) PROVE KeepInv'
  <2>1. ASSUME NEW p \in Pointer, InstallTail(c, p) PROVE KeepInv'
    BY <1>0, <2>1, InstallTailReads
  <2>2. ASSUME NEW l \in Label, InstallLabel(c, l) PROVE KeepInv'
    BY <1>0, <2>2, InstallLabelReads
  <2>3. CASE Stamp(c)
    BY <1>0, <2>3, StampReads
  <2>4. CASE Clean(c)
    BY <1>0, <2>4, CleanReads
  <2>5. CASE Leave(c) \/ (\E wait \in BOOLEAN : FinishCommit(c, wait)) \/ Spin(c)
    BY <1>0, <2>5, EndReads
  <2> QED BY <1>3, <2>1, <2>2, <2>3, <2>4, <2>5 DEF Ending
<1>4. ASSUME NEW c \in Client, Compactor(c) PROVE KeepInv'
  <2>1. CASE ScanTable(c) \/ CompactSkip(c) \/ Compacted(c)
    BY <1>0, <2>1, CompactReads
  <2>2. CASE CompactLabels(c)
    BY <1>0, <2>2, CompactLabelsReads
  <2>3. ASSUME NEW i \in compaction[c].todo, CompactLabel(c, i) PROVE KeepInv'
    BY <1>0, <2>3, CompactLabelReads
  <2> QED BY <1>4, <2>1, <2>2, <2>3 DEF Compactor
<1>5. CASE Publish \/ UNCHANGED vars \/ \E G \in SUBSET Client : RegisterGroup(G)
  BY <1>0, <1>5, ServerReads
<1> QED BY <1>1, <1>2, <1>3, <1>4, <1>5 DEF Next

\* A reader that is not overtaken is above what it may not reach.
LEMMA AheadKept ==
  ASSUME Basic, StoreInv, KeepInv, NEW c, NEW l \in AnyLabel, NEW p, Ahead(c, l, p), p \in freed
  PROVE  OvertakenAt(c, l, p)
PROOF
<1>1. /\ freed \subseteq DOMAIN blocks /\ DOMAIN blocks = 1 .. Len(blocks) /\ Len(blocks) \in Nat
      /\ Linked(l) \subseteq DOMAIN blocks \ freed
  BY KeepAt
<1> QED BY <1>1 DEF Ahead

LEMMA TopKept ==
  ASSUME Basic, StoreInv, KeepInv, NEW c \in Client, Open(c), NEW l \in Label
  PROVE  txn[c].ptrs[l] \notin freed
PROOF
<1>1. freed \subseteq DOMAIN blocks /\ DOMAIN blocks = 1 .. Len(blocks) /\ Len(blocks) \in Nat
  BY KeepAt
<1>2. NoCache \notin freed /\ NULLPOINTER \notin freed
  BY <1>1
<1>3. CASE txn[c].locked /\ txn[c].ptrs[l] # NoCache
  <2>1. RootsOf(blocks, freed, TopsNow(c))
    BY <1>3 DEF KeepInv, OwnedInv, OwnedOf, OwnedIn, LockedIn, Writer
  <2>2. TopsNow(c)[l] = txn[c].ptrs[l] /\ l \in DOMAIN TopsNow(c)
    BY <1>3 DEF TopsNow, TopOf, AnyLabel
  <2>3. Root(blocks, freed, txn[c].ptrs[l])
    BY <2>1, <2>2 DEF RootsOf
  <2> QED BY <1>2, <2>3 DEF Root
<1>4. CASE ~txn[c].locked
  <2>1. PlaceOf(c)
    BY DEF Basic, PlaceInv
  <2>2. txn[c].ptrs[l] = NoCache
    BY <1>4, <2>1 DEF PlaceOf, Bare
  <2> QED BY <1>2, <2>2
<1> QED BY <1>2, <1>3, <1>4

LEMMA KeepBlocks ==
  ASSUME Basic, StoreInv, KeepInv
  PROVE  KeptUnlessOvertaken
PROOF
<1>1. /\ Types /\ LabelsInv /\ Older(labels) /\ Older(blocks) /\ freed \subseteq DOMAIN blocks /\ freedLabels \subseteq DOMAIN labels
      /\ Len(blocks) \in Nat /\ Len(labels) \in Nat /\ edge_label_ptr \in 0 .. Len(labels)
      /\ DOMAIN blocks = 1 .. Len(blocks) /\ DOMAIN labels = 1 .. Len(labels)
      /\ Forest(labels, freedLabels) /\ Root(labels, freedLabels, edge_label_ptr)
      /\ \A l \in AnyLabel : Linked(l) \subseteq DOMAIN blocks \ freed
  BY KeepAt
<1>2. NULLPOINTER \notin freed /\ NULLPOINTER \notin freedLabels
  BY <1>1
<1>3. Chain(labels, edge_label_ptr) \cap freedLabels = {}
  <2>1. edge_label_ptr \in DOMAIN labels => edge_label_ptr \notin freedLabels
    BY <1>1, <1>2 DEF Root
  <2>2. Chain(labels, edge_label_ptr) \subseteq DOMAIN labels \ freedLabels
    BY <1>1, <2>1, ForestChain
  <2> QED BY <2>2
<1>4. ASSUME NEW c \in Client, pc[c] \in InScan PROVE (scan[c].ptr \in freed => Overtaken(c)) /\ scan[c].lb \notin freedLabels
  <2>1. PICK l \in Label : l = scan[c].l
    BY <1>4 DEF KeepInv, ReadInv, ReadOf
  <2>0. OvertakenAt(c, l, scan[c].ptr) => Overtaken(c)
    BY <2>1 DEF OvertakenAt, Overtaken, Linked, HeadOf, Passes, Before
  <2>2. l \in AnyLabel /\ Open(c) /\ ReadOf(c)
    BY <1>4 DEF AnyLabel, Open, KeepInv, ReadInv
  <2>3. CASE pc[c] = "label"
    <3>1. scan[c].ptr = NULLPOINTER /\ AheadLabel(c, l, scan[c].lb)
      BY <2>1, <2>2, <2>3 DEF ReadOf
    <3>2. scan[c].lb \notin freedLabels
      BY <1>2, <1>3, <3>1 DEF AheadLabel
    <3> QED BY <1>2, <3>1, <3>2
  <2>4. CASE pc[c] = "walk"
    <3>1. scan[c].lb = NULLPOINTER /\ Ahead(c, l, scan[c].ptr)
      BY <2>1, <2>2, <2>4 DEF ReadOf
    <3> QED BY <1>2, <2>0, <2>2, <3>1, AheadKept
  <2>5. CASE pc[c] \in {"tail", "entries"}
    <3>1. scan[c].lb = NULLPOINTER /\ (Ahead(c, l, scan[c].ptr) \/ scan[c].ptr = txn[c].ptrs[l])
      BY <2>1, <2>2, <2>5 DEF ReadOf
    <3>2. txn[c].ptrs[l] \notin freed
      BY <2>2, TopKept
    <3> QED BY <1>2, <2>0, <2>2, <3>1, <3>2, AheadKept
  <2> QED BY <1>4, <2>3, <2>4, <2>5 DEF InScan
<1>5. ASSUME edge_label_ptr # NULLPOINTER, NEW i \in DOMAIN labels[edge_label_ptr].entries
      PROVE  Chain(blocks, labels[edge_label_ptr].entries[i].ptr) \cap freed = {}
  <2>1. PICK e, l : e = labels[edge_label_ptr].entries[i] /\ l = e.label
    OBVIOUS
  <2>2. l \in AnyLabel
    <3>1. edge_label_ptr \in DOMAIN labels
      BY <1>1, <1>5
    <3>2. labels[edge_label_ptr].entries \in Seq([label : AnyLabel, ptr : Nat])
      BY <1>1, <3>1, LabelFields
    <3>3. e \in [label : AnyLabel, ptr : Nat]
      BY <1>5, <2>1, <3>2, ElementIn
    <3>4. e.label \in AnyLabel
      BY <3>3
    <3> QED BY <2>1, <3>4
  <2>3. HeadOf(l) = e.ptr
    <3>1. \A j \in DOMAIN labels[edge_label_ptr].entries :
            labels[edge_label_ptr].entries[j].label = l =>
              Pointed(edge_label_ptr, l) = labels[edge_label_ptr].entries[j].ptr
      BY <1>1, <1>5, PointedType
    <3> QED BY <1>5, <2>1, <3>1 DEF HeadOf
  <2>4. Chain(blocks, e.ptr) \subseteq DOMAIN blocks \ freed
    BY <1>1, <2>2, <2>3 DEF Linked
  <2> QED BY <2>1, <2>4
<1> QED BY <1>3, <1>4, <1>5 DEF KeptUnlessOvertaken, UnlinkedFreed, InBlocks, InScan

\* Whatever commits, aborts and compacts under it, nobody reads a block that was given back but a scan that a copy
\* has overtaken, nobody reads a label block that was given back, and neither can be reached from the vertex: what an
\* abort frees was never linked for others, and what a compaction cuts off is below where every scan stops that came
\* from the top after the copies above it (the bound is the least of read_epoch_table).
THEOREM BlocksKept == Spec => []KeptUnlessOvertaken
PROOF
<1>1. Init => StoreInv /\ KeepInv
  BY StoreInit, KeepInit
<1>2. Inv /\ StoreInv /\ KeepInv /\ [Next]_vars => StoreInv' /\ KeepInv'
  BY StoreStep, KeepStep DEF Inv
<1>3. Inv /\ StoreInv /\ KeepInv => KeptUnlessOvertaken
  BY KeepBlocks DEF Inv
<1> QED BY <1>1, <1>2, <1>3, Invariance, PTL DEF Spec

=============================================================================
