------------------------------- MODULE LGEdges -------------------------------
(***************************************************************************)
(* LiveGraph's edges of one source vertex (src/transaction.cpp 212-686,    *)
(* include/core/edge_iterator.hpp, src/graph.cpp 108-182).  The vertex has *)
(* a block of labels; every label leads to a chain of edge blocks, newest  *)
(* first.  An edge block is an append-only log of entries with a creation  *)
(* and a deletion time; its tail says how many entries there are.  Writers *)
(* append beyond the tail under the vertex lock and move the tail when     *)
(* they commit; a full block is copied into a larger one; compaction       *)
(* copies a block without its dead entries.  Readers take no lock.         *)
(*                                                                         *)
(* Epochs come from LGEpochs, which LGCommitManager implements.  A client  *)
(* is a thread with the one transaction it has open.  Begins are one step  *)
(* and so is compaction's scan of the table of snapshots: LGTransactions   *)
(* takes these apart.  Blocks are known by their position and freed ones   *)
(* are only marked.  Edge data is the id of the transaction that wrote it. *)
(***************************************************************************)
EXTENDS LGEpochs, Integers, Sequences, FiniteSets

CONSTANTS ReadOnly,          \* clients whose transactions only read
          Label, Dst,        \* labels and destinations that clients use
          LoadedLabels,      \* the labels a batch loader has used, in order
          LoadedEdges,       \* what it wrote under each, as destinations in order
          EntrySize,         \* bytes of an edge: its EdgeEntry and its data
          COMPACTION_CYCLE,  \* a transaction with this many before it compacts
          Reverse,           \* what clients pass for reverse in get_edges
          MaxBlock,          \* bound: edge blocks ever made
          MaxOp,             \* bound: operations of a transaction
          Budgets            \* bounds to choose from: each client's transactions and the calls of Graph::compact

ASSUME EdgesAssumption ==
  /\ ReadOnly \subseteq Client /\ Reverse \subseteq BOOLEAN
  /\ EntrySize \in Nat /\ EntrySize >= 24 /\ COMPACTION_CYCLE \in Nat \ {0}
  /\ MaxBlock \in Nat /\ MaxOp \in Nat
  /\ Budgets \subseteq [txns : [Client -> Nat], compacts : Nat]

NULLPOINTER        == 0
ROLLBACK_TOMBSTONE == 1000000
NoTail             == -1          \* a block whose tail the transaction has not cached
NoCache            == -1          \* a label the transaction has not located
Absent             == -1          \* the data of an edge that is not there
Pointer            == 0 .. MaxBlock

Members(s) == {s[i] : i \in DOMAIN s}

\* What is loaded: destinations under different labels, the blocks of which are within the bound.
ASSUME LoadedAssumption ==
  /\ LoadedLabels \in Seq(Members(LoadedLabels)) /\ Len(LoadedLabels) <= MaxBlock
  /\ \A i, j \in DOMAIN LoadedLabels : LoadedLabels[i] = LoadedLabels[j] => i = j
  /\ \A l \in Members(LoadedLabels) : LoadedEdges[l] \in Seq(Members(LoadedEdges[l]))

\* What s has at the places in S, in its order.
Picked(s, S) ==
  LET pick[n \in 0 .. Len(s)] ==
        IF n = 0 THEN <<>> ELSE IF n \in S THEN Append(pick[n - 1], s[n]) ELSE pick[n - 1]
  IN  pick[Len(s)]

\* Every destination there may be an edge to.
AllDst == Dst \cup UNION {Members(LoadedEdges[l]) : l \in Members(LoadedLabels)}

VARIABLES
  transaction_id,                 \* the id counter
  vertex_futex,                   \* the vertex's lock word
  edge_label_ptr, labels,         \* its newest label block, and all label blocks
  blocks,                         \* all edge blocks
  freed, freedLabels,             \* those given back
  compact_table,                  \* has the client's thread the vertex in its compact table?
  pc, txn,                        \* each client's place and transaction
  scan,                           \* its get_edge or get_edges under way
  compaction,                     \* its compaction under way
  txns, compacts,                 \* what is left of the bounds
  committed                       \* history: the edges written by every commit

store == <<edge_label_ptr, labels, blocks, freed, freedLabels>>
bounds == <<txns, compacts>>
vars  == <<epochsVars, transaction_id, vertex_futex, store, compact_table, pc, txn, scan,
           compaction, bounds, committed>>

Goto(c, place) == pc' = [pc EXCEPT ![c] = place]
SetTxn(c, t)   == txn' = [txn EXCEPT ![c] = t]

\* The caches of a transaction: located blocks, tails, the words to stamp and the blocks it made.
\* mine is a history of its own writes.
NoTxn ==
  [id |-> 0, read |-> -1, ops |-> 0, locked |-> FALSE, ptrs |-> [l \in Label |-> NoCache],
   tails |-> [p \in Pointer |-> NoTail], stamps |-> <<>>, own |-> {}, epoch |-> 0,
   mine |-> [l \in Label |-> [d \in {} |-> Absent]]]
NoScan == [l |-> 0, want |-> {}, one |-> FALSE, reverse |-> FALSE, lb |-> NULLPOINTER, ptr |-> NULLPOINTER,
           num |-> 0, cursor |-> 0, found |-> <<>>]
NoCompaction == [bound |-> 0, todo |-> {}, again |-> FALSE, resume |-> "idle"]

\* Blocks have 1 << order bytes; from order 10 on, edge blocks end in a Bloom filter.
Bytes[order \in Nat] == IF order = 0 THEN 1 ELSE 2 * Bytes[order - 1]
SizeToOrder(size) == CHOOSE o \in 0 .. size : Bytes[o] >= size /\ (o > 0 => Bytes[o - 1] < size)
Filter(order)     == IF order < 10 THEN 0 ELSE Bytes[order - 4]

\* The order of a new block for n edges, and of a new label block for n labels.
BlockOrder(n) ==
  LET size   == 48 + n * EntrySize
      filter == Bytes[SizeToOrder(size) - 4]
  IN  SizeToOrder(IF size + filter >= Bytes[10] THEN size + filter ELSE size)
LabelOrder(n) == SizeToOrder(32 + 16 * n)

\* A slip: the filter's share is overlooked.
HasSpaceNoFilter(order, n) == 48 + (n + 1) * EntrySize <= Bytes[order]

\* has_space and its like in EdgeLabelBlockHeader::append: room for one more after n.
HasSpace(order, n)      == 48 + (n + 1) * EntrySize + Filter(order) <= Bytes[order]
HasLabelSpace(order, n) == 32 + (n + 1) * 16 <= Bytes[order]

Entry(d, creation, data) ==
  [dst |-> d, creation |-> creation, deletion |-> ROLLBACK_TOMBSTONE, data |-> data]

\* A destination the loader wrote again has its earlier entry deleted, at epoch 0 like all it does.
LoadedBlock(edges) ==
  [creation |-> 0, prev |-> NULLPOINTER, committed |-> 0, num |-> Len(edges),
   order |-> BlockOrder(Len(edges)),
   entries |-> [i \in DOMAIN edges |->
     [Entry(edges[i], 0, 0) EXCEPT !.deletion =
        IF \E j \in DOMAIN edges : j > i /\ edges[j] = edges[i] THEN 0 ELSE ROLLBACK_TOMBSTONE]]]

Init ==
  /\ EpochsInit
  /\ transaction_id = 0 /\ vertex_futex = 0
  /\ blocks = [i \in DOMAIN LoadedLabels |-> LoadedBlock(LoadedEdges[LoadedLabels[i]])]
  /\ IF LoadedLabels = <<>>
     THEN edge_label_ptr = NULLPOINTER /\ labels = <<>>
     ELSE /\ edge_label_ptr = 1
          /\ labels = <<[creation |-> 0, prev |-> NULLPOINTER, order |-> LabelOrder(Len(LoadedLabels)),
                         entries |-> [i \in DOMAIN LoadedLabels |-> [label |-> LoadedLabels[i], ptr |-> i]]]>>
  /\ freed = {} /\ freedLabels = {}
  /\ \E loader \in Client : compact_table = [c \in Client |-> c = loader /\ LoadedLabels # <<>>]
  /\ pc = [c \in Client |-> "idle"]
  /\ txn = [c \in Client |-> NoTxn]
  /\ scan = [c \in Client |-> NoScan]
  /\ compaction = [c \in Client |-> NoCompaction]
  /\ \E budget \in Budgets : txns = budget.txns /\ compacts = budget.compacts
  /\ committed = {[label |-> l, epoch |-> 0, read |-> 0,
                   writes |-> [d \in Members(LoadedEdges[l]) |-> 0]] : l \in Members(LoadedLabels)}

-----------------------------------------------------------------------------
(* Times, chains and blocks *)

\* cmp_timestamp <= 0, for a transaction, and cmp_timestamp < 0 or <= 0 for an epoch.
Visible(stamp, t)     == -stamp = t.id \/ (0 <= stamp /\ stamp <= t.read)
Before(stamp, epoch)  == 0 <= stamp /\ stamp < epoch
Until(stamp, epoch)   == 0 <= stamp /\ stamp <= epoch

\* An entry seen by a transaction: created for it and not deleted for it.
Live(e, t) == Visible(e.creation, t) /\ ~Visible(e.deletion, t)

\* The chain from p, whose newest block comes first (prev is always an earlier block).
Chain(chained, p) ==
  LET chain[q \in 0 .. Len(chained)] ==
        IF q = NULLPOINTER THEN {} ELSE {q} \cup chain[chained[q].prev]
  IN  chain[p]
Newest(S) == IF S = {} THEN NULLPOINTER ELSE CHOOSE p \in S : \A q \in S : q <= p

\* The pointer a label block has for a label.
Pointed(lb, l) ==
  IF lb = NULLPOINTER THEN NULLPOINTER
  ELSE LET S == {i \in DOMAIN labels[lb].entries : labels[lb].entries[i].label = l}
       IN  IF S = {} THEN NULLPOINTER ELSE labels[lb].entries[CHOOSE i \in S : TRUE].ptr

\* locate_edge_block: the newest block of the label that the transaction sees.
Locate(l, t) ==
  Newest({p \in Chain(blocks, Pointed(edge_label_ptr, l)) : Visible(blocks[p].creation, t)})

\* get_num_entries_data_length_cache, once a block is there.
NumEntries(t, p) == IF t.tails[p] # NoTail THEN t.tails[p] ELSE blocks[p].num

\* find_edge: the newest of the first n entries that is d and is live, else 0.
FindEdge(entries, n, d, t) ==
  LET S == {i \in 1 .. n : entries[i].dst = d /\ Live(entries[i], t)}
  IN  IF S = {} THEN 0 ELSE CHOOSE i \in S : \A j \in S : j <= i

-----------------------------------------------------------------------------
(* Begin *)

\* Loading the epoch and publishing it in read_epoch_table; now and then a transaction compacts first.
Begin(c) ==
  /\ pc[c] = "idle" /\ txns[c] > 0
  /\ LET id == IF c \in ReadOnly THEN ROLLBACK_TOMBSTONE - 1 ELSE transaction_id + 1 IN
       /\ SetTxn(c, [NoTxn EXCEPT !.id = id, !.read = visible])
       /\ transaction_id' = IF c \in ReadOnly THEN transaction_id ELSE id
       /\ IF c \notin ReadOnly /\ id % COMPACTION_CYCLE = 0
          THEN /\ Goto(c, "scan")
               /\ compaction' = [compaction EXCEPT ![c].bound = id, ![c].resume = "open"]
          ELSE Goto(c, "open") /\ UNCHANGED compaction
  /\ txns' = [txns EXCEPT ![c] = @ - 1]
  /\ UNCHANGED <<epochsVars, vertex_futex, store, compact_table, scan, compacts, committed>>

-----------------------------------------------------------------------------
(* get_edge (one destination wanted) and get_edges (all of them, in either direction).  The *)
(* iterator that get_edges returns is used up before the transaction's next call.            *)

Scanning(c, place, r) ==
  /\ Goto(c, place)
  /\ scan' = [scan EXCEPT ![c] = r]
  /\ UNCHANGED <<epochsVars, transaction_id, vertex_futex, store, compact_table, compaction,
                 bounds, committed>>

\* A transaction that writes reads the block in its cache.
GetEdges(c, l, want, one, reverse) ==
  /\ pc[c] = "open" /\ txn[c].ops < MaxOp
  /\ SetTxn(c, [txn[c] EXCEPT !.ops = @ + 1])
  /\ LET r == [NoScan EXCEPT !.l = l, !.want = want, !.one = one, !.reverse = reverse]
         p == txn[c].ptrs[l] IN
       IF p = NoCache THEN Scanning(c, "label", [r EXCEPT !.lb = edge_label_ptr])
                      ELSE Scanning(c, "tail", [r EXCEPT !.ptr = p])

ReadLabel(c) ==
  /\ pc[c] = "label"
  /\ Scanning(c, "walk", [scan[c] EXCEPT !.ptr = Pointed(scan[c].lb, scan[c].l), !.lb = NULLPOINTER])
  /\ UNCHANGED txn

\* Down the chain to the newest block of the snapshot.
Walk(c) ==
  /\ pc[c] = "walk"
  /\ LET p == scan[c].ptr IN
       IF p = NULLPOINTER THEN Scanning(c, "tail", scan[c])
       ELSE IF Visible(blocks[p].creation, txn[c]) THEN Scanning(c, "tail", scan[c])
       ELSE Scanning(c, "walk", [scan[c] EXCEPT !.ptr = blocks[p].prev])
  /\ UNCHANGED txn

LoadTail(c) ==
  /\ pc[c] = "tail"
  /\ LET p == scan[c].ptr IN
       IF p = NULLPOINTER THEN Scanning(c, "read", scan[c])
       ELSE Scanning(c, "entries", [scan[c] EXCEPT !.num = NumEntries(txn[c], p)])
  /\ UNCHANGED txn

\* One entry further, newest first unless reversed; get_edge stops at the first it finds.
NextEntry(c) ==
  /\ pc[c] = "entries"
  /\ LET r == scan[c] IN
       IF r.cursor = r.num THEN Scanning(c, "read", r)
       ELSE LET e    == blocks[r.ptr].entries[IF r.reverse THEN r.cursor + 1 ELSE r.num - r.cursor]
                hit  == Live(e, txn[c]) /\ e.dst \in r.want
                next == [r EXCEPT !.cursor = @ + 1,
                                  !.found = IF hit THEN Append(@, <<e.dst, e.data>>) ELSE @]
            IN  Scanning(c, IF hit /\ r.one THEN "read" ELSE "entries", next)
  /\ UNCHANGED txn

\* The caller has what scan[c].found says.
Return(c) == pc[c] = "read" /\ Scanning(c, "open", NoScan) /\ UNCHANGED txn

-----------------------------------------------------------------------------
(* put_edge and del_edge, whole under the vertex lock: readers see no entry beyond the tail. *)

\* ensure_no_confict, once per label: the newest block was written after the snapshot.
Conflict(t, l) ==
  LET p == Pointed(edge_label_ptr, l)
  IN  t.ptrs[l] = NoCache /\ (IF p = NULLPOINTER THEN FALSE ELSE ~Visible(blocks[p].committed, t))

Located(t, l) == IF t.ptrs[l] # NoCache THEN t.ptrs[l] ELSE Locate(l, t)

\* A word of an edge block or label block that commit stamps with the epoch.
Word(field, p, i) == [field |-> field, p |-> p, i |-> i]

\* The entries a larger block takes over.
Kept(p, n, t) ==
  IF p = NULLPOINTER THEN <<>>
  ELSE Picked(blocks[p].entries, {i \in 1 .. n : ~Visible(blocks[p].entries[i].deletion, t)})

\* Its own entries among them are stamped in the copy as well as in the old block.
OwnWords(p, entries, t) ==
  Picked([i \in DOMAIN entries |-> Word("creation", p, i)],
         {i \in DOMAIN entries : entries[i].creation = -t.id})

\* The lock, which try_lock_for may also fail to get in time: then nothing has changed.
Operate(c) ==
  /\ pc[c] = "open" /\ c \notin ReadOnly /\ txn[c].ops < MaxOp
  /\ txn[c].locked \/ vertex_futex = 0
  /\ vertex_futex' = 1
  /\ UNCHANGED <<epochsVars, transaction_id, edge_label_ptr, labels, freed, freedLabels, pc, scan,
                 compaction, bounds, committed>>

\* What a call leaves of the transaction before it looks at edges.
Locked(c) == [txn[c] EXCEPT !.ops = @ + 1, !.locked = TRUE]

Wrote(c, t, l, d, p, n, words, data) ==
  /\ SetTxn(c, [t EXCEPT !.ptrs[l] = p, !.tails[p] = n, !.stamps = @ \o words,
                         !.mine[l] = [x \in DOMAIN @ \cup {d} |-> IF x = d THEN data ELSE @[x]]])
  /\ compact_table' = [compact_table EXCEPT ![c] = TRUE]

Grows(t, p) == IF p = NULLPOINTER THEN TRUE ELSE ~HasSpace(blocks[p].order, NumEntries(t, p))

\* The found entry is marked deleted and the new one appended.
PutIn(c, t, l, d, p, n, chained, words) ==
  LET old     == FindEdge(chained[p].entries, n, d, t)
      marked  == IF old = 0 THEN chained[p].entries
                            ELSE [chained[p].entries EXCEPT ![old].deletion = -t.id]
  IN  /\ blocks' = [chained EXCEPT ![p].entries = Append(SubSeq(marked, 1, n), Entry(d, -t.id, t.id))]
      /\ Wrote(c, t, l, d, p, n + 1,
               words \o (IF old = 0 THEN <<>> ELSE <<Word("deletion", p, old)>>)
                     \o <<Word("creation", p, n + 1)>>, t.id)

\* With force_insert FALSE, its default, which is all that callers pass: TRUE is the caller's word that there is no
\* edge yet, and only skips the look for it in PutIn (transaction.cpp:432).
PutEdge(c, l, d) ==
  LET t == Locked(c)
      p == Located(t, l)
      n == IF p = NULLPOINTER THEN 0 ELSE NumEntries(t, p)
  IN
  /\ Operate(c)
  /\ IF Conflict(t, l)
     THEN SetTxn(c, t) /\ UNCHANGED <<blocks, compact_table>>     \* it throws, and keeps the lock
     ELSE IF ~Grows(t, p) THEN PutIn(c, t, l, d, p, n, blocks, <<>>)
     ELSE LET new  == Len(blocks) + 1
              kept == Kept(p, n, t)
          IN  /\ new <= MaxBlock
              /\ PutIn(c, [t EXCEPT !.own = @ \cup {new}], l, d, new, Len(kept),
                       Append(blocks, [creation |-> -t.id, prev |-> p, committed |-> -t.id,
                                       num |-> Len(kept), order |-> BlockOrder(n + 1), entries |-> kept]),
                       <<Word("block", new, 0)>> \o OwnWords(new, kept, t))

\* Without a block there is nothing to do; otherwise the tail is kept, to have commit change committed_time.
DelEdge(c, l, d) ==
  LET t == Locked(c)
      p == Located(t, l)
  IN
  /\ Operate(c)
  /\ IF Conflict(t, l) THEN SetTxn(c, t) /\ UNCHANGED <<blocks, compact_table>>
     ELSE IF p = NULLPOINTER THEN SetTxn(c, [t EXCEPT !.ptrs[l] = p]) /\ UNCHANGED <<blocks, compact_table>>
     ELSE LET n   == NumEntries(t, p)
              old == FindEdge(blocks[p].entries, n, d, t)
          IN  /\ blocks' = IF old = 0 THEN blocks ELSE [blocks EXCEPT ![p].entries[old].deletion = -t.id]
              /\ Wrote(c, t, l, d, p, n, IF old = 0 THEN <<>> ELSE <<Word("deletion", p, old)>>, Absent)

-----------------------------------------------------------------------------
(* Commit *)

Commit(c) ==
  /\ pc[c] = "open" /\ c \notin ReadOnly
  /\ Ask(c) /\ Goto(c, "registered")
  /\ UNCHANGED <<transaction_id, vertex_futex, store, compact_table, txn, scan, compaction, bounds, committed>>

\* The server's part: a group is given its epoch.
RegisterGroup(G) ==
  /\ Grant(G)
  /\ pc' = [c \in Client |-> IF c \in G THEN "install" ELSE pc[c]]
  /\ txn' = [c \in Client |-> IF c \in G THEN [txn[c] EXCEPT !.epoch = sealed + 1] ELSE txn[c]]
  /\ committed' = committed \cup
       UNION {{[label |-> l, epoch |-> sealed + 1, read |-> txn[c].read, writes |-> txn[c].mine[l]]
               : l \in {l \in Label : DOMAIN txn[c].mine[l] # {}}} : c \in G}
  /\ UNCHANGED <<transaction_id, vertex_futex, store, compact_table, scan, compaction, bounds>>

Tails(t)   == {p \in Pointer \ {NULLPOINTER} : t.tails[p] # NoTail}
Pending(t) == {l \in Label : t.ptrs[l] # NoCache}

Committing(c) ==
  /\ pc[c] = "install"
  /\ UNCHANGED <<epochsVars, transaction_id, vertex_futex, freed, freedLabels, compact_table, scan, compaction,
                 bounds, committed>>

\* A slip: the committed time keeps its old value.
InstallTailOnly(c, p) ==
  /\ Committing(c) /\ p \in Tails(txn[c])
  /\ blocks' = [blocks EXCEPT ![p].num = txn[c].tails[p]]
  /\ SetTxn(c, [txn[c] EXCEPT !.tails[p] = NoTail])
  /\ UNCHANGED <<pc, edge_label_ptr, labels>>

\* The loop over the cached tails: the 16-byte store, and the committed time to be stamped.
InstallTail(c, p) ==
  /\ Committing(c) /\ p \in Tails(txn[c])
  /\ blocks' = [blocks EXCEPT ![p].num = txn[c].tails[p], ![p].committed = -txn[c].id]
  /\ SetTxn(c, [txn[c] EXCEPT !.tails[p] = NoTail, !.stamps = Append(@, Word("committed", p, 0))])
  /\ UNCHANGED <<pc, edge_label_ptr, labels>>

LabelAt(lb, l) == IF lb = NULLPOINTER THEN {} ELSE {i \in DOMAIN labels[lb].entries : labels[lb].entries[i].label = l}

\* update_edge_label_block: in place, appended, or in a new label block put on top.
UpdateLabel(c, t, l, p) ==
  LET lb == edge_label_ptr
      n  == IF lb = NULLPOINTER THEN 0 ELSE Len(labels[lb].entries)
      entry == [label |-> l, ptr |-> p]
  IN  IF LabelAt(lb, l) # {}
      THEN /\ labels' = [labels EXCEPT ![lb].entries[CHOOSE i \in LabelAt(lb, l) : TRUE].ptr = p]
           /\ SetTxn(c, t) /\ UNCHANGED edge_label_ptr
      ELSE IF (IF lb = NULLPOINTER THEN FALSE ELSE HasLabelSpace(labels[lb].order, n))
      THEN /\ labels' = [labels EXCEPT ![lb].entries = Append(@, entry)]
           /\ SetTxn(c, t) /\ UNCHANGED edge_label_ptr
      ELSE /\ labels' = Append(labels, [creation |-> -t.id, prev |-> lb, order |-> LabelOrder(n + 1),
                 entries |-> Append(IF lb = NULLPOINTER THEN <<>> ELSE labels[lb].entries, entry)])
           /\ edge_label_ptr' = Len(labels) + 1
           /\ SetTxn(c, [t EXCEPT !.stamps = Append(@, Word("label", Len(labels) + 1, 0))])

\* The loop over edge_ptr_cache.
InstallLabel(c, l) ==
  LET t == [txn[c] EXCEPT !.ptrs[l] = NoCache] IN
  /\ Committing(c) /\ Tails(txn[c]) = {} /\ l \in Pending(txn[c])
  /\ IF txn[c].ptrs[l] # Locate(l, txn[c])
     THEN UpdateLabel(c, t, l, txn[c].ptrs[l])
     ELSE SetTxn(c, t) /\ UNCHANGED <<labels, edge_label_ptr>>
  /\ UNCHANGED <<pc, blocks>>

\* One word of a block takes a time.
SetWord(chained, w, time) ==
  CASE w.field = "block"     -> [chained EXCEPT ![w.p].creation = time]
    [] w.field = "committed" -> [chained EXCEPT ![w.p].committed = time]
    [] w.field = "creation"  -> [chained EXCEPT ![w.p].entries[w.i].creation = time]
    [] w.field = "deletion"  -> [chained EXCEPT ![w.p].entries[w.i].deletion = time]
    [] OTHER                 -> chained

\* The loop over timestamps_to_update.
Stamp(c) ==
  LET t == txn[c] IN
  /\ Committing(c) /\ Tails(t) = {} /\ Pending(t) = {} /\ t.stamps # <<>>
  /\ LET w == Head(t.stamps) IN
       /\ blocks' = SetWord(blocks, w, t.epoch)
       /\ labels' = IF w.field = "label" THEN [labels EXCEPT ![w.p].creation = t.epoch] ELSE labels
  /\ SetTxn(c, [t EXCEPT !.stamps = Tail(@)])
  /\ UNCHANGED <<pc, edge_label_ptr>>

\* What rolling back leaves of a time, and of an entry of block p.
RolledBack(time, w, words) == IF w \in words THEN ROLLBACK_TOMBSTONE ELSE time
RolledEntry(e, p, i, words) ==
  [e EXCEPT !.creation = RolledBack(@, Word("creation", p, i), words),
            !.deletion = RolledBack(@, Word("deletion", p, i), words)]

\* abort, also the end of a transaction that only reads: every word is rolled back, its blocks freed.
Abort(c) ==
  LET words == Members(txn[c].stamps) IN
  /\ pc[c] = "open"
  /\ blocks' = [p \in DOMAIN blocks |->
       [blocks[p] EXCEPT
          !.creation = RolledBack(@, Word("block", p, 0), words),
          !.entries = [i \in DOMAIN @ |-> RolledEntry(@[i], p, i, words)]]]
  /\ freed' = freed \cup txn[c].own
  /\ Goto(c, "clean")
  /\ UNCHANGED <<epochsVars, transaction_id, vertex_futex, edge_label_ptr, labels, freedLabels, compact_table, txn,
                 scan, compaction, bounds, committed>>

\* clean, when all is stamped or rolled back: first the lock, then the place in read_epoch_table.
Clean(c) ==
  LET t == txn[c] IN
  /\ pc[c] = "clean" \/ (pc[c] = "install" /\ Tails(t) = {} /\ Pending(t) = {} /\ t.stamps = <<>>)
  /\ vertex_futex' = IF t.locked THEN 0 ELSE vertex_futex
  /\ Goto(c, "leave")
  /\ UNCHANGED <<epochsVars, transaction_id, store, compact_table, txn, scan, compaction, bounds, committed>>

Leave(c) ==
  /\ pc[c] = "leave"
  /\ SetTxn(c, [NoTxn EXCEPT !.epoch = txn[c].epoch])
  /\ Goto(c, IF stage[c] = "granted" THEN "finish" ELSE "idle")
  /\ UNCHANGED <<epochsVars, transaction_id, vertex_futex, store, compact_table, scan, compaction, bounds, committed>>

\* finish_commit, and its wait for the epoch if the caller asked for it.
FinishCommit(c, wait_visable) ==
  /\ pc[c] = "finish" /\ Finish(c)
  /\ Goto(c, IF wait_visable THEN "spin" ELSE "idle")
  /\ UNCHANGED <<transaction_id, vertex_futex, store, compact_table, txn, scan, compaction, bounds, committed>>

Spin(c) ==
  /\ pc[c] = "spin" /\ visible >= txn[c].epoch
  /\ Goto(c, "idle")
  /\ UNCHANGED <<epochsVars, transaction_id, vertex_futex, store, compact_table, txn, scan, compaction, bounds, committed>>

Publish ==
  /\ MakeVisible
  /\ UNCHANGED <<transaction_id, vertex_futex, store, compact_table, pc, txn, scan, compaction, bounds, committed>>

-----------------------------------------------------------------------------
(* Compaction of the vertex, label by label under its lock; the others meanwhile only read. *)

Compacting(c, place, r) ==
  /\ Goto(c, place)
  /\ compaction' = [compaction EXCEPT ![c] = r]
  /\ UNCHANGED <<epochsVars, transaction_id, txn, scan, txns, committed>>

\* The application calls Graph::compact between its transactions.
Compact(c) ==
  /\ pc[c] = "idle" /\ compacts > 0
  /\ compacts' = compacts - 1
  /\ Compacting(c, "scan", [NoCompaction EXCEPT !.bound = visible])
  /\ UNCHANGED <<vertex_futex, store, compact_table>>

\* The bound: the oldest snapshot in use, if it is older than what compact was called with.
Snapshots == {txn[d].read : d \in {d \in Client : txn[d].read # -1}}
ScanTable(c) ==
  LET S == Snapshots \cup {compaction[c].bound} IN
  /\ pc[c] = "scan"
  /\ Compacting(c, IF compact_table[c] THEN "lock" ELSE compaction[c].resume,
                [compaction[c] EXCEPT !.bound = CHOOSE e \in S : \A f \in S : e <= f])
  /\ UNCHANGED <<vertex_futex, store, compact_table, compacts>>

\* The blocks of a chain under the first from before the bound; whether there is more for later.
Cut(chained, p, bound) == Newest({q \in Chain(chained, p) : Before(chained[q].creation, bound)})
Garbage(chained, p, bound) ==
  LET cut == Cut(chained, p, bound)
  IN  IF cut = NULLPOINTER THEN {} ELSE Chain(chained, chained[cut].prev)
CutUnder(chained, p, bound) ==
  [q \in DOMAIN chained |->
     IF q = Cut(chained, p, bound) THEN [chained[q] EXCEPT !.prev = NULLPOINTER] ELSE chained[q]]
NeedsFuture(chained, p, bound) ==
  IF p = NULLPOINTER THEN FALSE
  ELSE ~Before(chained[p].creation, bound) /\ chained[p].prev # NULLPOINTER

\* The lock, and the chain of label blocks.
CompactLabels(c) ==
  LET b == compaction[c].bound
      lb == edge_label_ptr
  IN
  /\ pc[c] = "lock" /\ vertex_futex = 0
  /\ vertex_futex' = 1
  /\ labels' = CutUnder(labels, lb, b)
  /\ freedLabels' = freedLabels \cup Garbage(labels, lb, b)
  /\ Compacting(c, "compact", [compaction[c] EXCEPT
       !.todo = IF lb = NULLPOINTER THEN {} ELSE DOMAIN labels[lb].entries,
       !.again = NeedsFuture(labels, lb, b)])
  /\ UNCHANGED <<edge_label_ptr, blocks, freed, compact_table, compacts>>

\* The lock does not come in time: another time.
CompactSkip(c) ==
  /\ pc[c] = "lock" /\ vertex_futex = 1
  /\ Compacting(c, compaction[c].resume, NoCompaction)
  /\ UNCHANGED <<vertex_futex, store, compact_table, compacts>>

\* A slip: the copy takes only what is live at the bound.
SurvivorsLive(p, bound) ==
  LET e == blocks[p].entries
  IN  Picked(e, {i \in 1 .. blocks[p].num : Until(e[i].creation, bound) /\ ~Until(e[i].deletion, bound)})

\* The entries that somebody may still need.
Survivors(p, bound) ==
  Picked(blocks[p].entries, {i \in 1 .. blocks[p].num : ~Until(blocks[p].entries[i].deletion, bound)})

\* A slip: the copy is not chained to the block it replaces, which is given back.
CopyBlockAlone(c, i, p, kept) ==
  /\ blocks' = Append(blocks, [blocks[p] EXCEPT !.creation = compaction[c].bound, !.prev = NULLPOINTER,
                                 !.num = Len(kept), !.order = BlockOrder(Len(kept)), !.entries = kept])
  /\ labels' = [labels EXCEPT ![edge_label_ptr].entries[i].ptr = Len(blocks) + 1]
  /\ freed' = freed \cup {p}

\* The copy is stamped with the bound, keeps the committed time and goes on top of the block.
CopyBlock(c, i, p, kept) ==
  LET b == compaction[c].bound IN
  /\ blocks' = Append(CutUnder(blocks, p, b),
                      [blocks[p] EXCEPT !.creation = b, !.prev = p, !.num = Len(kept),
                                        !.order = BlockOrder(Len(kept)), !.entries = kept])
  /\ labels' = [labels EXCEPT ![edge_label_ptr].entries[i].ptr = Len(blocks) + 1]
  /\ freed' = freed \cup Garbage(blocks, p, b)

\* One label: its chain is cut; the newest block is copied if entries of it are dead.
CompactLabel(c, i) ==
  LET r    == compaction[c]
      p    == labels[edge_label_ptr].entries[i].ptr
      kept == Survivors(p, r.bound)
  IN
  /\ pc[c] = "compact" /\ i \in r.todo
  /\ IF Len(kept) = blocks[p].num
     THEN /\ blocks' = CutUnder(blocks, p, r.bound)
          /\ freed' = freed \cup Garbage(blocks, p, r.bound)
          /\ UNCHANGED labels
     ELSE /\ Len(blocks) < MaxBlock
          /\ CopyBlock(c, i, p, kept)
  /\ Compacting(c, "compact", [r EXCEPT !.todo = @ \ {i},
       !.again = @ \/ Len(kept) # blocks[p].num \/ NeedsFuture(blocks, p, r.bound)])
  /\ UNCHANGED <<vertex_futex, edge_label_ptr, freedLabels, compact_table, compacts>>

Compacted(c) ==
  /\ pc[c] = "compact" /\ compaction[c].todo = {}
  /\ vertex_futex' = 0
  /\ compact_table' = [compact_table EXCEPT ![c] = compaction[c].again]
  /\ Compacting(c, compaction[c].resume, NoCompaction)
  /\ UNCHANGED <<store, compacts>>

-----------------------------------------------------------------------------
(* The system *)

Reading(c) == ReadLabel(c) \/ Walk(c) \/ LoadTail(c) \/ NextEntry(c) \/ Return(c)

Ending(c) ==
  \/ \E p \in Pointer : InstallTail(c, p)
  \/ \E l \in Label : InstallLabel(c, l)
  \/ Stamp(c) \/ Clean(c) \/ Leave(c) \/ Spin(c)
  \/ \E wait_visable \in BOOLEAN : FinishCommit(c, wait_visable)

Compactor(c) ==
  \/ ScanTable(c) \/ CompactLabels(c) \/ CompactSkip(c) \/ Compacted(c)
  \/ \E i \in compaction[c].todo : CompactLabel(c, i)

Call(c) ==
  \/ Begin(c) \/ Commit(c) \/ Abort(c) \/ Compact(c)
  \/ \E l \in Label :
       \/ \E reverse \in Reverse : GetEdges(c, l, AllDst, FALSE, reverse)
       \/ \E d \in Dst : GetEdges(c, l, {d}, TRUE, FALSE) \/ PutEdge(c, l, d) \/ DelEdge(c, l, d)

Next ==
  \/ \E c \in Client : Call(c) \/ Reading(c) \/ Ending(c) \/ Compactor(c)
  \/ \E G \in SUBSET Client : RegisterGroup(G)
  \/ Publish

Spec == Init /\ [][Next]_vars

-----------------------------------------------------------------------------
(* Properties *)

Times == (-transaction_id .. sealed) \cup {ROLLBACK_TOMBSTONE}

\* Types.  A tail never passes the entries written, these never run into the block's filter, and an entry's
\* times are never 0 once the loader is done: 0 would be in every snapshot.
TypeOK ==
  LET times == Times IN
  /\ vertex_futex \in {0, 1} /\ edge_label_ptr \in 0 .. Len(labels)
  /\ \A p \in DOMAIN blocks :
       LET b == blocks[p] IN
       /\ b.creation \in times /\ b.committed \in times /\ b.prev \in 0 .. p - 1
       /\ b.num <= Len(b.entries) /\ 48 + Len(b.entries) * EntrySize + Filter(b.order) <= Bytes[b.order]
       /\ \A i \in DOMAIN b.entries :
            LET e == b.entries[i] IN
            /\ e.dst \in AllDst /\ e.data \in 0 .. transaction_id
            /\ e.creation \in times /\ e.deletion \in times
            /\ e.creation = 0 => e.data = 0
  /\ \A q \in DOMAIN labels :
       /\ labels[q].creation \in times /\ labels[q].prev \in 0 .. q - 1
       /\ 32 + Len(labels[q].entries) * 16 <= Bytes[labels[q].order]
       /\ \A i \in DOMAIN labels[q].entries : labels[q].entries[i].ptr \in DOMAIN blocks
  /\ freed \subseteq DOMAIN blocks /\ freedLabels \subseteq DOMAIN labels
  /\ \A c \in Client :
       /\ txn[c].read \in -1 .. visible /\ txn[c].own \subseteq DOMAIN blocks
       /\ scan[c].ptr \in 0 .. Len(blocks) /\ scan[c].lb \in 0 .. Len(labels)

\* What transaction t must see at d under l: its own last write, else the newest commit's of its snapshot.
Wrote0(t, l, d) == {x \in committed : x.label = l /\ x.epoch <= t.read /\ d \in DOMAIN x.writes}
Expected(t, l, d) ==
  IF d \in DOMAIN t.mine[l] THEN t.mine[l][d]
  ELSE LET S == Wrote0(t, l, d)
       IN  IF S = {} THEN Absent ELSE (CHOOSE x \in S : \A y \in S : y.epoch <= x.epoch).writes[d]

\* Places where a scan has blocks to read.
InBlocks(c) == pc[c] \in {"label", "walk", "tail", "entries"}

\* A compaction has put a copy with a time before the scan's snapshot above the block the scan is at: a scan
\* that starts now goes to the copy, and the next compaction may cut the chain under it.
Overtaken(c) ==
  \E q \in Chain(blocks, Pointed(edge_label_ptr, scan[c].l)) :
    q > scan[c].ptr /\ Before(blocks[q].creation, txn[c].read)

\* get_edge and get_edges give exactly the edges of the snapshot, each once and with the data last
\* written to it, whatever commits, aborts, growing blocks and compactions happen under the scan, also when
\* it reads on in a block that has been copied, as long as nobody gave back the block it ended in.
SnapshotEdges ==
  \A c \in Client : pc[c] = "read" /\ scan[c].ptr \notin freed =>
    LET r == scan[c] IN
    /\ Members(r.found) = {<<d, Expected(txn[c], r.l, d)>> : d \in {d \in r.want : Expected(txn[c], r.l, d) # Absent}}
    /\ Len(r.found) = Cardinality(Members(r.found))

\* Nothing that was given back can be reached from the vertex.
UnlinkedFreed ==
  /\ Chain(labels, edge_label_ptr) \cap freedLabels = {}
  /\ edge_label_ptr # NULLPOINTER => \A i \in DOMAIN labels[edge_label_ptr].entries :
       Chain(blocks, labels[edge_label_ptr].entries[i].ptr) \cap freed = {}

\* What compact says of the blocks it frees, "garbage": nobody reads a block that was given back, and
\* nobody can reach one.
ReadersKeepBlocks ==
  /\ \A c \in Client : InBlocks(c) => scan[c].ptr \notin freed /\ scan[c].lb \notin freedLabels
  /\ UnlinkedFreed

\* Nobody reads a block that was given back, but for a scan that a copy has overtaken; nobody reads a label block
\* that was given back, overtaken or not, nor can anyone reach such a block of either kind from the vertex.
KeptUnlessOvertaken ==
  /\ \A c \in Client : InBlocks(c) =>
       (scan[c].ptr \in freed => Overtaken(c)) /\ scan[c].lb \notin freedLabels
  /\ UnlinkedFreed

\* Of two commits that wrote edges of one label, one had the other in its snapshot.
NoLostUpdate ==
  \A x, y \in committed : x.label = y.label /\ x # y => x.epoch <= y.read \/ y.epoch <= x.read
=============================================================================
