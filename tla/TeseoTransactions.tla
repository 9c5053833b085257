------------------------- MODULE TeseoTransactions -------------------------
(* Transactions of Teseo (src/sys/teseo) on an undirected graph.  An item of  *)
(* the memstore, a vertex or one direction of an edge, holds its newest value *)
(* in place and a chain of undo records, newest first, each with its owner and*)
(* the value it replaced.  A transaction is visible by its owner's id, which  *)
(* is the start time while it is pending and the commit time afterwards.      *)
(* Background threads prune the chains by a cached sequence of active ids.    *)
(* The items of a vertex share a segment: a critical section under its        *)
(* exclusive lock is one step, and an optimistic reader of the segment starts *)
(* again if one came in between.                                              *)
EXTENDS Integers, Sequences, FiniteSets, FiniteSetsExt, SequencesExt

CONSTANTS
  Txn,               \* transactions; each begins at most once
  ReadOnly,          \* those created with read_only
  Thread,            \* thread contexts
  ThreadOf,          \* the thread that runs a transaction
  Background,        \* the threads that rebalance and merge, and so prune
  Vertex,            \* internal vertex ids, from 1
  LoadedVertices,    \* the vertices of the graph at the start
  LoadedEdges,       \* its edges, pairs of loaded vertices in both directions
  MAX_UNDO_LENGTH,   \* a write to an item with this many records prunes it first
  PreemptedBegins,   \* may others step between a begin's drawing its id and storing it?
  PreemptedCommits,  \* may others step between a commit's drawing its id and storing it?
  Unended,           \* transactions that stay open to the end of a behaviour
  Target,            \* the keys, vertices and edges in one direction, its calls name
  MaxOp,             \* calls of a transaction that are not its end
  MaxRefresh,        \* sequences of active ids that the background threads ask for
  Loader,            \* the transaction that inserted the graph, and has committed
  None               \* no value

ASSUME TeseoAssumption ==
  /\ ReadOnly \subseteq Txn
  /\ ThreadOf \in [Txn -> Thread]
  /\ Background \subseteq Thread
  /\ Vertex \subseteq Nat \ {0}
  /\ LoadedVertices \subseteq Vertex
  /\ LoadedEdges \subseteq LoadedVertices \X LoadedVertices
  /\ \A e \in LoadedEdges : e[1] # e[2] /\ <<e[2], e[1]>> \in LoadedEdges
  /\ Target \in [Txn -> SUBSET (Vertex \X (Vertex \cup {0}))]
  /\ \A t \in Txn : \A k \in Target[t] : k[1] # k[2]
  /\ Unended \subseteq Txn
  /\ MAX_UNDO_LENGTH \in Nat \ {0}
  /\ PreemptedBegins \in BOOLEAN /\ PreemptedCommits \in BOOLEAN
  /\ MaxOp \in [Txn -> Nat] /\ MaxRefresh \in Nat
  /\ None \notin Txn \cup {Loader} /\ Loader \notin Txn

VARIABLES
  counter,  \* m_txn_global_counter
  id,       \* m_transaction_id
  state,    \* m_state
  undo,     \* the items of a transaction's active undo records, oldest first
  refs,     \* m_ref_count_system
  listed,   \* the transactions in the transaction lists of the threads
  item,     \* of each key: the value in place, its undo chain and m_undo_length
  locked,   \* the vertices with m_lock set
  seen,     \* of each thread: the counter read by active_transactions, 0 outside it
  cache,    \* m_tx_seq: the cached sequence of active ids, <<>> when there is none
  asked,    \* sequences the background threads have asked for
  pc, call, \* where each transaction is in which call
  ops,      \* calls made
  history,  \* of each key: its commits in order, with both ids and the value
  misread   \* has a read returned anything but what its snapshot holds?

vars == <<counter, id, state, undo, refs, listed, item, locked, seen, cache, asked, pc,
          call, ops, history, misread>>
data == <<item, undo, refs>>          \* what a write to the memstore changes

\* numeric_limits<uint64_t>::max() >> 1, which no id reaches.
Half == 1000

VertexKey(v) == <<v, 0>>
Key  == {VertexKey(v) : v \in Vertex} \cup {e \in Vertex \X Vertex : e[1] # e[2]}
IsEdge(k) == k[2] # 0
Opposite(k) == <<k[2], k[1]>>
Segment(v) == {k \in Key : k[1] = v}

LoadedKeys == LoadedEdges \cup {VertexKey(v) : v \in LoadedVertices}

NoCall == [key |-> None, at |-> 0, n |-> 0, todo |-> <<>>, failed |-> FALSE, got |-> None]

\* The loader has drawn 1 and 2; nothing has pruned its records.
Init ==
  /\ counter = 3
  /\ id = [t \in Txn \cup {Loader} |-> IF t = Loader THEN 2 ELSE 2 * Half]
  /\ state = [t \in Txn \cup {Loader} |-> IF t = Loader THEN "committed" ELSE "pending"]
  /\ undo = [t \in Txn |-> <<>>]
  /\ refs = [t \in Txn \cup {Loader} |-> IF t = Loader THEN 1 + Cardinality(LoadedKeys) ELSE 1]
  /\ listed = {}
  /\ item = [k \in Key |->
       IF k \in LoadedKeys
       THEN [value |-> Loader, chain |-> <<[owner |-> Loader, payload |-> None]>>, length |-> 1]
       ELSE [value |-> None, chain |-> <<>>, length |-> 0]]
  /\ locked = {}
  /\ seen = [h \in Thread |-> 0]
  /\ cache = [h \in Thread |-> <<>>]
  /\ asked = 0
  /\ pc = [t \in Txn |-> "new"]
  /\ call = [t \in Txn |-> NoCall]
  /\ ops = [t \in Txn |-> 0]
  /\ misread = FALSE
  /\ history = [k \in Key |->
       IF k \in LoadedKeys THEN <<[id |-> 2, start |-> 1, value |-> Loader]>> ELSE <<>>]
-----------------------------------------------------------------------------
\* Steps that others do not cut in two unless the constants say so.
Uncut(u) ==
  \/ pc[u] = "begin" /\ ~ PreemptedBegins
  \/ pc[u] = "publish" /\ ~ PreemptedCommits

\* t is at p, and may go on.
At(t, p) == pc[t] = p /\ \A u \in Txn \ {t} : ~ Uncut(u)
-----------------------------------------------------------------------------
(* What a transaction may read and write. *)

\* ts_write, which is also the transaction_id of an undo record.
TsWrite(t) == IF state[t] = "pending" THEN id[t] + Half ELSE id[t]

Chain(k) == item[k].chain
OwnerTs(k, i) == TsWrite(Chain(k)[i].owner)

\* A slip: any committed owner may be overwritten, also one that committed after t began.
CanWriteCommitted(t, k) ==
  \/ Chain(k) = <<>>
  \/ Chain(k)[1].owner = t
  \/ state[Chain(k)[1].owner] # "pending"

CanWrite(t, k) ==
  \/ Chain(k) = <<>>
  \/ Chain(k)[1].owner = t
  \/ id[t] > OwnerTs(k, 1)

\* The newest value is the one in place.
InPlace(t, k) ==
  \/ Chain(k) = <<>>
  \/ Chain(k)[1].owner = t
  \/ OwnerTs(k, 1) <= id[t]

\* The walk along the chain ends at record i.
StopsAt(t, k, i) == i = Len(Chain(k)) \/ ~ (id[t] < OwnerTs(k, i + 1))

\* can_read, evaluated at one moment.
View(t, k) ==
  IF InPlace(t, k) THEN item[k].value
  ELSE Chain(k)[Min({i \in 1..Len(Chain(k)) : StopsAt(t, k, i)})].payload

Visible(t, k) == View(t, k) # None
-----------------------------------------------------------------------------
(* Pruning. *)

\* The first position of sequence a, from m on, with an id below ts; past its end if none.
NextBelow(a, m, ts) == Min({j \in m..Len(a) : a[j] < ts} \cup {Len(a) + 1})

\* Undo::prune on the chain of k with the sequence a of active ids: the records it keeps, first
\* those that are not older than the whole sequence, then for each older id the last record
\* above it; and those whose owner loses a reference.  The loop's state is the last record to
\* keep, the candidate for the present id, the record behind it, and the place of that id.
Prune(k, a) ==
  LET n == Len(Chain(k))
      first == Min({i \in 1..n : OwnerTs(k, i) < a[1]} \cup {n + 1})
      start == IF first > n THEN Len(a) + 1 ELSE NextBelow(a, 1, OwnerTs(k, first))
      loop[s \in (0..n) \X (0..n) \X (1..n + 1) \X (1..Len(a))] ==
        LET parent == s[1]  current == s[2]  child == s[3]  m == s[4]
            next == NextBelow(a, m + 1, OwnerTs(k, child)) IN
        CASE child <= n /\ OwnerTs(k, child) > a[m] ->
               LET rest == loop[<<parent, child, child + 1, m>>] IN
               [rest EXCEPT !.freed = @ \cup ({current} \ {parent})]
          [] child > n -> [kept |-> {current}, freed |-> {}]
          [] child <= n /\ OwnerTs(k, child) <= a[m] /\ next > Len(a) ->
               [kept |-> {current}, freed |-> child..n]
          [] OTHER ->
               LET rest == loop[<<current, child, child + 1, next>>] IN
               [rest EXCEPT !.kept = @ \cup {current}]
  IN  IF start > Len(a) THEN [kept |-> 1..first - 1, freed |-> first..n]
      ELSE LET old == loop[<<first - 1, first - 1, first, start>>] IN
           [old EXCEPT !.kept = (@ \cup 1..first - 1) \ {0}]

\* An item after a prune.
Pruned(k, a) ==
  LET order == SetToSortSeq(Prune(k, a).kept, <)
      rest == [j \in DOMAIN order |-> Chain(k)[order[j]]]
  IN  [item[k] EXCEPT !.chain = rest, !.length = Min({Len(rest), MAX_UNDO_LENGTH})]

\* The undo records of t in the chains of the keys ks.
Records(t, ks) == UNION {{k} \X {i \in DOMAIN Chain(k) : Chain(k)[i].owner = t} : k \in ks}

\* A slip: only the records behind the last one kept give up their reference.
DroppedTail(t, ks, a) ==
  Cardinality({r \in Records(t, ks) : \A j \in Prune(r[1], a).kept : r[2] > j})

\* How many references of t a prune of the keys ks gives up.
Dropped(t, ks, a) == Cardinality({r \in Records(t, ks) : r[2] \in Prune(r[1], a).freed})
-----------------------------------------------------------------------------
(* The caches of active transactions.  The timer may drop a cached sequence at any moment, *)
(* so a thread that asks for the active transactions gets the cached ones or current ones. *)

\* A slip: readers are left out.
ActiveIdsOfWriters(c) ==
  <<c>> \o SetToSortSeq({id[t] : t \in {u \in listed \ ReadOnly : id[u] < c}}, >)

\* What active_transactions returns when it read the counter as c: the newest id first.
ActiveIds(c) == <<c>> \o SetToSortSeq({id[t] : t \in {u \in listed : id[u] < c}}, >)

\* A background thread without a cached sequence first reads the counter.
ReadCounter(h) ==
  /\ seen[h] = 0 /\ \A u \in Txn : ~ Uncut(u)
  /\ \E k \in Key : Chain(k) # <<>>
  /\ asked < MaxRefresh /\ asked' = asked + 1
  /\ seen' = [seen EXCEPT ![h] = counter]
  /\ cache' = [cache EXCEPT ![h] = <<>>]
  /\ UNCHANGED <<counter, id, state, listed, locked, pc, call, ops, history, misread, data>>

\* Then the lists of the threads.  A transaction that leaves while the lists are read is in
\* the result or not, as when it leaves before or after this step.
ReadLists(h) ==
  /\ seen[h] # 0 /\ \A u \in Txn : ~ Uncut(u)
  /\ cache' = [cache EXCEPT ![h] = ActiveIds(seen[h])]
  /\ seen' = [seen EXCEPT ![h] = 0]
  /\ UNCHANGED <<counter, id, state, listed, locked, asked, pc, call, ops, history, misread, data>>

\* Optimistic readers of segment v abort and start again at the head.
Abort(v) ==
  [t \in Txn |-> IF pc[t] = "walk" /\ call[t].key[1] = v THEN [call[t] EXCEPT !.at = 0]
                 ELSE call[t]]

\* The merger or a rebalance prunes the items of a segment.
PruneSegment(h, v) ==
  /\ cache[h] # <<>> /\ \A u \in Txn : ~ Uncut(u)
  /\ \E k \in Segment(v) : Chain(k) # <<>>
  /\ item' = [k \in Key |-> IF k \in Segment(v) THEN Pruned(k, cache[h]) ELSE item[k]]
  /\ refs' = [t \in Txn \cup {Loader} |-> refs[t] - Dropped(t, Segment(v), cache[h])]
  /\ call' = Abort(v)
  /\ UNCHANGED <<counter, id, state, undo, listed, locked, seen, cache, asked, pc, ops, history, misread>>
-----------------------------------------------------------------------------
(* Begin, commit and the end of a transaction. *)

Idle(t) ==
  /\ At(t, "idle")
  /\ \A u \in Txn \ {t} : ThreadOf[u] = ThreadOf[t] => pc[u] \in {"new", "idle", "ended"}

\* create_transaction puts the transaction in its thread's list and draws its id there,
\* and only afterwards stores the id in the transaction.
Begin(t) ==
  /\ At(t, "new")
  /\ \A u \in Txn : ThreadOf[u] = ThreadOf[t] => pc[u] \in {"new", "idle", "ended"}
  /\ counter' = counter + 1
  /\ listed' = listed \cup {t}
  /\ call' = [call EXCEPT ![t].n = counter]
  /\ pc' = [pc EXCEPT ![t] = "begin"]
  /\ UNCHANGED <<id, state, locked, seen, cache, asked, ops, history, misread, data>>

SetTransactionId(t) ==
  /\ At(t, "begin")
  /\ id' = [id EXCEPT ![t] = call[t].n]
  /\ pc' = [pc EXCEPT ![t] = "idle"]
  /\ call' = [call EXCEPT ![t] = NoCall]
  /\ UNCHANGED <<counter, state, listed, locked, seen, cache, asked, ops, history, misread, data>>

\* commit leaves the list first.
Commit(t) ==
  /\ Idle(t) /\ t \notin Unended
  /\ listed' = listed \ {t}
  /\ pc' = [pc EXCEPT ![t] = "commit"]
  /\ call' = [call EXCEPT ![t] = NoCall]
  /\ UNCHANGED <<counter, id, state, locked, seen, cache, asked, ops, history, misread, data>>

\* It then draws the commit time, and stores it and the state.
DrawCommitId(t) ==
  /\ At(t, "commit")
  /\ counter' = counter + 1
  /\ history' = [k \in Key |->
       IF k \in ToSet(undo[t])
       THEN Append(history[k], [id |-> counter, start |-> id[t], value |-> item[k].value])
       ELSE history[k]]
  /\ call' = [call EXCEPT ![t].n = counter]
  /\ pc' = [pc EXCEPT ![t] = "publish"]
  /\ UNCHANGED <<id, state, listed, locked, seen, cache, asked, ops, misread, data>>

PublishCommit(t) ==
  /\ At(t, "publish")
  /\ id' = [id EXCEPT ![t] = call[t].n]
  /\ state' = [state EXCEPT ![t] = "committed"]
  /\ pc' = [pc EXCEPT ![t] = "ended"]
  /\ call' = [call EXCEPT ![t] = NoCall]
  /\ UNCHANGED <<counter, listed, locked, seen, cache, asked, ops, history, misread, data>>

-----------------------------------------------------------------------------
(* Reads. *)

\* What t must read in k: its own last write, or else the newest commit before its start.
Expected(t, k) ==
  LET before == {i \in DOMAIN history[k] : history[k][i].id < id[t]} IN
  IF Chain(k) # <<>> /\ Chain(k)[1].owner = t THEN item[k].value
  ELSE IF before = {} THEN None
  ELSE history[k][Max(before)].value

Call(t) == Idle(t) /\ ops[t] < MaxOp[t] /\ ops' = [ops EXCEPT ![t] = @ + 1]

\* A read of k by t ends with value v.
Return(t, k, v) ==
  /\ pc' = [pc EXCEPT ![t] = "idle"]
  /\ call' = [call EXCEPT ![t] = NoCall]
  /\ misread' = (misread \/ v # Expected(t, k))

\* has_vertex and has_edge find the item and look at the owner of its newest record.
LoadHead(t, k) ==
  IF InPlace(t, k) THEN Return(t, k, item[k].value)
  ELSE /\ pc' = [pc EXCEPT ![t] = "walk"]
       /\ call' = [call EXCEPT ![t] = [NoCall EXCEPT !.key = k, !.at = 1]]
       /\ UNCHANGED misread

Read(t, k) ==
  /\ Call(t)
  /\ LoadHead(t, k)
  /\ UNCHANGED <<counter, id, state, listed, locked, seen, cache, asked, history, data>>

Retry(t) ==
  /\ At(t, "walk") /\ call[t].at = 0
  /\ LoadHead(t, call[t].key)
  /\ UNCHANGED <<counter, id, state, listed, locked, seen, cache, asked, ops, history, data>>

\* Otherwise it walks, with a look at the owner of the next record at every step.
Walk(t) ==
  LET at == call[t].at  k == call[t].key IN
  /\ At(t, "walk") /\ at > 0
  /\ IF StopsAt(t, k, at)
     THEN Return(t, k, Chain(k)[at].payload)
     ELSE call' = [call EXCEPT ![t].at = @ + 1] /\ UNCHANGED <<pc, misread>>
  /\ UNCHANGED <<counter, id, state, listed, locked, seen, cache, asked, ops, history, data>>
-----------------------------------------------------------------------------
(* Writes. *)

Updater(t) == t \notin ReadOnly /\ Call(t)
Found(k) == item[k].value # None \/ Chain(k) # <<>>

\* The consistency checks of an update of k that leaves value v; an insertion of an edge
\* also needs its source.
Refused(t, k, v) ==
  \/ ~ CanWrite(t, k)
  \/ (v = None) = (item[k].value = None)
  \/ /\ IsEdge(k) /\ v # None
     /\ \/ ~ Found(k) /\ k[1] \in locked
        \/ ~ Visible(t, VertexKey(k[1]))

\* A slip: the three bits of m_undo_length wrap around.
StackedWrapping(t, it, v) ==
  [value |-> v,
   chain |-> <<[owner |-> t, payload |-> it.value]>> \o it.chain,
   length |-> (it.length + 1) % (MAX_UNDO_LENGTH + 1)]

\* The item with a new record of t on top of the item it.
Stacked(t, it, v) ==
  [value |-> v,
   chain |-> <<[owner |-> t, payload |-> it.value]>> \o it.chain,
   length |-> Min({it.length + 1, MAX_UNDO_LENGTH})]

Full(k) == item[k].length >= MAX_UNDO_LENGTH

\* A write of v to k under the lock of the segment, after prune_on_write.  A writer reads the
\* active transactions within this step; the background threads take two.
Put(t, k, v) ==
  LET h == ThreadOf[t] IN
  /\ \E active \in {ActiveIds(counter), cache[h]} \ {<<>>} :
       IF Full(k)
       THEN /\ item' = [item EXCEPT ![k] = Stacked(t, Pruned(k, active), v)]
            /\ refs' = [u \in Txn \cup {Loader} |->
                          refs[u] + (IF u = t THEN 1 ELSE 0) - Dropped(u, {k}, active)]
            /\ cache' = [cache EXCEPT ![h] = active]
       ELSE /\ item' = [item EXCEPT ![k] = Stacked(t, @, v)]
            /\ refs' = [refs EXCEPT ![t] = @ + 1]
            /\ UNCHANGED cache
  /\ undo' = [undo EXCEPT ![t] = Append(@, k)]

\* A transition of the call of t, which aborts the readers of segment v.
Goto(t, v, at, c) ==
  /\ pc' = [pc EXCEPT ![t] = at]
  /\ call' = [Abort(v) EXCEPT ![t] = c]

Control == <<counter, id, state, listed, seen, asked, history, misread>>
Untouched == <<data, cache>>

UpdateVertex(t, v, val) ==
  LET k == VertexKey(v) IN
  /\ Updater(t)
  /\ IF Refused(t, k, val) THEN Goto(t, v, "idle", NoCall) /\ UNCHANGED Untouched
     ELSE Put(t, k, val) /\ Goto(t, v, "idle", NoCall)
  /\ UNCHANGED <<Control, locked>>

InsertVertex(t, v) == UpdateVertex(t, v, t)

\* insert_edge and remove_edge update the direction from the source first.
UpdateEdge(t, k, val) ==
  /\ Updater(t)
  /\ IF Refused(t, k, val) THEN Goto(t, k[1], "idle", NoCall) /\ UNCHANGED Untouched
     ELSE /\ Put(t, k, val)
          /\ Goto(t, k[1], "other", [NoCall EXCEPT !.key = Opposite(k), !.got = val])
  /\ UNCHANGED <<Control, locked>>

InsertEdge(t, k) == UpdateEdge(t, k, t)
RemoveEdge(t, k) == UpdateEdge(t, k, None)

\* A slip: the first direction stays when the second fails.
UpdateOppositeAlone(t) ==
  LET k == call[t].key IN
  /\ At(t, "other")
  /\ Goto(t, k[1], "idle", NoCall)
  /\ IF Refused(t, k, call[t].got) THEN UNCHANGED Untouched ELSE Put(t, k, call[t].got)
  /\ UNCHANGED <<Control, locked, ops>>

\* Then the opposite one; if that fails, the first is rolled back.
UpdateOpposite(t) ==
  LET k == call[t].key IN
  /\ At(t, "other")
  /\ IF Refused(t, k, call[t].got)
     THEN Goto(t, k[1], "undo", [NoCall EXCEPT !.n = 1]) /\ UNCHANGED Untouched
     ELSE Put(t, k, call[t].got) /\ Goto(t, k[1], "idle", NoCall)
  /\ UNCHANGED <<Control, locked, ops>>

\* What remove_vertex takes out of the segment of v: the vertex and its edges, up to the
\* first edge that is in conflict.
Conflicts(t, v) == {e \in Segment(v) : IsEdge(e) /\ Found(e) /\ ~ CanWrite(t, e)}
Removable(t, v) ==
  {k \in Segment(v) : item[k].value # None /\ \A e \in Conflicts(t, v) : k[2] < e[2]}

InOrder(ks) == SetToSortSeq(ks, LAMBDA a, b : a[2] < b[2])

\* A removal goes on with the edges in the other direction, if there are any.
Incoming(t, v, c) ==
  IF c.todo = <<>> THEN Goto(t, v, "idle", NoCall) ELSE Goto(t, v, "incoming", c)

\* The lock of the vertex is given up at once when other items follow in the segment,
\* and otherwise by a later step.  The vertex is in the segment itself (m_first = 1): the entry that stands for it
\* in a later segment its edges go on in, and its removal there, need a vertex that spans segments.
RemoveVertex(t, v) ==
  LET gone == InOrder(Removable(t, v))
      failed == Conflicts(t, v) # {}
      c == [NoCall EXCEPT !.key = VertexKey(v), !.n = Len(gone), !.failed = failed,
                          !.todo = [i \in 1..Len(gone) - 1 |-> Opposite(gone[i + 1])]] IN
  /\ Updater(t)
  /\ IF Refused(t, VertexKey(v), None)
     THEN Goto(t, v, "idle", NoCall) /\ UNCHANGED <<data, locked>>
     ELSE /\ item' = [k \in Key |-> IF k \in ToSet(gone) THEN Stacked(t, item[k], None) ELSE item[k]]
          /\ refs' = [refs EXCEPT ![t] = @ + Len(gone)]
          /\ undo' = [undo EXCEPT ![t] = @ \o gone]
          /\ \/ locked' = locked \cup {v} /\ Goto(t, v, "unlock", c)
             \/ ~ failed /\ Incoming(t, v, c) /\ UNCHANGED locked
  /\ UNCHANGED <<Control, cache>>

UnlockVertex(t) ==
  LET c == call[t]  v == c.key[1] IN
  /\ At(t, "unlock")
  /\ locked' = locked \ {v}
  /\ IF c.failed THEN Goto(t, v, "undo", c) ELSE Incoming(t, v, c)
  /\ UNCHANGED <<Control, cache, ops, data>>

\* The edges removed are removed in the other direction, one by one.
RemoveIncoming(t) ==
  LET c == call[t]  k == Head(c.todo) IN
  /\ At(t, "incoming")
  /\ IF Refused(t, k, None) THEN Goto(t, k[1], "undo", c) /\ UNCHANGED Untouched
     ELSE Put(t, k, None) /\ Incoming(t, k[1], [c EXCEPT !.n = @ + 1, !.todo = Tail(@)])
  /\ UNCHANGED <<Control, locked, ops>>

\* The newest record of t is rolled back: the item takes its payload and the chain behind it.
Restore(t) ==
  LET k == Last(undo[t])
      i == Min({j \in DOMAIN Chain(k) : Chain(k)[j].owner = t})
      next == SubSeq(Chain(k), i + 1, Len(Chain(k)))
      length == item[k].length IN
  /\ item' = [item EXCEPT ![k] =
       [value |-> Chain(k)[i].payload,
        chain |-> next,
        length |-> IF next = <<>> THEN 0
                   ELSE IF length < MAX_UNDO_LENGTH THEN length - 1 ELSE length]]
  /\ refs' = [refs EXCEPT ![t] = @ - 1]
  /\ undo' = [undo EXCEPT ![t] = Front(@)]
  /\ UNCHANGED <<Control, locked, cache, ops>>

\* do_rollback of the last n records after a failed call.
UndoCall(t) ==
  LET c == call[t]  v == Last(undo[t])[1] IN
  /\ At(t, "undo")
  /\ Restore(t)
  /\ IF c.n = 1 THEN Goto(t, v, "idle", NoCall) ELSE Goto(t, v, "undo", [c EXCEPT !.n = @ - 1])

\* rollback takes back every record, and then leaves the list.
InRollback(t) == At(t, "rollback") \/ (Idle(t) /\ t \notin Unended)

Rollback(t) ==
  /\ InRollback(t) /\ undo[t] # <<>>
  /\ Restore(t)
  /\ Goto(t, Last(undo[t])[1], "rollback", NoCall)

EndRollback(t) ==
  /\ InRollback(t) /\ undo[t] = <<>>
  /\ state' = [state EXCEPT ![t] = "aborted"]
  /\ listed' = listed \ {t}
  /\ pc' = [pc EXCEPT ![t] = "ended"]
  /\ call' = [call EXCEPT ![t] = NoCall]
  /\ UNCHANGED <<counter, id, locked, seen, cache, asked, ops, history, misread, data>>
-----------------------------------------------------------------------------
Next ==
  \/ \E t \in Txn :
       \/ Begin(t) \/ SetTransactionId(t)
       \/ Commit(t) \/ DrawCommitId(t) \/ PublishCommit(t)
       \/ Rollback(t) \/ EndRollback(t)
       \/ Retry(t) \/ Walk(t)
       \/ UpdateOpposite(t) \/ UnlockVertex(t) \/ RemoveIncoming(t) \/ UndoCall(t)
       \/ \E k \in Target[t] :
            \/ Read(t, k)
            \/ IsEdge(k) /\ (InsertEdge(t, k) \/ RemoveEdge(t, k))
            \/ ~ IsEdge(k) /\ (InsertVertex(t, k[1]) \/ RemoveVertex(t, k[1]))
  \/ \E h \in Background :
       \/ ReadCounter(h) \/ ReadLists(h)
       \/ \E v \in Vertex : PruneSegment(h, v)

Spec == Init /\ [][Next]_vars
-----------------------------------------------------------------------------
Values == Txn \cup {None, Loader}

\* Every field has its type; a vertex is locked only by a removal under way; and the length
\* kept in an item is the length of its chain, unless it has reached the maximum, from where a
\* rollback does not bring it down.
TypeOK ==
  /\ counter \in Nat \ {0}
  /\ id \in [Txn \cup {Loader} -> 1..2 * Half]
  /\ state \in [Txn \cup {Loader} -> {"pending", "committed", "aborted"}]
  /\ \A t \in Txn : undo[t] \in Seq(Key)
  /\ listed \subseteq Txn
  /\ locked \subseteq {call[t].key[1] : t \in {u \in Txn : pc[u] = "unlock"}}
  /\ \A k \in Key :
       LET it == item[k] IN
       /\ it.value \in Values
       /\ it.chain \in Seq([owner : Txn \cup {Loader}, payload : Values])
       /\ it.length \in 0..MAX_UNDO_LENGTH
       /\ it.length = Len(it.chain) \/ it.length = MAX_UNDO_LENGTH
  /\ \A h \in Thread : seen[h] \in Nat /\ cache[h] \in Seq(Nat)
  /\ \A t \in Txn : ops[t] \in 0..MaxOp[t]

\* The transactions that may read.
Active(t) == pc[t] \notin {"new", "begin", "commit", "publish", "rollback", "ended"}

\* A transaction reads its own last write or the newest commit before its start, in whatever
\* order other transactions commit, roll back and prune around its walk along the chain; and no
\* prune, whatever the age of the sequence it uses, takes away a record that an active
\* transaction still needs for this.
SnapshotReads ==
  /\ ~ misread
  /\ \A t \in Txn : Active(t) => \A k \in Key : View(t, k) = Expected(t, k)

\* Of two commits to one item, the later one started after the earlier one had committed: no
\* update is lost.
NoLostUpdate ==
  \A k \in Key : \A i, j \in DOMAIN history[k] :
    i < j => history[k][i].id < history[k][j].start

\* A transaction is kept, with the buffers that hold its undo records, for exactly as long as
\* the application or a chain refers to it.
OwnersCounted ==
  \A t \in Txn \cup {Loader} : refs[t] = 1 + Cardinality(Records(t, Key))

\* Between calls, a transaction reads the same in both directions of an edge, also after calls
\* that failed half way and were rolled back.
EdgesPaired ==
  \A t \in Txn : Active(t) /\ pc[t] = "idle" =>
    \A k \in {e \in Key : IsEdge(e)} : View(t, k) = View(t, Opposite(k))
=============================================================================
