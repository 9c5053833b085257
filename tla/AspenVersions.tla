---------------------------- MODULE AspenVersions ----------------------------
(***************************************************************************)
(* Aspen's versioned graph (include/graph/versioned_graph.h): readers      *)
(* acquire the latest version of the graph and release it; one writer      *)
(* makes a batch of updates a new version.  Live versions are entries of a *)
(* hash table (include/lib_extensions/sequentialHT.h); an entry's word     *)
(* packs the timestamp with a count of references, of which the table      *)
(* itself holds one.  Whoever drops a version that is no longer the latest *)
(* to that one reference frees its tree and gives the entry up.            *)
(*                                                                         *)
(* firstIndex hashes the upper half of the key, which is 0 for every       *)
(* timestamp, so all keys probe the entries in one order: 1, 2, ... here.  *)
(* Each atomic builtin and each load of a shared word is one step.         *)
(***************************************************************************)
EXTENDS Integers, Sequences, FiniteSets

CONSTANTS Reader,            \* threads that read
          writer,            \* the thread that updates ("single-entry")
          Slots,             \* entries of the table (512 in the code)
          MaxVersion,        \* bound: the last timestamp the writer gives
          RefillsOvertake    \* may an entry be refilled under a thread that still refers to it?

ASSUME SlotsAssumption == Slots \in Nat \ {0}
ASSUME MaxVersionAssumption == MaxVersion \in Nat
ASSUME ReaderAssumption == IsFiniteSet(Reader)
ASSUME WriterAssumption == writer \notin Reader
ASSUME RefillsAssumption == RefillsOvertake \in BOOLEAN

VARIABLES current_timestamp,
          table,             \* live_versions: key, the word <<timestamp, count>>, root
          versions,          \* history: the root of every version made, by timestamp + 1
          freed,             \* history: how often each version's tree was given to Node_GC
          pc, local          \* where each thread is, and its local variables

vars == <<current_timestamp, table, versions, freed, pc, local>>

Thread    == Reader \cup {writer}
Slot      == 1..Slots
max_key   == -1                  \* an entry never used
tombstone == -2                  \* an entry given up
nullptr   == -1                  \* the root of an empty graph
Word      == [ts : 0..MaxVersion, ct : Nat]

\* A version in hand: its timestamp, its table entry and its tree; `seen` is the word last read.
Nothing == [latest |-> 0, slot |-> 1, seen |-> [ts |-> 0, ct |-> 0], timestamp |-> 0, root |-> nullptr]

Acquiring == {"latest", "find", "look", "load", "cas"}
Holding   == {"held", "insert", "value", "publish"}
Releasing == {"stale", "reread", "unref", "free", "clear", "bury"}

Goto(t, place) == pc' = [pc EXCEPT ![t] = place]

\* The end of a call; what the thread referred to is out of scope.
Leave(t) == Goto(t, "idle") /\ local' = [local EXCEPT ![t] = Nothing]

latest_timestamp == current_timestamp - 1

Set(s, entry) == table' = [table EXCEPT ![s] = entry]

Init ==
  \E root \in {0, nullptr} :
    /\ current_timestamp = 1
    /\ versions = <<root>>
    /\ table = [s \in Slot |-> IF s = 1 THEN [key |-> 0, word |-> [ts |-> 0, ct |-> 1], root |-> root]
                                        ELSE [key |-> max_key, word |-> [ts |-> 0, ct |-> 0], root |-> nullptr]]
    /\ freed = [v \in 0..MaxVersion |-> 0]
    /\ pc = [t \in Thread |-> "idle"]
    /\ local = [t \in Thread |-> Nothing]

-----------------------------------------------------------------------------
(* acquire_version *)

Acquire(t) ==
  /\ pc[t] = "idle"
  /\ t = writer => current_timestamp <= MaxVersion
  /\ Goto(t, "latest")
  /\ UNCHANGED <<current_timestamp, table, versions, freed, local>>

ReadLatest(t) ==
  /\ pc[t] = "latest"
  /\ local' = [local EXCEPT ![t].latest = latest_timestamp]
  /\ Goto(t, "find")
  /\ UNCHANGED <<current_timestamp, table, versions, freed>>

\* The probe ends at the key or, without it, at an entry never used; with neither it goes round.
Find(t) ==
  /\ pc[t] = "find"
  /\ IF \E s \in Slot : table[s].key = local[t].latest
     THEN /\ \E s \in Slot : /\ table[s].key = local[t].latest
                             /\ local' = [local EXCEPT ![t].slot = s]
          /\ Goto(t, "look")
     ELSE /\ \E s \in Slot : table[s].key = max_key
          /\ Goto(t, "latest") /\ UNCHANGED local
  /\ UNCHANGED <<current_timestamp, table, versions, freed>>

Look(t) ==
  /\ pc[t] = "look"
  /\ Goto(t, IF table[local[t].slot].key = tombstone THEN "latest" ELSE "load")
  /\ UNCHANGED <<current_timestamp, table, versions, freed, local>>

\* A slip: the count is not asked whether the version is still alive.
LoadDead(t) ==
  /\ pc[t] = "load"
  /\ local' = [local EXCEPT ![t].seen = table[local[t].slot].word,
                            ![t].timestamp = table[local[t].slot].key]
  /\ Goto(t, "cas")
  /\ UNCHANGED <<current_timestamp, table, versions, freed>>

Load(t) ==
  /\ pc[t] = "load"
  /\ IF table[local[t].slot].word.ct > 0
     THEN /\ local' = [local EXCEPT ![t].seen = table[local[t].slot].word,
                                    ![t].timestamp = table[local[t].slot].key]
          /\ Goto(t, "cas")
     ELSE Goto(t, "latest") /\ UNCHANGED local
  /\ UNCHANGED <<current_timestamp, table, versions, freed>>

\* The new reference, and the version handed to the caller; a word that changed is read again.
Acquired(t) ==
  /\ pc[t] = "cas"
  /\ LET s == local[t].slot IN
       /\ table[s].word = local[t].seen
       /\ table' = [table EXCEPT ![s].word.ct = @ + 1]
       /\ local' = [local EXCEPT ![t].root = table[s].root]
  /\ Goto(t, IF t = writer THEN "insert" ELSE "held")
  /\ UNCHANGED <<current_timestamp, versions, freed>>

CasFails(t) ==
  /\ pc[t] = "cas" /\ table[local[t].slot].word # local[t].seen
  /\ Goto(t, "look")
  /\ UNCHANGED <<current_timestamp, table, versions, freed, local>>

-----------------------------------------------------------------------------
(* insert_edges_batch and delete_edges_batch: a tree is built from the version in hand (only a *)
(* deletion may leave an empty graph), put in the table, and then made the latest.             *)

Refers(t, s) == pc[t] \in {"look", "load", "cas"} \cup Holding \cup Releasing /\ local[t].slot = s

\* insert stops at the first entry that is empty or given up.
Insert(root) ==
  /\ pc[writer] = "insert"
  /\ \E s \in Slot :
       /\ table[s].key \in {max_key, tombstone}
       /\ \A earlier \in 1..(s - 1) : table[earlier].key \notin {max_key, tombstone}
       /\ RefillsOvertake \/ \A t \in Reader : ~Refers(t, s)
       /\ table' = [table EXCEPT ![s].key = current_timestamp]
       /\ local' = [local EXCEPT ![writer].latest = s]
  /\ versions' = Append(versions, root)
  /\ Goto(writer, "value")
  /\ UNCHANGED <<current_timestamp, freed>>

\* A slip: a new version starts without the table's own reference.
InsertValueUncounted ==
  /\ pc[writer] = "value"
  /\ Set(local[writer].latest, [key |-> current_timestamp, word |-> [ts |-> current_timestamp, ct |-> 0],
                                root |-> versions[current_timestamp + 1]])
  /\ Goto(writer, "publish")
  /\ UNCHANGED <<current_timestamp, versions, freed, local>>

InsertValue ==
  /\ pc[writer] = "value"
  /\ Set(local[writer].latest, [key |-> current_timestamp, word |-> [ts |-> current_timestamp, ct |-> 1],
                                root |-> versions[current_timestamp + 1]])
  /\ Goto(writer, "publish")
  /\ UNCHANGED <<current_timestamp, versions, freed, local>>

Publish ==
  /\ pc[writer] = "publish"
  /\ current_timestamp' = current_timestamp + 1
  /\ Goto(writer, "held")
  /\ UNCHANGED <<table, versions, freed, local>>

-----------------------------------------------------------------------------
(* release_version: the last reference but the table's, to a version that is not the latest, *)
(* takes the table's away too and frees the version.                                          *)

\* A slip: the last reader is recognised by the count it leaves, not the one it finds.
ReleaseOneLate(t) ==
  /\ pc[t] = "held"
  /\ table' = [table EXCEPT ![local[t].slot].word.ct = @ - 1]
  /\ IF table[local[t].slot].word.ct = 1 THEN Goto(t, "stale") /\ UNCHANGED local ELSE Leave(t)
  /\ UNCHANGED <<current_timestamp, versions, freed>>

Release(t) ==
  /\ pc[t] = "held"
  /\ table' = [table EXCEPT ![local[t].slot].word.ct = @ - 1]
  /\ IF table[local[t].slot].word.ct = 2 THEN Goto(t, "stale") /\ UNCHANGED local ELSE Leave(t)
  /\ UNCHANGED <<current_timestamp, versions, freed>>

\* A slip: the latest version is given up like any other.
CheckStaleAlways(t) ==
  /\ pc[t] = "stale"
  /\ Goto(t, "reread")
  /\ UNCHANGED <<current_timestamp, table, versions, freed, local>>

CheckStale(t) ==
  /\ pc[t] = "stale"
  /\ IF local[t].timestamp # latest_timestamp THEN Goto(t, "reread") /\ UNCHANGED local ELSE Leave(t)
  /\ UNCHANGED <<current_timestamp, table, versions, freed>>

Reread(t) ==
  /\ pc[t] = "reread"
  /\ LET word == table[local[t].slot].word IN
       IF word.ct = 1 THEN Goto(t, "unref") /\ local' = [local EXCEPT ![t].seen = word] ELSE Leave(t)
  /\ UNCHANGED <<current_timestamp, table, versions, freed>>

\* A slip: the count is decremented whatever happened since it was read.
UnrefBlindly(t) ==
  /\ pc[t] = "unref"
  /\ table' = [table EXCEPT ![local[t].slot].word.ct = @ - 1]
  /\ Goto(t, "free")
  /\ UNCHANGED <<current_timestamp, versions, freed, local>>

Unref(t) ==
  /\ pc[t] = "unref"
  /\ IF table[local[t].slot].word = local[t].seen
     THEN /\ table' = [table EXCEPT ![local[t].slot].word.ct = @ - 1]
          /\ Goto(t, "free") /\ UNCHANGED local
     ELSE Leave(t) /\ UNCHANGED table
  /\ UNCHANGED <<current_timestamp, versions, freed>>

\* decrement_recursive on the tree, unless the graph is empty.
Free(t) ==
  /\ pc[t] = "free"
  /\ freed' = IF local[t].root = nullptr THEN freed ELSE [freed EXCEPT ![local[t].root] = @ + 1]
  /\ Goto(t, "clear")
  /\ UNCHANGED <<current_timestamp, table, versions, local>>

\* The entry is first left empty under its key,
Clear(t) ==
  /\ pc[t] = "clear"
  /\ Set(local[t].slot, [key |-> local[t].timestamp, word |-> [ts |-> 0, ct |-> 0], root |-> nullptr])
  /\ Goto(t, "bury")
  /\ UNCHANGED <<current_timestamp, versions, freed, local>>

\* then given up.  (Its three stores are one step: a refill between them is one more way for a
\* refill to overtake the thread that frees.)
Bury(t) ==
  /\ pc[t] = "bury"
  /\ Set(local[t].slot, [key |-> tombstone, word |-> [ts |-> 0, ct |-> 0], root |-> nullptr])
  /\ Leave(t)
  /\ UNCHANGED <<current_timestamp, versions, freed>>

-----------------------------------------------------------------------------
Step(t) ==
  \/ ReadLatest(t) \/ Find(t) \/ Look(t) \/ Load(t) \/ Acquired(t) \/ CasFails(t)
  \/ CheckStale(t) \/ Reread(t) \/ Unref(t) \/ Free(t) \/ Clear(t) \/ Bury(t)

Write == (\E root \in {current_timestamp, nullptr} : Insert(root)) \/ InsertValue \/ Publish

Next == Write \/ \E t \in Thread : Acquire(t) \/ Step(t) \/ Release(t)

Spec == Init /\ [][Next]_vars

\* A thread inside a call keeps running.  No reader has to call, or to give a version back.
FairSpec == Spec /\ WF_vars(Write) /\ \A t \in Thread : WF_vars(Step(t))

-----------------------------------------------------------------------------
\* The variables have their types; no entry's count of references ever falls below none.
TypeOK ==
  /\ current_timestamp \in 1..(MaxVersion + 1)
  /\ table \in [Slot -> [key : {max_key, tombstone} \cup 0..MaxVersion, word : Word, root : {nullptr} \cup 0..MaxVersion]]
  /\ versions \in Seq({nullptr} \cup 0..MaxVersion)
  /\ freed \in [0..MaxVersion -> Nat]
  /\ pc \in [Thread -> {"idle"} \cup Acquiring \cup Holding \cup Releasing]
  /\ \A t \in Thread :
       /\ local[t].slot \in Slot /\ local[t].latest \in Nat
       /\ local[t].seen \in Word /\ local[t].timestamp \in 0..MaxVersion
       /\ local[t].root \in {nullptr} \cup 0..MaxVersion

\* acquire_version hands out the tree of the version it says, and until release_version nobody
\* frees it; no tree is freed twice.
HeldAlive ==
  /\ \A v \in 0..MaxVersion : freed[v] <= 1
  /\ \A t \in Thread : pc[t] \in Holding =>
       /\ local[t].timestamp + 1 \in DOMAIN versions
       /\ local[t].root = versions[local[t].timestamp + 1]
       /\ local[t].root # nullptr => freed[local[t].root] = 0

\* Versions are committed "making them readable" (versioned_graph.h:3-4): whatever readers release,
\* the table has the latest version, counted, with its tree alive.
LatestAcquirable ==
  \E s \in Slot :
    /\ table[s].key = latest_timestamp
    /\ table[s].word.ts = latest_timestamp /\ table[s].word.ct >= 1
    /\ table[s].root = versions[latest_timestamp + 1]
    /\ table[s].root # nullptr => freed[table[s].root] = 0

\* An old version stays in the table only while some thread has it, or is still releasing it, and its
\* entry is given up only after its tree was freed: nothing leaks, however releases and updates cross.
OldVersionsGoAway ==
  /\ \A s \in Slot : table[s].key \in 0..(latest_timestamp - 1) =>
       \E t \in Thread : pc[t] \in Holding \cup Releasing /\ local[t].slot = s
  /\ \A v \in 0..(latest_timestamp - 1) :
       (\A s \in Slot : table[s].key # v) => versions[v + 1] = nullptr \/ freed[v] = 1

\* "Lock-free, but not wait-free" (versioned_graph.h:117): as long as calls of acquire_version go on,
\* one of them returns, however often the others' compare-and-swaps and a writer's batches spoil it.
LockFree ==
  \/ []<>(\A t \in Thread : pc[t] \notin Acquiring)
  \/ []<><<\E t \in Thread : Acquired(t)>>_vars
=============================================================================
