----------------------------- MODULE AspenProof -----------------------------
(***************************************************************************)
(* The versions of AspenVersions, for any finite set of readers, any table *)
(* and any number of versions, under the condition the run `aspen' checks: *)
(* no entry is refilled under a thread that still refers to it.            *)
(***************************************************************************)
EXTENDS AspenVersions, FiniteSetTheorems, SequenceTheorems, TLAPS

Version  == 0 .. MaxVersion
Dropping == {"stale", "reread", "unref"}
Dying    == {"free", "clear", "bury"}
Using    == Holding \cup Dropping \cup Dying
Seeking  == {"look", "load", "cas"}

\* The threads with a reference of their own to entry s.
Held(s) == {t \in Thread : pc[t] \in Holding /\ local[t].slot = s}

LocalOK == local \in [Thread -> [latest : Nat, slot : Slot, seen : Word, timestamp : Version,
                                 root : {nullptr} \cup Version]]

\* The parts of the inductive invariant.  A counted entry is a version with its tree, and its
\* count is the table's reference and one for each thread in Held.
CountOf(s) ==
  /\ table[s].word.ct > 0 =>
       /\ table[s].key \in Version /\ table[s].word.ts = table[s].key
       /\ table[s].root = versions[table[s].key + 1] /\ freed[table[s].key] = 0
       /\ table[s].word.ct = 1 + Cardinality(Held(s))
  /\ table[s].word.ct = 0 => Held(s) = {}

CountInv == \A s \in Slot : CountOf(s)

\* A version is in one entry, and in none before it is the latest but the one being filled.
KeyInv ==
  /\ \A s, u \in Slot : table[s].key \in Version /\ table[s].key = table[u].key => s = u
  /\ \A s \in Slot : table[s].key \in Version /\ table[s].key > latest_timestamp =>
       pc[writer] \in {"value", "publish"} /\ s = local[writer].latest
  /\ \E s \in Slot : table[s].key = latest_timestamp

\* An entry with no reference left is being filled or being given up, and one with the table's
\* only, of an old version, has a thread that is about to find that out.
DutyOf(s) ==
  /\ table[s].key \in Version /\ table[s].word.ct = 0 =>
       \/ pc[writer] = "value" /\ local[writer].latest = s
       \/ \E t \in Thread : pc[t] \in Dying /\ local[t].slot = s
  /\ table[s].key \in 0 .. (latest_timestamp - 1) /\ table[s].word.ct = 1 =>
       \E t \in Thread : pc[t] \in Dropping /\ local[t].slot = s

DutyInv == \A s \in Slot : DutyOf(s)

\* What each thread knows of the entry and the version it refers to.
SeekOf(t) ==
  /\ pc[t] \in {"find"} \cup Seeking =>
       local[t].latest <= latest_timestamp /\ (t = writer => local[t].latest = latest_timestamp)
  /\ pc[t] \in Seeking => table[local[t].slot].key \in {local[t].latest, tombstone}
  /\ pc[t] = "cas" => local[t].seen.ct > 0 /\ local[t].timestamp = local[t].latest

UseOf(t) ==
  /\ pc[t] \in Using => /\ local[t].timestamp <= latest_timestamp
                        /\ local[t].root = versions[local[t].timestamp + 1]
  /\ pc[t] \in Holding => /\ table[local[t].slot].key = local[t].timestamp
                          /\ table[local[t].slot].word.ct > 0
  /\ pc[t] \in Dropping => table[local[t].slot].key \in {local[t].timestamp, tombstone}
  /\ pc[t] \in {"reread", "unref"} => local[t].timestamp < latest_timestamp
  /\ pc[t] = "unref" => local[t].seen = [ts |-> local[t].timestamp, ct |-> 1]

\* Of an entry without a count, one thread frees the version and gives the entry up.
DyingOf(t) ==
  pc[t] \in Dying =>
    /\ local[t].timestamp < latest_timestamp
    /\ table[local[t].slot].key = local[t].timestamp
    /\ table[local[t].slot].word.ct = 0
    /\ \A u \in Thread : pc[u] \in Dying /\ local[u].slot = local[t].slot => u = t
    /\ pc[t] = "free" => freed[local[t].timestamp] = 0
    /\ pc[t] # "free" /\ local[t].root # nullptr => freed[local[t].timestamp] = 1

SeekInv  == \A t \in Thread : SeekOf(t)
UseInv   == \A t \in Thread : UseOf(t)
DyingInv == \A t \in Thread : DyingOf(t)

\* The writer builds on the latest version, in an entry nobody refers to.
WriterInv ==
  /\ pc[writer] \in Acquiring \cup {"insert", "value", "publish"} => current_timestamp <= MaxVersion
  /\ pc[writer] \in {"insert", "value", "publish"} => local[writer].timestamp = latest_timestamp
  /\ pc[writer] \in {"value", "publish"} =>
       local[writer].latest \in Slot /\ table[local[writer].latest].key = current_timestamp
  /\ pc[writer] = "value" =>
       /\ table[local[writer].latest].word.ct = 0
       /\ \A t \in Thread : pc[t] \in Seeking \cup Using => local[t].slot # local[writer].latest

\* The trees made and freed.
TreeInv ==
  /\ Len(versions) = current_timestamp + (IF pc[writer] \in {"value", "publish"} THEN 1 ELSE 0)
  /\ \A v \in 0 .. (Len(versions) - 1) : versions[v + 1] \in {v, nullptr}
  /\ \A v \in Version : freed[v] <= 1 /\ (v > latest_timestamp => freed[v] = 0)
  /\ \A v \in 0 .. latest_timestamp :
       (\A s \in Slot : table[s].key # v) => versions[v + 1] = nullptr \/ freed[v] = 1

Inv == /\ TypeOK /\ LocalOK /\ CountInv /\ KeyInv /\ DutyInv /\ SeekInv /\ UseInv /\ DyingInv
       /\ WriterInv /\ TreeInv

----------------------------------------------------------------------------
(* What the steps do. *)

\* A thread moves, and only it.
Moves(t, from, to) ==
  /\ pc[t] = from /\ pc'[t] = to
  /\ \A u \in Thread \ {t} : pc'[u] = pc[u] /\ local'[u] = local[u]

SharedSame == UNCHANGED <<current_timestamp, table, versions, freed>>

\* Some facts of arithmetic and of kinds of keys that every step uses.
LEMMA Basics ==
  ASSUME TypeOK, LocalOK
  PROVE  /\ current_timestamp \in Nat /\ current_timestamp >= 1 /\ latest_timestamp \in Nat
         /\ current_timestamp <= MaxVersion + 1
         /\ max_key \notin Nat /\ tombstone \notin Nat /\ max_key # tombstone
         /\ writer \in Thread /\ Version \subseteq Nat
         /\ \A t \in Thread : /\ local[t].slot \in Slot /\ local[t].latest \in Nat
                              /\ local[t].timestamp \in Version
                              /\ local[t].root \in {nullptr} \cup Version
                              /\ local[t].seen \in Word /\ local[t].seen.ct \in Nat
         /\ \A s \in Slot : /\ table[s].word \in Word /\ table[s].word.ct \in Nat
                            /\ table[s].key \in {max_key, tombstone} \cup Version
                            /\ table[s].root \in {nullptr} \cup Version
<1> USE MaxVersionAssumption DEF Version, max_key, tombstone
<1>1. /\ current_timestamp \in Nat /\ current_timestamp >= 1 /\ latest_timestamp \in Nat
      /\ current_timestamp <= MaxVersion + 1 /\ writer \in Thread
  BY DEF TypeOK, latest_timestamp, Thread
<1>2. ASSUME NEW t \in Thread
      PROVE  /\ local[t].slot \in Slot /\ local[t].latest \in Nat /\ local[t].timestamp \in Version
             /\ local[t].root \in {nullptr} \cup Version
             /\ local[t].seen \in Word /\ local[t].seen.ct \in Nat
  <2>1. local[t] \in [latest : Nat, slot : Slot, seen : Word, timestamp : Version,
                      root : {nullptr} \cup Version]
    BY DEF LocalOK
  <2> QED BY <2>1 DEF Word
<1>3. ASSUME NEW s \in Slot
      PROVE  /\ table[s].word \in Word /\ table[s].word.ct \in Nat
             /\ table[s].key \in {max_key, tombstone} \cup Version
             /\ table[s].root \in {nullptr} \cup Version
  <2>1. table[s] \in [key : {max_key, tombstone} \cup 0..MaxVersion, word : Word,
                      root : {nullptr} \cup 0..MaxVersion]
    BY DEF TypeOK
  <2> QED BY <2>1 DEF Word
<1> QED BY <1>1, <1>2, <1>3

LEMMA NothingType == Nothing \in [latest : Nat, slot : Slot, seen : Word, timestamp : Version,
                                  root : {nullptr} \cup Version]
BY SlotsAssumption, MaxVersionAssumption DEF Nothing, Slot, Word, Version

\* Of threads that share nothing: the reads, and the ends of calls that change nothing.
LEMMA QuietSteps ==
  ASSUME TypeOK, LocalOK, NEW t \in Thread,
         \/ Acquire(t) \/ ReadLatest(t) \/ Find(t) \/ Look(t) \/ Load(t) \/ CasFails(t)
         \/ CheckStale(t) \/ Reread(t) \/ (Unref(t) /\ table[local[t].slot].word # local[t].seen)
  PROVE  /\ SharedSame
         /\ \A u \in Thread \ {t} : pc'[u] = pc[u] /\ local'[u] = local[u]
         /\ pc'[t] \in {"idle", "latest", "find", "look", "load", "cas", "reread", "unref"}
         /\ pc[t] \in {"idle"} \cup Acquiring \cup Dropping
BY DEF TypeOK, LocalOK, SharedSame, Acquire, ReadLatest, Find, Look, Load, CasFails, CheckStale, Reread, Unref,
       Goto, Leave, Acquiring, Dropping

\* One entry's count changes.
Counted(s, n) ==
  /\ table' \in [Slot -> [key : {max_key, tombstone} \cup 0..MaxVersion, word : [ts : 0..MaxVersion, ct : Int],
                          root : {nullptr} \cup 0..MaxVersion]]
  /\ table'[s].key = table[s].key /\ table'[s].root = table[s].root
  /\ table'[s].word.ts = table[s].word.ts /\ table'[s].word.ct = n
  /\ \A u \in Slot \ {s} : table'[u] = table[u]

LEMMA CountSet ==
  ASSUME TypeOK, NEW s \in Slot, NEW n \in Int, table' = [table EXCEPT ![s].word.ct = n]
  PROVE  Counted(s, n)
<1> DEFINE e == [key |-> table[s].key, word |-> [ts |-> table[s].word.ts, ct |-> n],
                 root |-> table[s].root]
<1>1. table[s] \in [key : {max_key, tombstone} \cup 0..MaxVersion, word : Word, root : {nullptr} \cup 0..MaxVersion]
      /\ table[s].word \in Word /\ table[s].word.ct \in Nat /\ table[s].word.ts \in 0..MaxVersion
  BY DEF TypeOK, Word
<1>2. table'[s] = e
  <2>1. table'[s] = [table[s] EXCEPT !.word.ct = n]
    BY DEF TypeOK
  <2>2. [table[s] EXCEPT !.word.ct = n] = e
    BY <1>1 DEF Word
  <2> QED BY <2>1, <2>2
<1>3. \A u \in Slot \ {s} : table'[u] = table[u]
  BY DEF TypeOK
<1>4. table' \in [Slot -> [key : {max_key, tombstone} \cup 0..MaxVersion, word : [ts : 0..MaxVersion, ct : Int],
                          root : {nullptr} \cup 0..MaxVersion]]
  <2>1. DOMAIN table' = Slot /\ table' = [u \in Slot |-> table'[u]]
    BY DEF TypeOK
  <2>2. e \in [key : {max_key, tombstone} \cup 0..MaxVersion, word : [ts : 0..MaxVersion, ct : Int],
               root : {nullptr} \cup 0..MaxVersion]
    BY <1>1
  <2>3. ASSUME NEW u \in Slot \ {s}
        PROVE  table[u] \in [key : {max_key, tombstone} \cup 0..MaxVersion, word : [ts : 0..MaxVersion, ct : Int],
                             root : {nullptr} \cup 0..MaxVersion]
    <3>1. table[u] \in [key : {max_key, tombstone} \cup 0..MaxVersion, word : Word,
                        root : {nullptr} \cup 0..MaxVersion]
      BY DEF TypeOK
    <3>2. Word \subseteq [ts : 0..MaxVersion, ct : Int]
      BY DEF Word
    <3> QED BY <3>1, <3>2
  <2> QED BY <1>2, <1>3, <2>1, <2>2, <2>3
<1> QED BY <1>2, <1>3, <1>4 DEF Counted

LEMMA CountUp ==
  ASSUME TypeOK, NEW s \in Slot, table' = [table EXCEPT ![s].word.ct = @ + 1]
  PROVE  Counted(s, table[s].word.ct + 1)
<1>1. table[s].word.ct + 1 \in Int
  BY DEF TypeOK, Word
<1> QED BY <1>1, CountSet

LEMMA CountDown ==
  ASSUME TypeOK, NEW s \in Slot, table' = [table EXCEPT ![s].word.ct = @ - 1]
  PROVE  Counted(s, table[s].word.ct - 1)
<1>1. table[s].word.ct - 1 \in Int
  BY DEF TypeOK, Word
<1> QED BY <1>1, CountSet

\* Acquired counts a reference to the entry.
LEMMA AcquiredEffect ==
  ASSUME TypeOK, LocalOK, NEW t \in Thread, Acquired(t)
  PROVE  /\ UNCHANGED <<current_timestamp, versions, freed>>
         /\ Moves(t, "cas", IF t = writer THEN "insert" ELSE "held")
         /\ table[local[t].slot].word = local[t].seen
         /\ Counted(local[t].slot, table[local[t].slot].word.ct + 1)
         /\ local'[t] = [local[t] EXCEPT !.root = table[local[t].slot].root]
<1>1. local[t].slot \in Slot
  BY Basics
<1>2. table' = [table EXCEPT ![local[t].slot].word.ct = @ + 1]
  BY DEF Acquired
<1>3. Counted(local[t].slot, table[local[t].slot].word.ct + 1)
  BY <1>1, <1>2, CountUp
<1> QED BY <1>3 DEF TypeOK, LocalOK, Acquired, Moves, Goto

\* Release drops one; the last but the table's goes on to see whether the version is old.
LEMMA ReleaseEffect ==
  ASSUME TypeOK, LocalOK, NEW t \in Thread, Release(t)
  PROVE  /\ UNCHANGED <<current_timestamp, versions, freed>>
         /\ Counted(local[t].slot, table[local[t].slot].word.ct - 1)
         /\ \/ table[local[t].slot].word.ct = 2 /\ Moves(t, "held", "stale") /\ local' = local
            \/ table[local[t].slot].word.ct # 2 /\ Moves(t, "held", "idle") /\ local'[t] = Nothing
<1>1. local[t].slot \in Slot
  BY Basics
<1>2. table' = [table EXCEPT ![local[t].slot].word.ct = @ - 1]
  BY DEF Release
<1>3. Counted(local[t].slot, table[local[t].slot].word.ct - 1)
  BY <1>1, <1>2, CountDown
<1> QED BY <1>3 DEF TypeOK, LocalOK, Release, Moves, Goto, Leave

\* Unref drops the table's own.
LEMMA UnrefEffect ==
  ASSUME TypeOK, LocalOK, NEW t \in Thread, Unref(t), table[local[t].slot].word = local[t].seen
  PROVE  /\ UNCHANGED <<current_timestamp, versions, freed>>
         /\ Counted(local[t].slot, table[local[t].slot].word.ct - 1)
         /\ Moves(t, "unref", "free") /\ local' = local
<1>1. local[t].slot \in Slot
  BY Basics
<1>2. table' = [table EXCEPT ![local[t].slot].word.ct = @ - 1]
  BY DEF Unref
<1>3. Counted(local[t].slot, table[local[t].slot].word.ct - 1)
  BY <1>1, <1>2, CountDown
<1> QED BY <1>3 DEF TypeOK, LocalOK, Unref, Moves, Goto

LEMMA FreeEffect ==
  ASSUME TypeOK, LocalOK, NEW t \in Thread, Free(t)
  PROVE  /\ UNCHANGED <<current_timestamp, table, versions, local>> /\ Moves(t, "free", "clear")
         /\ freed' = IF local[t].root = nullptr THEN freed
                     ELSE [freed EXCEPT ![local[t].root] = freed[local[t].root] + 1]
BY DEF TypeOK, LocalOK, Free, Moves, Goto

\* Clear and Bury empty the entry, under its key and then for good.
Emptied(s, key) ==
  /\ table' = [table EXCEPT ![s] = [key |-> key, word |-> [ts |-> 0, ct |-> 0], root |-> nullptr]]
  /\ table'[s].key = key /\ table'[s].word.ct = 0 /\ table'[s].root = nullptr
  /\ \A u \in Slot \ {s} : table'[u] = table[u]

LEMMA EmptyEffect ==
  ASSUME TypeOK, LocalOK, NEW t \in Thread, Clear(t) \/ Bury(t)
  PROVE  /\ UNCHANGED <<current_timestamp, versions, freed>>
         /\ \/ Emptied(local[t].slot, local[t].timestamp) /\ Moves(t, "clear", "bury") /\ local' = local
            \/ Emptied(local[t].slot, tombstone) /\ Moves(t, "bury", "idle") /\ local'[t] = Nothing
<1>1. local[t].slot \in Slot
  BY Basics
<1> QED BY <1>1 DEF TypeOK, LocalOK, Clear, Bury, Set, Moves, Goto, Leave, Emptied

\* The writer's three steps.
LEMMA InsertEffect ==
  ASSUME TypeOK, LocalOK, ~RefillsOvertake, NEW root, Insert(root)
  PROVE  /\ UNCHANGED <<current_timestamp, freed>> /\ versions' = Append(versions, root)
         /\ Moves(writer, "insert", "value")
         /\ \E s \in Slot :
              /\ table[s].key \in {max_key, tombstone}
              /\ \A t \in Reader : ~Refers(t, s)
              /\ table' = [table EXCEPT ![s].key = current_timestamp]
              /\ table'[s].key = current_timestamp /\ table'[s].word = table[s].word
              /\ \A u \in Slot \ {s} : table'[u] = table[u]
              /\ local'[writer] = [local[writer] EXCEPT !.latest = s]
<1>1. PICK s \in Slot : /\ table[s].key \in {max_key, tombstone}
                        /\ \A t \in Reader : ~Refers(t, s)
                        /\ table' = [table EXCEPT ![s].key = current_timestamp]
                        /\ local' = [local EXCEPT ![writer].latest = s]
  BY DEF Insert
<1>2. /\ table'[s].key = current_timestamp /\ table'[s].word = table[s].word
      /\ \A u \in Slot \ {s} : table'[u] = table[u]
  BY <1>1 DEF TypeOK
<1>3. local'[writer] = [local[writer] EXCEPT !.latest = s] /\ \A u \in Thread \ {writer} : local'[u] = local[u]
  BY <1>1 DEF LocalOK, Thread
<1>4. UNCHANGED <<current_timestamp, freed>> /\ versions' = Append(versions, root) /\ Moves(writer, "insert", "value")
  BY <1>3 DEF Insert, Moves, Goto, TypeOK, Thread
<1> QED BY <1>1, <1>2, <1>3, <1>4

LEMMA ValueEffect ==
  ASSUME TypeOK, LocalOK, InsertValue, local[writer].latest \in Slot
  PROVE  /\ UNCHANGED <<current_timestamp, versions, freed, local>> /\ Moves(writer, "value", "publish")
         /\ table' = [table EXCEPT ![local[writer].latest] =
              [key |-> current_timestamp, word |-> [ts |-> current_timestamp, ct |-> 1],
               root |-> versions[current_timestamp + 1]]]
         /\ table'[local[writer].latest] =
              [key |-> current_timestamp, word |-> [ts |-> current_timestamp, ct |-> 1],
               root |-> versions[current_timestamp + 1]]
         /\ \A u \in Slot \ {local[writer].latest} : table'[u] = table[u]
BY DEF TypeOK, InsertValue, Set, Moves, Goto, Thread

LEMMA PublishEffect ==
  ASSUME TypeOK, Publish
  PROVE  /\ UNCHANGED <<table, versions, freed, local>> /\ Moves(writer, "publish", "held")
         /\ current_timestamp' = current_timestamp + 1
BY DEF TypeOK, Publish, Moves, Goto, Thread

----------------------------------------------------------------------------
(* Counting references. *)

LEMMA HeldFinite == \A s : IsFiniteSet(Held(s)) /\ Cardinality(Held(s)) \in Nat
<1>1. IsFiniteSet(Thread)
  BY ReaderAssumption, FS_AddElement DEF Thread
<1>2. \A s : Held(s) \subseteq Thread
  BY DEF Held
<1> QED BY <1>1, <1>2, FS_Subset, FS_CardinalityType

\* A thread that takes, gives back or keeps its reference.
LEMMA HeldSame ==
  ASSUME NEW t \in Thread, \A u \in Thread \ {t} : pc'[u] = pc[u] /\ local'[u] = local[u],
         pc'[t] \in Holding <=> pc[t] \in Holding,
         pc[t] \in Holding => local'[t].slot = local[t].slot
  PROVE  \A s : Held(s)' = Held(s)
BY DEF Held

LEMMA HeldMore ==
  ASSUME NEW t \in Thread, \A u \in Thread \ {t} : pc'[u] = pc[u] /\ local'[u] = local[u],
         pc'[t] \in Holding, pc[t] \notin Holding, NEW s, local'[t].slot = s
  PROVE  /\ Held(s)' = Held(s) \cup {t} /\ \A u : u # s => Held(u)' = Held(u)
         /\ Cardinality(Held(s)') = Cardinality(Held(s)) + 1
<1>1. Held(s)' = Held(s) \cup {t} /\ t \notin Held(s) /\ \A u : u # s => Held(u)' = Held(u)
  BY DEF Held
<1> QED BY <1>1, HeldFinite, FS_AddElement

LEMMA HeldLess ==
  ASSUME NEW t \in Thread, \A u \in Thread \ {t} : pc'[u] = pc[u] /\ local'[u] = local[u],
         pc'[t] \notin Holding, pc[t] \in Holding, NEW s, local[t].slot = s
  PROVE  /\ Held(s)' = Held(s) \ {t} /\ \A u : u # s => Held(u)' = Held(u)
         /\ Cardinality(Held(s)') = Cardinality(Held(s)) - 1
         /\ Cardinality(Held(s)) >= 1
<1>1. Held(s)' = Held(s) \ {t} /\ t \in Held(s) /\ \A u : u # s => Held(u)' = Held(u)
  BY DEF Held
<1>2. Cardinality(Held(s)') = Cardinality(Held(s)) - 1 /\ IsFiniteSet(Held(s)')
  BY <1>1, HeldFinite, FS_RemoveElement
<1>3. Cardinality(Held(s)') \in Nat
  BY <1>2, FS_CardinalityType
<1> QED BY <1>1, <1>2, <1>3, HeldFinite

LEMMA HeldEmpty ==
  ASSUME NEW s, Cardinality(Held(s)) = 0
  PROVE  Held(s) = {}
BY HeldFinite, FS_EmptySet

----------------------------------------------------------------------------
(* One lemma for each kind of step: it keeps every part of the invariant. *)

\* The types of the variables from those of each.
LEMMA Typed ==
  ASSUME LocalOK', current_timestamp' \in 1..(MaxVersion + 1),
         table' \in [Slot -> [key : {max_key, tombstone} \cup 0..MaxVersion, word : Word,
                             root : {nullptr} \cup 0..MaxVersion]],
         versions' \in Seq({nullptr} \cup 0..MaxVersion), freed' \in [0..MaxVersion -> Nat],
         pc' \in [Thread -> {"idle"} \cup Acquiring \cup Holding \cup Releasing]
  PROVE  TypeOK'
<1>1. \A u \in Thread : /\ local'[u].slot \in Slot /\ local'[u].latest \in Nat /\ local'[u].seen \in Word
                        /\ local'[u].timestamp \in 0..MaxVersion /\ local'[u].root \in {nullptr} \cup 0..MaxVersion
  BY DEF LocalOK, Version
<1> QED BY <1>1 DEF TypeOK

\* The steps that change no shared variable.
LEMMA QuietTypes ==
  ASSUME Inv, NEW t \in Thread,
         \/ Acquire(t) \/ ReadLatest(t) \/ Find(t) \/ Look(t) \/ Load(t) \/ CasFails(t)
         \/ CheckStale(t) \/ Reread(t) \/ (Unref(t) /\ table[local[t].slot].word # local[t].seen)
  PROVE  TypeOK' /\ LocalOK'
<1> USE DEF Inv
<1>1. pc' \in [Thread -> {"idle"} \cup Acquiring \cup Holding \cup Releasing]
  BY DEF TypeOK, Acquire, ReadLatest, Find, Look, Load, CasFails, CheckStale, Reread, Unref, Goto, Leave,
         Acquiring, Releasing
<1>2. LocalOK'
  <2>1. CASE Acquire(t) \/ Look(t) \/ CasFails(t)
    BY <2>1 DEF LocalOK, Acquire, Look, CasFails
  <2>2. CASE ReadLatest(t)
    BY <2>2, Basics DEF LocalOK, ReadLatest
  <2>3. CASE Find(t)
    BY <2>3 DEF LocalOK, Find
  <2>4. CASE Load(t)
    <3>1. local[t].slot \in Slot
      BY Basics
    <3>2. table[local[t].slot].word.ct > 0 => table[local[t].slot].word \in Word /\ table[local[t].slot].key \in Version
      BY <3>1, Basics DEF CountInv, CountOf
    <3> QED BY <2>4, <3>2 DEF LocalOK, Load
  <2>5. CASE CheckStale(t) \/ Unref(t)
    BY <2>5, NothingType DEF LocalOK, CheckStale, Unref, Leave
  <2>6. CASE Reread(t)
    <3>1. table[local[t].slot].word \in Word
      BY Basics
    <3> QED BY <2>6, <3>1, NothingType DEF LocalOK, Reread, Leave
  <2> QED BY <2>1, <2>2, <2>3, <2>4, <2>5, <2>6
<1>3. UNCHANGED <<current_timestamp, table, versions, freed>>
  BY QuietSteps DEF SharedSame
<1> QED BY <1>1, <1>2, <1>3, Typed DEF TypeOK

LEMMA QuietShared ==
  ASSUME Inv, NEW t \in Thread,
         \/ Acquire(t) \/ ReadLatest(t) \/ Find(t) \/ Look(t) \/ Load(t) \/ CasFails(t)
         \/ CheckStale(t) \/ Reread(t) \/ (Unref(t) /\ table[local[t].slot].word # local[t].seen)
  PROVE  CountInv' /\ KeyInv' /\ DutyInv' /\ TreeInv'
<1>1. /\ SharedSame
      /\ \A u \in Thread \ {t} : pc'[u] = pc[u] /\ local'[u] = local[u]
      /\ pc'[t] \in {"idle", "latest", "find", "look", "load", "cas", "reread", "unref"}
      /\ pc[t] \in {"idle"} \cup Acquiring \cup Dropping
  BY QuietSteps DEF Inv
<1>2. pc[t] \notin Holding \cup Dying /\ pc'[t] \notin Holding \cup Dying
  BY <1>1 DEF Acquiring, Dropping, Holding, Dying
<1>3. CountInv'
  <2>1. \A s : Held(s)' = Held(s)
    BY <1>1, <1>2, HeldSame
  <2> HIDE DEF Held
  <2> QED BY <1>1, <2>1 DEF Inv, CountInv, CountOf, SharedSame
<1>4. KeyInv' /\ TreeInv'
  <2>1. /\ pc'[writer] \in {"value", "publish"} <=> pc[writer] \in {"value", "publish"}
        /\ pc[writer] \in {"value", "publish"} => local'[writer] = local[writer]
    BY <1>1, <1>2 DEF Thread, Holding
  <2>2. latest_timestamp' = latest_timestamp
    BY <1>1 DEF SharedSame, latest_timestamp
  <2>3. KeyInv'
    BY <1>1, <2>1, <2>2 DEF Inv, KeyInv, SharedSame
  <2>4. TreeInv'
    BY <1>1, <2>1, <2>2 DEF Inv, TreeInv, SharedSame
  <2> QED BY <2>3, <2>4
<1>5. DutyInv'
  <2>1. latest_timestamp' = latest_timestamp /\ table' = table
    BY <1>1 DEF SharedSame, latest_timestamp
  <2>2. pc[writer] = "value" => pc'[writer] = "value" /\ local'[writer] = local[writer]
    BY <1>1, <1>2 DEF Thread, Holding
  <2>3. ASSUME NEW s \in Slot, NEW u \in Thread, pc[u] \in Dying /\ local[u].slot = s
        PROVE  pc'[u] \in Dying /\ local'[u].slot = s
    BY <1>1, <1>2, <2>3
  <2>4. ASSUME NEW s \in Slot, table[s].key \in 0 .. (latest_timestamp - 1), table[s].word.ct = 1,
               NEW u \in Thread, pc[u] \in Dropping /\ local[u].slot = s
        PROVE  pc'[u] \in Dropping /\ local'[u].slot = s
    <3>1. CASE u # t
      BY <1>1, <2>4, <3>1
    <3>2. CASE u = t
      <4>1. table[s].key = local[t].timestamp /\ local[t].timestamp # latest_timestamp
        <5>1. latest_timestamp \in Nat /\ tombstone \notin Nat
          BY Basics DEF Inv
        <5>2. table[s].key \in {local[t].timestamp, tombstone} /\ table[s].key \in Nat /\ table[s].key # latest_timestamp
          <6>1. UseInv
            BY DEF Inv
          <6>2. table[local[t].slot].key \in {local[t].timestamp, tombstone}
            BY <2>4, <3>2, <6>1 DEF UseInv, UseOf
          <6>3. table[s].key \in 0 .. (latest_timestamp - 1) /\ s = local[t].slot
            BY <2>4, <3>2
          <6> QED BY <5>1, <6>2, <6>3
        <5> QED BY <5>1, <5>2
      <4>2. pc[t] = "unref" => table[local[t].slot].word = local[t].seen
        <5>1. pc[t] = "unref" => local[t].seen = [ts |-> local[t].timestamp, ct |-> 1]
          BY DEF Inv, UseInv, UseOf
        <5>2. table[s].word = [ts |-> table[s].word.ts, ct |-> table[s].word.ct]
          BY <2>4, Basics DEF Inv, Word
        <5>3. table[s].word.ts = table[s].key
          BY <2>4 DEF Inv, CountInv, CountOf
        <5> QED BY <2>4, <3>2, <4>1, <5>1, <5>2, <5>3
      <4>3. CheckStale(t) \/ Reread(t)
        BY <2>4, <3>2, <4>2 DEF Dropping, Acquire, ReadLatest, Find, Look, Load, CasFails, Unref
      <4>4. CASE CheckStale(t)
        BY <2>4, <3>2, <4>1, <4>4 DEF Inv, CheckStale, Goto, Dropping, TypeOK
      <4>5. CASE Reread(t)
        BY <2>4, <3>2, <4>1, <4>5 DEF Inv, Reread, Goto, Dropping, TypeOK, LocalOK
      <4> QED BY <4>3, <4>4, <4>5
    <3> QED BY <3>1, <3>2
  <2>5. ASSUME NEW s \in Slot
        PROVE  /\ table[s].key \in Version /\ table[s].word.ct = 0 =>
                    \/ pc'[writer] = "value" /\ local'[writer].latest = s
                    \/ \E u \in Thread : pc'[u] \in Dying /\ local'[u].slot = s
               /\ table[s].key \in 0 .. (latest_timestamp - 1) /\ table[s].word.ct = 1 =>
                    \E u \in Thread : pc'[u] \in Dropping /\ local'[u].slot = s
    BY <2>2, <2>3, <2>4 DEF Inv, DutyInv, DutyOf
  <2> HIDE DEF Dying, Dropping
  <2> QED BY <2>1, <2>5 DEF DutyInv, DutyOf
<1> QED BY <1>3, <1>4, <1>5

LEMMA QuietThreads ==
  ASSUME Inv, NEW t \in Thread,
         \/ Acquire(t) \/ ReadLatest(t) \/ Find(t) \/ Look(t) \/ Load(t) \/ CasFails(t)
         \/ CheckStale(t) \/ Reread(t) \/ (Unref(t) /\ table[local[t].slot].word # local[t].seen)
  PROVE  SeekInv' /\ UseInv' /\ DyingInv' /\ WriterInv'
<1>1. /\ SharedSame /\ latest_timestamp' = latest_timestamp
      /\ \A u \in Thread \ {t} : pc'[u] = pc[u] /\ local'[u] = local[u]
      /\ pc'[t] \in {"idle", "latest", "find", "look", "load", "cas", "reread", "unref"}
      /\ pc[t] \in {"idle"} \cup Acquiring \cup Dropping
  BY QuietSteps DEF Inv, SharedSame, latest_timestamp
<1>2. /\ TypeOK /\ LocalOK /\ local[t].slot \in Slot /\ local[t].latest \in Nat /\ latest_timestamp \in Nat
      /\ table[local[t].slot].word \in Word /\ table[local[t].slot].word.ct \in Nat
      /\ table[local[t].slot].word.ct > 0 => table[local[t].slot].key \in Nat
  BY Basics DEF Inv, CountInv, CountOf
<1>7. /\ max_key \notin Nat /\ tombstone \notin Nat /\ local[t].timestamp \in Nat
      /\ table[local[t].slot].word.ct > 0 => table[local[t].slot].key \in Version
  BY <1>2, Basics DEF Inv, CountInv, CountOf
<1>3. SeekOf(t)' /\ UseOf(t)'
  <2> USE DEF SeekOf, UseOf, Inv, SharedSame, Goto, Leave, Seeking, Using, Holding, Dropping, Dying
  <2>1. SeekOf(t) /\ UseOf(t)
    BY DEF SeekInv, SeekOf, UseInv, UseOf
  <2>2. CASE Acquire(t)
    BY <1>1, <1>2, <2>1, <2>2 DEF TypeOK, Acquire
  <2>3. CASE ReadLatest(t)
    BY <1>1, <1>2, <2>1, <2>3 DEF TypeOK, LocalOK, ReadLatest
  <2>4. CASE Find(t)
    BY <1>1, <1>2, <2>1, <2>4 DEF TypeOK, LocalOK, Find
  <2>5. CASE Look(t)
    BY <1>1, <1>2, <2>1, <2>5 DEF TypeOK, Look
  <2>6. CASE Load(t)
    BY <1>1, <1>2, <1>7, <2>1, <2>6 DEF TypeOK, LocalOK, Load
  <2>7. CASE CasFails(t)
    BY <1>1, <1>2, <2>1, <2>7 DEF TypeOK, CasFails
  <2>8. CASE CheckStale(t)
    BY <1>1, <1>2, <1>7, <2>1, <2>8 DEF TypeOK, LocalOK, CheckStale
  <2>9. CASE Reread(t)
    <3>1. CASE table[local[t].slot].word.ct = 1
      <4>1. pc'[t] = "unref" /\ local'[t] = [local[t] EXCEPT !.seen = table[local[t].slot].word] /\ pc[t] = "reread"
        BY <1>1, <1>2, <2>9, <3>1 DEF TypeOK, LocalOK, Reread
      <4>2. local'[t].seen = table[local[t].slot].word /\ local'[t].timestamp = local[t].timestamp
            /\ local'[t].root = local[t].root /\ local'[t].slot = local[t].slot
        BY <1>2, <4>1 DEF LocalOK
      <4>3. table[local[t].slot].word = [ts |-> local[t].timestamp, ct |-> 1]
        <5>1. table[local[t].slot].word.ts = table[local[t].slot].key /\ table[local[t].slot].key \in Nat
          BY <1>2, <3>1 DEF CountInv, CountOf
        <5>2. table[local[t].slot].key = local[t].timestamp
          BY <2>1, <4>1, <5>1, Basics
        <5> QED BY <1>2, <3>1, <5>1, <5>2 DEF Word
      <4> QED BY <1>1, <2>1, <4>1, <4>2, <4>3
    <3>2. CASE table[local[t].slot].word.ct # 1
      BY <1>1, <1>2, <2>1, <2>9, <3>2 DEF TypeOK, LocalOK, Reread
    <3> QED BY <3>1, <3>2
  <2>10. CASE Unref(t) /\ table[local[t].slot].word # local[t].seen
    BY <1>1, <1>2, <2>10 DEF TypeOK, LocalOK, Unref
  <2> QED BY <2>2, <2>3, <2>4, <2>5, <2>6, <2>7, <2>8, <2>9, <2>10
<1>4. SeekInv' /\ UseInv'
  <2>1. \A u \in Thread \ {t} : SeekOf(u)' /\ UseOf(u)'
    BY <1>1 DEF Inv, SeekInv, SeekOf, UseInv, UseOf, SharedSame
  <2>2. \A u \in Thread : SeekOf(u)' /\ UseOf(u)'
    BY <1>3, <2>1
  <2> QED BY <2>2 DEF SeekInv, SeekOf, UseInv, UseOf
<1>5. DyingInv'
  <2>1. pc[t] \notin Dying /\ pc'[t] \notin Dying
    BY <1>1 DEF Acquiring, Dropping, Dying
  <2> HIDE DEF Dying
  <2> QED BY <1>1, <2>1 DEF Inv, DyingInv, DyingOf, SharedSame
<1>6. WriterInv'
  <2> USE DEF Inv, SharedSame
  <2>1. pc'[writer] \in Acquiring => current_timestamp <= MaxVersion
    <3>1. CASE Acquire(t)
      BY <1>1, <3>1, Basics DEF Acquire, WriterInv
    <3>2. CASE ~Acquire(t) /\ t = writer /\ pc'[t] \in Acquiring
      <4>1. pc[t] \in Acquiring
        BY <3>2 DEF ReadLatest, Find, Look, Load, CasFails, CheckStale, Reread, Unref, Goto, Leave, TypeOK, Acquiring
      <4> QED BY <3>2, <4>1 DEF WriterInv
    <3>3. CASE t # writer
      BY <1>1, <3>3, Basics DEF WriterInv
    <3> QED BY <3>1, <3>2, <3>3
  <2>2. \/ pc'[writer] \notin {"insert", "value", "publish"} /\ t = writer
        \/ pc'[writer] = pc[writer] /\ local'[writer] = local[writer] /\ t # writer
    BY <1>1, Basics
  <2>3. ASSUME pc'[writer] = "value", NEW u \in Thread, pc'[u] \in Seeking \cup Using
        PROVE  local'[u].slot # local[writer].latest
    <3>1. pc[writer] = "value" /\ t # writer
      BY <2>2, <2>3
    <3>2. table[local[writer].latest].key = current_timestamp /\ current_timestamp > latest_timestamp
      BY <3>1, Basics DEF WriterInv, latest_timestamp
    <3>3. CASE u # t
      BY <1>1, <2>3, <3>1, <3>3 DEF WriterInv
    <3>4. CASE u = t /\ pc'[u] \in Seeking
      <4>1. table[local'[t].slot].key \in {local'[t].latest, tombstone} /\ local'[t].latest <= latest_timestamp
        BY <1>1, <1>3, <2>3, <3>4 DEF SeekOf
      <4>2. local'[t].latest \in Nat
        BY QuietTypes, Basics DEF LocalOK
      <4> QED BY <3>2, <3>4, <4>1, <4>2, Basics
    <3>5. CASE u = t /\ pc'[u] \notin Seeking
      <4>1. pc'[t] \in {"reread", "unref"}
        BY <1>1, <2>3, <3>5 DEF Seeking, Using, Holding, Dropping, Dying
      <4>2. pc[t] \in Dropping /\ local'[t].slot = local[t].slot
        BY <4>1 DEF Acquire, ReadLatest, Find, Look, Load, CasFails, CheckStale, Reread, Unref, Goto, Leave, TypeOK, LocalOK,
                    Dropping
      <4> QED BY <3>1, <3>5, <4>2 DEF WriterInv, Using
    <3> QED BY <3>3, <3>4, <3>5
  <2> QED BY <1>1, <2>1, <2>2, <2>3 DEF WriterInv
<1> QED BY <1>4, <1>5, <1>6

\* A count that stays a number keeps the table's type.
LEMMA CountedTypes ==
  ASSUME TypeOK, NEW s \in Slot, NEW n \in Nat, Counted(s, n)
  PROVE  table' \in [Slot -> [key : {max_key, tombstone} \cup 0..MaxVersion, word : Word,
                              root : {nullptr} \cup 0..MaxVersion]]
<1>1. ASSUME NEW u \in Slot
      PROVE  table'[u] \in [key : {max_key, tombstone} \cup 0..MaxVersion, word : Word,
                            root : {nullptr} \cup 0..MaxVersion]
  <2>1. CASE u = s
    <3>1. table'[s] \in [key : {max_key, tombstone} \cup 0..MaxVersion, word : [ts : 0..MaxVersion, ct : Int],
                         root : {nullptr} \cup 0..MaxVersion] /\ table'[s].word.ct \in Nat
      BY DEF Counted
    <3>2. table'[s].word \in Word
      BY <3>1 DEF Word
    <3> QED BY <2>1, <3>1, <3>2
  <2>2. CASE u # s
    BY <2>2 DEF Counted, TypeOK
  <2> QED BY <2>1, <2>2
<1> QED BY <1>1 DEF Counted

\* Another reference.
LEMMA AcquiredTypes ==
  ASSUME Inv, NEW t \in Thread, Acquired(t)
  PROVE  TypeOK' /\ LocalOK'
<1>1. /\ TypeOK /\ LocalOK /\ local[t].slot \in Slot /\ table[local[t].slot].word.ct + 1 \in Nat
      /\ table[local[t].slot].root \in {nullptr} \cup Version
  BY Basics DEF Inv
<1>2. table' \in [Slot -> [key : {max_key, tombstone} \cup 0..MaxVersion, word : Word,
                           root : {nullptr} \cup 0..MaxVersion]]
  BY <1>1, AcquiredEffect, CountedTypes
<1>3. LocalOK'
  BY <1>1 DEF LocalOK, Acquired
<1>4. pc' \in [Thread -> {"idle"} \cup Acquiring \cup Holding \cup Releasing]
  BY <1>1 DEF TypeOK, Acquired, Goto, Holding
<1>5. UNCHANGED <<current_timestamp, versions, freed>>
  BY DEF Acquired
<1> QED BY <1>1, <1>2, <1>3, <1>4, <1>5, Typed DEF TypeOK

LEMMA AcquiredShared ==
  ASSUME Inv, NEW t \in Thread, Acquired(t)
  PROVE  CountInv' /\ KeyInv' /\ DutyInv' /\ TreeInv'
<1>0. PICK s \in Slot : s = local[t].slot
  BY Basics DEF Inv
<1>1. /\ UNCHANGED <<current_timestamp, versions, freed>> /\ latest_timestamp' = latest_timestamp
      /\ Moves(t, "cas", IF t = writer THEN "insert" ELSE "held")
      /\ table[s].word = local[t].seen
      /\ Counted(s, table[s].word.ct + 1)
      /\ local'[t] = [local[t] EXCEPT !.root = table[s].root]
  BY <1>0, AcquiredEffect DEF Inv, latest_timestamp
<1>2. /\ TypeOK /\ LocalOK /\ s \in Slot /\ table[s].word.ct \in Nat /\ table[s].word.ct > 0 /\ local'[t].slot = s
  <2>1. TypeOK /\ LocalOK /\ s \in Slot /\ table[s].word.ct \in Nat
    BY <1>0, Basics DEF Inv
  <2>2. local[t].seen.ct > 0
    BY <1>1 DEF Inv, SeekInv, SeekOf, Moves
  <2>3. local'[t].slot = s
    BY <1>0, <1>1, <2>1 DEF LocalOK
  <2> QED BY <1>1, <2>1, <2>2, <2>3
<1>3. /\ pc[t] = "cas" /\ pc'[t] \in Holding /\ pc'[t] \notin {"value", "publish"} \cup Dying \cup Dropping
      /\ pc[t] \notin Holding \cup Dying \cup Dropping
      /\ \A u \in Thread \ {t} : pc'[u] = pc[u] /\ local'[u] = local[u]
  BY <1>1 DEF Moves, Holding, Dying, Dropping
<1>4. \A u \in Slot : table'[u].key = table[u].key
  BY <1>1 DEF Counted
<1>5. CountInv'
  <2>1. Cardinality(Held(s)') = Cardinality(Held(s)) + 1 /\ \A u : u # s => Held(u)' = Held(u)
    BY <1>2, <1>3, HeldMore
  <2>2. CountOf(s)'
    <3>1. CountOf(s)
      BY <1>2 DEF Inv, CountInv
    <3>2. Cardinality(Held(s)) \in Nat
      BY HeldFinite
    <3> HIDE DEF Held
    <3> QED BY <1>1, <1>2, <2>1, <3>1, <3>2 DEF CountOf, Counted
  <2>3. ASSUME NEW u \in Slot, u # s
        PROVE  CountOf(u)'
    <3>1. CountOf(u) /\ table'[u] = table[u] /\ Held(u)' = Held(u)
      BY <1>1, <2>1, <2>3 DEF Inv, CountInv, Counted
    <3> HIDE DEF Held
    <3> QED BY <1>1, <3>1 DEF CountOf
  <2> QED BY <2>2, <2>3 DEF CountInv
<1>6. /\ pc'[writer] \in {"value", "publish"} <=> pc[writer] \in {"value", "publish"}
      /\ pc[writer] \in {"value", "publish"} => local'[writer] = local[writer] /\ pc'[writer] = pc[writer]
  BY <1>3 DEF Thread, Holding
<1>7. KeyInv' /\ TreeInv'
  <2>1. KeyInv'
    BY <1>1, <1>4, <1>6 DEF Inv, KeyInv
  <2>2. TreeInv'
    BY <1>1, <1>4, <1>6 DEF Inv, TreeInv
  <2> QED BY <2>1, <2>2
<1>8. DutyInv'
  <2>1. ASSUME NEW u \in Slot PROVE DutyOf(u)'
    <3>1. DutyOf(u)
      BY DEF Inv, DutyInv
    <3>2. CASE u = s
      BY <1>1, <1>2, <3>2 DEF DutyOf, Counted
    <3>3. CASE u # s
      <4>1. table'[u] = table[u]
        BY <1>1, <3>3 DEF Counted
      <4>2. \A v \in Thread : pc[v] \in Dying \cup Dropping => pc'[v] = pc[v] /\ local'[v] = local[v]
        BY <1>3
      <4> HIDE DEF Dying, Dropping
      <4> QED BY <1>1, <1>6, <3>1, <4>1, <4>2 DEF DutyOf
    <3> QED BY <3>2, <3>3
  <2> QED BY <2>1 DEF DutyInv
<1> QED BY <1>5, <1>7, <1>8

LEMMA AcquiredThreads ==
  ASSUME Inv, NEW t \in Thread, Acquired(t)
  PROVE  SeekInv' /\ UseInv' /\ DyingInv' /\ WriterInv'
<1>0. PICK s \in Slot : s = local[t].slot
  BY Basics DEF Inv
<1>1. /\ UNCHANGED <<current_timestamp, versions, freed>> /\ latest_timestamp' = latest_timestamp
      /\ Moves(t, "cas", IF t = writer THEN "insert" ELSE "held")
      /\ table[s].word = local[t].seen
      /\ Counted(s, table[s].word.ct + 1)
      /\ local'[t] = [local[t] EXCEPT !.root = table[s].root]
  BY <1>0, AcquiredEffect DEF Inv, latest_timestamp
<1>2. /\ TypeOK /\ LocalOK /\ s \in Slot /\ table[s].word.ct \in Nat
      /\ tombstone \notin Nat /\ local[t].latest \in Nat /\ Version \subseteq Nat
      /\ \A u \in Thread : local[u].slot \in Slot
      /\ \A u \in Slot : table[u].word.ct \in Nat
  BY Basics DEF Inv
<1>3. /\ local'[t].slot = s /\ local'[t].timestamp = local[t].timestamp /\ local'[t].root = table[s].root
      /\ local'[t].latest = local[t].latest
  BY <1>0, <1>1, <1>2 DEF LocalOK
<1>4. /\ local[t].seen.ct > 0 /\ local[t].timestamp = local[t].latest /\ local[t].latest <= latest_timestamp
      /\ t = writer => local[t].latest = latest_timestamp
      /\ table[s].key \in {local[t].latest, tombstone}
  BY <1>0, <1>1 DEF Inv, SeekInv, SeekOf, Moves, Seeking
<1>5. table[s].word.ct > 0 /\ table[s].key = local[t].timestamp /\ table[s].root = versions[local[t].timestamp + 1]
  BY <1>1, <1>2, <1>4 DEF Inv, CountInv, CountOf
<1>6. /\ pc[t] = "cas" /\ pc'[t] \in Holding /\ pc'[t] \notin {"value", "publish"} \cup Dying \cup Dropping \cup Seeking
      /\ pc'[t] # "find" /\ pc[t] \notin Holding \cup Dying \cup Dropping /\ pc'[t] \in {"insert", "held"}
      /\ t = writer => pc'[t] = "insert"
      /\ \A u \in Thread \ {t} : pc'[u] = pc[u] /\ local'[u] = local[u]
  BY <1>1 DEF Moves, Holding, Dying, Dropping, Seeking
<1>7. /\ \A u \in Slot : table'[u].key = table[u].key /\ table'[u].word.ct >= table[u].word.ct
      /\ \A u \in Slot \ {s} : table'[u] = table[u]
  BY <1>1, <1>2 DEF Counted
<1>8. ASSUME NEW u \in Thread PROVE SeekOf(u)' /\ UseOf(u)' /\ DyingOf(u)'
  <2>1. CASE u = t
    <3>1. SeekOf(t)' /\ DyingOf(t)'
      BY <1>6 DEF SeekOf, DyingOf, Seeking
    <3>2. UseOf(t)'
      <4>1. pc'[t] \notin {"reread", "unref"} \cup Dropping
        BY <1>6 DEF Dropping
      <4>2. table'[s].word.ct > 0 /\ local'[t].timestamp <= latest_timestamp
        BY <1>2, <1>3, <1>4, <1>5, <1>1 DEF Counted
      <4>3. pc'[t] # "unref"
        BY <1>6
      <4> QED BY <1>1, <1>3, <1>5, <1>7, <4>1, <4>2, <4>3 DEF UseOf
    <3> QED BY <2>1, <3>1, <3>2
  <2>2. CASE u # t
    <3>1. SeekOf(u) /\ UseOf(u) /\ DyingOf(u) /\ pc'[u] = pc[u] /\ local'[u] = local[u] /\ local[u].slot \in Slot
      BY <1>2, <1>6, <2>2 DEF Inv, SeekInv, UseInv, DyingInv
    <3>2. SeekOf(u)'
      BY <1>1, <1>7, <3>1 DEF SeekOf
    <3>3. UseOf(u)'
      <4>1. table[local[u].slot].word.ct > 0 => table'[local[u].slot].word.ct > 0
        BY <1>1, <1>2, <3>1 DEF Counted
      <4> QED BY <1>1, <1>7, <3>1, <4>1 DEF UseOf
    <3>4. DyingOf(u)'
      <4>1. SUFFICES ASSUME pc[u] \in Dying PROVE DyingOf(u)'
        BY <3>1 DEF DyingOf
      <4>2. local[u].slot # s
        BY <1>5, <3>1, <4>1 DEF DyingOf
      <4>3. \A v \in Thread : pc'[v] \in Dying => pc[v] \in Dying /\ local'[v] = local[v]
        BY <1>6
      <4>4. table'[local[u].slot] = table[local[u].slot]
        BY <1>7, <3>1, <4>2
      <4> HIDE DEF Dying
      <4> QED BY <1>1, <3>1, <4>1, <4>3, <4>4 DEF DyingOf
    <3> QED BY <3>2, <3>3, <3>4
  <2> QED BY <2>1, <2>2
<1>9. WriterInv'
  <2>1. writer \in Thread /\ WriterInv
    BY <1>2, Basics DEF Inv
  <2>2. CASE t = writer
    <3>1. current_timestamp <= MaxVersion /\ pc'[writer] = "insert" /\ local'[writer].timestamp = latest_timestamp
      BY <1>3, <1>4, <1>6, <2>1, <2>2 DEF WriterInv, Acquiring
    <3> QED BY <1>1, <3>1 DEF WriterInv
  <2>3. CASE t # writer
    <3>1. pc'[writer] = pc[writer] /\ local'[writer] = local[writer]
      BY <1>6, <2>1, <2>3
    <3>2. pc[writer] = "value" => local[writer].latest # s /\ local[writer].latest \in Slot
      BY <1>5, <2>1 DEF WriterInv
    <3>3. pc[writer] = "value" => table'[local[writer].latest].word.ct = 0
      BY <1>7, <2>1, <3>2 DEF WriterInv
    <3>4. ASSUME pc[writer] = "value", NEW u \in Thread, pc'[u] \in Seeking \cup Using
          PROVE  local'[u].slot # local[writer].latest
      <4>1. CASE u = t
        BY <1>3, <3>2, <3>4, <4>1
      <4>2. CASE u # t
        BY <1>6, <2>1, <3>4, <4>2 DEF WriterInv
      <4> QED BY <4>1, <4>2
    <3> QED BY <1>1, <1>7, <2>1, <3>1, <3>3, <3>4 DEF WriterInv
  <2> QED BY <2>2, <2>3
<1> QED BY <1>8, <1>9 DEF SeekInv, UseInv, DyingInv

\* A reference given back.
LEMMA ReleaseTypes ==
  ASSUME Inv, NEW t \in Thread, Release(t)
  PROVE  TypeOK' /\ LocalOK' /\ table[local[t].slot].word.ct >= 2
<1>1. /\ TypeOK /\ LocalOK /\ local[t].slot \in Slot /\ table[local[t].slot].word.ct \in Nat
  BY Basics DEF Inv
<1>2. table[local[t].slot].word.ct >= 2
  <2>1. PICK s \in Slot : s = local[t].slot
    BY <1>1
  <2>2. pc[t] \in Holding
    BY DEF Release, Holding
  <2>3. Held(s) # {} /\ Cardinality(Held(s)) # 0
    <3>1. t \in Held(s)
      BY <2>1, <2>2 DEF Held
    <3> QED BY <3>1, HeldEmpty
  <2>4. CountOf(s) /\ table[s].word.ct > 0
    BY <2>1, <2>2 DEF Inv, CountInv, UseInv, UseOf
  <2> HIDE DEF Held
  <2> QED BY <1>1, <2>1, <2>3, <2>4, HeldFinite DEF CountOf
<1>3. table' \in [Slot -> [key : {max_key, tombstone} \cup 0..MaxVersion, word : Word,
                           root : {nullptr} \cup 0..MaxVersion]]
  <2>1. table[local[t].slot].word.ct - 1 \in Nat
    BY <1>1, <1>2
  <2> QED BY <1>1, <2>1, ReleaseEffect, CountedTypes
<1>4. LocalOK'
  BY <1>1, NothingType DEF LocalOK, Release, Leave
<1>5. pc' \in [Thread -> {"idle"} \cup Acquiring \cup Holding \cup Releasing]
  BY <1>1 DEF TypeOK, Release, Goto, Leave, Releasing
<1>6. UNCHANGED <<current_timestamp, versions, freed>>
  BY DEF Release
<1> QED BY <1>1, <1>2, <1>3, <1>4, <1>5, <1>6, Typed DEF TypeOK

LEMMA ReleaseShared ==
  ASSUME Inv, NEW t \in Thread, Release(t)
  PROVE  CountInv' /\ KeyInv' /\ DutyInv' /\ TreeInv'
<1>0. PICK s \in Slot : s = local[t].slot
  BY Basics DEF Inv
<1>1. /\ UNCHANGED <<current_timestamp, versions, freed>> /\ latest_timestamp' = latest_timestamp
      /\ Counted(s, table[s].word.ct - 1)
      /\ \/ table[s].word.ct = 2 /\ Moves(t, "held", "stale") /\ local' = local
         \/ table[s].word.ct # 2 /\ Moves(t, "held", "idle") /\ local'[t] = Nothing
  BY <1>0, ReleaseEffect DEF Inv, latest_timestamp
<1>2. /\ table[s].word.ct \in Nat /\ table[s].word.ct >= 2
  BY <1>0, ReleaseTypes, Basics DEF Inv
<1>3. /\ pc[t] = "held" /\ pc[t] \in Holding /\ pc'[t] \notin Holding /\ pc'[t] \notin {"value", "publish"} \cup Dying
      /\ pc[t] \notin Dying \cup Dropping
      /\ \A u \in Thread \ {t} : pc'[u] = pc[u] /\ local'[u] = local[u]
  BY <1>1 DEF Moves, Holding, Dying, Dropping
<1>4. \A u \in Slot : table'[u].key = table[u].key
  BY <1>1 DEF Counted
<1>5. CountInv'
  <2>1. /\ Cardinality(Held(s)') = Cardinality(Held(s)) - 1 /\ Cardinality(Held(s)) \in Nat
        /\ \A u : u # s => Held(u)' = Held(u)
    BY <1>0, <1>3, HeldLess, HeldFinite
  <2>2. CountOf(s)'
    <3>1. CountOf(s)
      BY DEF Inv, CountInv
    <3> HIDE DEF Held
    <3> QED BY <1>1, <1>2, <2>1, <3>1 DEF CountOf, Counted
  <2>3. ASSUME NEW u \in Slot, u # s
        PROVE  CountOf(u)'
    <3>1. CountOf(u) /\ table'[u] = table[u] /\ Held(u)' = Held(u)
      BY <1>1, <2>1, <2>3 DEF Inv, CountInv, Counted
    <3> HIDE DEF Held
    <3> QED BY <1>1, <3>1 DEF CountOf
  <2> QED BY <2>2, <2>3 DEF CountInv
<1>6. /\ pc'[writer] \in {"value", "publish"} <=> pc[writer] \in {"value", "publish"}
      /\ pc[writer] \in {"value", "publish"} => local'[writer] = local[writer] /\ pc'[writer] = pc[writer]
  BY <1>3 DEF Thread
<1>7. KeyInv' /\ TreeInv'
  <2>1. KeyInv'
    BY <1>1, <1>4, <1>6 DEF Inv, KeyInv
  <2>2. TreeInv'
    BY <1>1, <1>4, <1>6 DEF Inv, TreeInv
  <2> QED BY <2>1, <2>2
<1>8. DutyInv'
  <2>1. ASSUME NEW u \in Slot PROVE DutyOf(u)'
    <3>1. DutyOf(u)
      BY DEF Inv, DutyInv
    <3>2. CASE u = s
      <4>1. table'[s].word.ct > 0
        BY <1>1, <1>2 DEF Counted
      <4>2. table'[s].word.ct = 1 => pc'[t] \in Dropping /\ local'[t].slot = s
        <5>1. table'[s].word.ct = 1 => table[s].word.ct = 2
          <6>1. table'[s].word.ct = table[s].word.ct - 1
            BY <1>1 DEF Counted
          <6> QED BY <1>2, <6>1
        <5>2. table[s].word.ct = 2 => pc'[t] = "stale" /\ local' = local
          BY <1>1 DEF Moves
        <5> QED BY <1>0, <5>1, <5>2 DEF Dropping
      <4> HIDE DEF Dropping
      <4> QED BY <3>2, <4>1, <4>2 DEF DutyOf
    <3>3. CASE u # s
      <4>1. table'[u] = table[u]
        BY <1>1, <3>3 DEF Counted
      <4>2. \A v \in Thread : pc[v] \in Dying \cup Dropping => pc'[v] = pc[v] /\ local'[v] = local[v]
        BY <1>3
      <4> HIDE DEF Dying, Dropping
      <4> QED BY <1>1, <1>6, <3>1, <4>1, <4>2 DEF DutyOf
    <3> QED BY <3>2, <3>3
  <2> QED BY <2>1 DEF DutyInv
<1> QED BY <1>5, <1>7, <1>8

LEMMA ReleaseThreads ==
  ASSUME Inv, NEW t \in Thread, Release(t)
  PROVE  SeekInv' /\ UseInv' /\ DyingInv' /\ WriterInv'
<1>0. PICK s \in Slot : s = local[t].slot
  BY Basics DEF Inv
<1>1. /\ UNCHANGED <<current_timestamp, versions, freed>> /\ latest_timestamp' = latest_timestamp
      /\ Counted(s, table[s].word.ct - 1)
      /\ \/ table[s].word.ct = 2 /\ Moves(t, "held", "stale") /\ local' = local
         \/ table[s].word.ct # 2 /\ Moves(t, "held", "idle") /\ local'[t] = Nothing
  BY <1>0, ReleaseEffect DEF Inv, latest_timestamp
<1>2. /\ table[s].word.ct \in Nat /\ table[s].word.ct >= 2
      /\ \A u \in Thread : local[u].slot \in Slot
      /\ \A u \in Slot : table[u].word.ct \in Nat
  BY <1>0, ReleaseTypes, Basics DEF Inv
<1>3. /\ pc[t] = "held" /\ pc'[t] \in {"stale", "idle"} /\ pc[t] \notin Dying
      /\ \A u \in Thread \ {t} : pc'[u] = pc[u] /\ local'[u] = local[u]
      /\ pc'[t] = "stale" => local'[t] = local[t]
  BY <1>1 DEF Moves, Dying
<1>4. /\ \A u \in Slot : table'[u].key = table[u].key
      /\ \A u \in Slot : table[u].word.ct > 0 => table'[u].word.ct > 0
      /\ \A u \in Slot \ {s} : table'[u] = table[u]
  BY <1>1, <1>2 DEF Counted
<1>5. ASSUME NEW u \in Thread PROVE SeekOf(u)' /\ UseOf(u)' /\ DyingOf(u)'
  <2>1. CASE u = t
    <3>1. SeekOf(t)' /\ DyingOf(t)'
      BY <1>3 DEF SeekOf, DyingOf, Seeking, Dying
    <3>2. UseOf(t)'
      <4>1. UseOf(t) /\ local[t].slot \in Slot
        BY <1>2 DEF Inv, UseInv
      <4> QED BY <1>1, <1>3, <1>4, <4>1 DEF UseOf, Using, Holding, Dropping, Dying
    <3> QED BY <2>1, <3>1, <3>2
  <2>2. CASE u # t
    <3>1. SeekOf(u) /\ UseOf(u) /\ DyingOf(u) /\ pc'[u] = pc[u] /\ local'[u] = local[u] /\ local[u].slot \in Slot
      BY <1>2, <1>3, <2>2 DEF Inv, SeekInv, UseInv, DyingInv
    <3>2. SeekOf(u)'
      BY <1>1, <1>4, <3>1 DEF SeekOf
    <3>3. UseOf(u)'
      BY <1>1, <1>4, <3>1 DEF UseOf
    <3>4. DyingOf(u)'
      <4>1. SUFFICES ASSUME pc[u] \in Dying PROVE DyingOf(u)'
        BY <3>1 DEF DyingOf
      <4>2. local[u].slot # s
        BY <1>2, <3>1, <4>1 DEF DyingOf
      <4>3. \A v \in Thread : pc'[v] \in Dying => pc[v] \in Dying /\ local'[v] = local[v]
        BY <1>3 DEF Dying
      <4>4. table'[local[u].slot] = table[local[u].slot]
        BY <1>4, <3>1, <4>2
      <4> HIDE DEF Dying
      <4> QED BY <1>1, <3>1, <4>1, <4>3, <4>4 DEF DyingOf
    <3> QED BY <3>2, <3>3, <3>4
  <2> QED BY <2>1, <2>2
<1>6. WriterInv'
  <2>1. writer \in Thread /\ WriterInv
    BY Basics DEF Inv
  <2>2. CASE t = writer
    <3>1. pc'[writer] \notin Acquiring \cup {"insert", "value", "publish"}
      BY <1>3, <2>2 DEF Acquiring
    <3> QED BY <3>1 DEF WriterInv
  <2>3. CASE t # writer
    <3>1. pc'[writer] = pc[writer] /\ local'[writer] = local[writer]
      BY <1>3, <2>1, <2>3
    <3>2. pc[writer] = "value" => local[writer].latest # s /\ local[writer].latest \in Slot
      BY <1>2, <2>1 DEF WriterInv
    <3>3. pc[writer] = "value" => table'[local[writer].latest].word.ct = 0
      BY <1>4, <2>1, <3>2 DEF WriterInv
    <3>4. ASSUME pc[writer] = "value", NEW u \in Thread, pc'[u] \in Seeking \cup Using
          PROVE  local'[u].slot # local[writer].latest
      <4>1. CASE u = t
        <5>1. local'[t].slot = s
          BY <1>0, <1>3, <3>4, <4>1 DEF Seeking, Using, Holding, Dropping, Dying
        <5> QED BY <3>2, <3>4, <4>1, <5>1
      <4>2. CASE u # t
        BY <1>3, <2>1, <3>4, <4>2 DEF WriterInv
      <4> QED BY <4>1, <4>2
    <3> QED BY <1>1, <1>4, <2>1, <3>1, <3>3, <3>4 DEF WriterInv
  <2> QED BY <2>2, <2>3
<1> QED BY <1>5, <1>6 DEF SeekInv, UseInv, DyingInv

\* The table's own reference taken away.
LEMMA UnrefFacts ==
  ASSUME Inv, NEW t \in Thread, Unref(t), table[local[t].slot].word = local[t].seen
  PROVE  /\ local[t].slot \in Slot /\ table[local[t].slot].word.ct = 1 /\ Held(local[t].slot) = {}
         /\ local[t].timestamp < latest_timestamp /\ local[t].timestamp \in Version
         /\ table[local[t].slot].key = local[t].timestamp /\ freed[local[t].timestamp] = 0
         /\ local[t].root = versions[local[t].timestamp + 1]
<1>0. PICK s \in Slot : s = local[t].slot
  BY Basics DEF Inv
<1>1. /\ local[t].timestamp < latest_timestamp /\ local[t].seen = [ts |-> local[t].timestamp, ct |-> 1]
      /\ local[t].root = versions[local[t].timestamp + 1]
  BY DEF Inv, UseInv, UseOf, Unref, Using, Dropping
<1>2. table[s].word.ct = 1 /\ table[s].word.ts = local[t].timestamp
  BY <1>0, <1>1
<1>3. /\ table[s].key = local[t].timestamp /\ freed[table[s].key] = 0 /\ table[s].key \in Version
      /\ 1 = 1 + Cardinality(Held(s))
  BY <1>2 DEF Inv, CountInv, CountOf
<1>4. Held(s) = {}
  <2>1. Cardinality(Held(s)) = 0
    BY <1>3, HeldFinite
  <2> QED BY <2>1, HeldEmpty
<1> HIDE DEF Held
<1> QED BY <1>0, <1>1, <1>2, <1>3, <1>4

LEMMA UnrefTypes ==
  ASSUME Inv, NEW t \in Thread, Unref(t), table[local[t].slot].word = local[t].seen
  PROVE  TypeOK' /\ LocalOK'
<1>1. TypeOK /\ LocalOK /\ local[t].slot \in Slot /\ table[local[t].slot].word.ct - 1 \in Nat
  BY UnrefFacts DEF Inv
<1>2. table' \in [Slot -> [key : {max_key, tombstone} \cup 0..MaxVersion, word : Word,
                           root : {nullptr} \cup 0..MaxVersion]]
  BY <1>1, UnrefEffect, CountedTypes
<1>3. LocalOK'
  BY <1>1, UnrefEffect DEF LocalOK
<1>4. pc' \in [Thread -> {"idle"} \cup Acquiring \cup Holding \cup Releasing]
  BY <1>1 DEF TypeOK, Unref, Goto, Leave, Releasing
<1>5. UNCHANGED <<current_timestamp, versions, freed>>
  BY DEF Unref
<1> QED BY <1>1, <1>2, <1>3, <1>4, <1>5, Typed DEF TypeOK

LEMMA UnrefShared ==
  ASSUME Inv, NEW t \in Thread, Unref(t), table[local[t].slot].word = local[t].seen
  PROVE  CountInv' /\ KeyInv' /\ DutyInv' /\ TreeInv'
<1>0. PICK s \in Slot : s = local[t].slot
  BY Basics DEF Inv
<1>1. /\ UNCHANGED <<current_timestamp, versions, freed>> /\ latest_timestamp' = latest_timestamp
      /\ Counted(s, table[s].word.ct - 1) /\ Moves(t, "unref", "free") /\ local' = local
  BY <1>0, UnrefEffect DEF Inv, latest_timestamp
<1>2. table[s].word.ct = 1 /\ Held(s) = {}
  BY <1>0, UnrefFacts
<1>3. /\ pc[t] = "unref" /\ pc'[t] = "free" /\ pc[t] \notin Holding \cup Dying /\ pc'[t] \notin Holding
      /\ \A u \in Thread \ {t} : pc'[u] = pc[u] /\ local'[u] = local[u]
  BY <1>1 DEF Moves, Holding, Dying
<1>4. \A u \in Slot : table'[u].key = table[u].key
  BY <1>1 DEF Counted
<1>5. CountInv'
  <2>1. \A u : Held(u)' = Held(u)
    BY <1>1, <1>3, HeldSame
  <2>2. CountOf(s)'
    <3>1. table'[s].word.ct = 0
      BY <1>1, <1>2 DEF Counted
    <3> HIDE DEF Held
    <3> QED BY <1>2, <2>1, <3>1 DEF CountOf
  <2>3. ASSUME NEW u \in Slot, u # s
        PROVE  CountOf(u)'
    <3>1. CountOf(u) /\ table'[u] = table[u] /\ Held(u)' = Held(u)
      BY <1>1, <2>1, <2>3 DEF Inv, CountInv, Counted
    <3> HIDE DEF Held
    <3> QED BY <1>1, <3>1 DEF CountOf
  <2> QED BY <2>2, <2>3 DEF CountInv
<1>6. /\ pc'[writer] \in {"value", "publish"} <=> pc[writer] \in {"value", "publish"}
      /\ pc[writer] \in {"value", "publish"} => local'[writer] = local[writer] /\ pc'[writer] = pc[writer]
  BY <1>3 DEF Thread
<1>7. KeyInv' /\ TreeInv'
  <2>1. KeyInv'
    BY <1>1, <1>4, <1>6 DEF Inv, KeyInv
  <2>2. TreeInv'
    BY <1>1, <1>4, <1>6 DEF Inv, TreeInv
  <2> QED BY <2>1, <2>2
<1>8. DutyInv'
  <2>1. ASSUME NEW u \in Slot PROVE DutyOf(u)'
    <3>1. DutyOf(u)
      BY DEF Inv, DutyInv
    <3>2. CASE u = s
      <4>1. table'[s].word.ct = 0
        BY <1>1, <1>2 DEF Counted
      <4>2. pc'[t] \in Dying /\ local'[t].slot = s
        BY <1>0, <1>1, <1>3 DEF Dying
      <4> HIDE DEF Dying
      <4> QED BY <3>2, <4>1, <4>2 DEF DutyOf
    <3>3. CASE u # s
      <4>1. table'[u] = table[u]
        BY <1>1, <3>3 DEF Counted
      <4>2. \A v \in Thread : pc[v] \in Dying \cup Dropping /\ local[v].slot = u => pc'[v] = pc[v] /\ local'[v] = local[v]
        BY <1>0, <1>3, <3>3
      <4> HIDE DEF Dying, Dropping
      <4> QED BY <1>1, <1>6, <3>1, <4>1, <4>2 DEF DutyOf
    <3> QED BY <3>2, <3>3
  <2> QED BY <2>1 DEF DutyInv
<1> QED BY <1>5, <1>7, <1>8

LEMMA UnrefThreads ==
  ASSUME Inv, NEW t \in Thread, Unref(t), table[local[t].slot].word = local[t].seen
  PROVE  SeekInv' /\ UseInv' /\ DyingInv' /\ WriterInv'
<1>0. PICK s \in Slot : s = local[t].slot
  BY Basics DEF Inv
<1>1. /\ UNCHANGED <<current_timestamp, versions, freed>> /\ latest_timestamp' = latest_timestamp
      /\ Counted(s, table[s].word.ct - 1) /\ Moves(t, "unref", "free") /\ local' = local
  BY <1>0, UnrefEffect DEF Inv, latest_timestamp
<1>2. /\ table[s].word.ct = 1 /\ Held(s) = {}
      /\ \A u \in Thread : local[u].slot \in Slot
      /\ \A u \in Slot : table[u].word.ct \in Nat
  BY <1>0, UnrefFacts, Basics DEF Inv
<1>3. /\ local[t].timestamp < latest_timestamp /\ local[t].timestamp \in Version
      /\ table[s].key = local[t].timestamp /\ freed[local[t].timestamp] = 0
      /\ local[t].root = versions[local[t].timestamp + 1]
  BY <1>0, UnrefFacts
<1>4. /\ pc[t] = "unref" /\ pc'[t] = "free" /\ pc[t] \notin Dying
      /\ \A u \in Thread \ {t} : pc'[u] = pc[u] /\ local'[u] = local[u]
  BY <1>1 DEF Moves, Dying
<1>5. /\ \A u \in Slot : table'[u].key = table[u].key
      /\ table'[s].word.ct = 0
      /\ \A u \in Slot \ {s} : table'[u] = table[u]
  BY <1>1, <1>2 DEF Counted
<1>6. \A v \in Thread \ {t} : pc'[v] \in Dying => pc[v] \in Dying /\ local'[v] = local[v] /\ local[v].slot # s
  <2>1. ASSUME NEW v \in Thread \ {t}, pc'[v] \in Dying PROVE local[v].slot # s
    <3>1. DyingOf(v) /\ pc[v] \in Dying
      BY <1>4, <2>1 DEF Inv, DyingInv
    <3> QED BY <1>2, <3>1 DEF DyingOf
  <2> QED BY <1>4, <2>1
<1>7. ASSUME NEW u \in Thread PROVE SeekOf(u)' /\ UseOf(u)' /\ DyingOf(u)'
  <2>1. CASE u = t
    <3>1. SeekOf(t)'
      BY <1>4 DEF SeekOf, Seeking
    <3>2. UseOf(t)'
      <4>1. pc'[t] \notin Holding \cup Dropping \cup {"reread", "unref"}
        BY <1>4 DEF Holding, Dropping
      <4>2. latest_timestamp \in Nat /\ Version \subseteq Nat
        BY Basics DEF Inv
      <4>3. local[t].timestamp <= latest_timestamp
        <5>1. local[t].timestamp \in Nat
          BY <1>3, <4>2
        <5> HIDE DEF latest_timestamp
        <5> QED BY <1>3, <4>2, <5>1
      <4>4. /\ local'[t].timestamp <= latest_timestamp'
            /\ local'[t].root = versions'[local'[t].timestamp + 1]
        BY <1>1, <1>3, <4>3
      <4> QED BY <1>4, <4>1, <4>4 DEF UseOf
    <3>3. DyingOf(t)'
      <4>1. \A v \in Thread : pc'[v] \in Dying /\ local'[v].slot = local'[t].slot => v = t
        BY <1>0, <1>1, <1>6
      <4> HIDE DEF Dying
      <4> QED BY <1>0, <1>1, <1>3, <1>4, <1>5, <4>1 DEF DyingOf
    <3> QED BY <2>1, <3>1, <3>2, <3>3
  <2>2. CASE u # t
    <3>1. SeekOf(u) /\ UseOf(u) /\ DyingOf(u) /\ pc'[u] = pc[u] /\ local'[u] = local[u] /\ local[u].slot \in Slot
      BY <1>2, <1>4, <2>2 DEF Inv, SeekInv, UseInv, DyingInv
    <3>2. SeekOf(u)'
      BY <1>1, <1>5, <3>1 DEF SeekOf
    <3>3. UseOf(u)'
      <4>1. pc[u] \in Holding => local[u].slot # s
        BY <1>2 DEF Held
      <4> QED BY <1>1, <1>5, <3>1, <4>1 DEF UseOf
    <3>4. DyingOf(u)'
      <4>1. SUFFICES ASSUME pc[u] \in Dying PROVE DyingOf(u)'
        BY <3>1 DEF DyingOf
      <4>2. table'[local[u].slot] = table[local[u].slot] /\ local[u].slot # s
        BY <1>5, <1>6, <2>2, <3>1, <4>1
      <4>3. \A v \in Thread : pc'[v] \in Dying /\ local'[v].slot = local[u].slot => v = u
        <5>1. \A v \in Thread : pc[v] \in Dying /\ local[v].slot = local[u].slot => v = u
          BY <3>1, <4>1 DEF DyingOf
        <5> HIDE DEF Dying
        <5> QED BY <1>0, <1>1, <1>6, <4>2, <5>1
      <4> HIDE DEF Dying
      <4> QED BY <1>1, <3>1, <4>1, <4>2, <4>3 DEF DyingOf
    <3> QED BY <3>2, <3>3, <3>4
  <2> QED BY <2>1, <2>2
<1>8. WriterInv'
  <2>1. writer \in Thread /\ WriterInv
    BY Basics DEF Inv
  <2>2. CASE t = writer
    <3>1. pc'[writer] \notin Acquiring \cup {"insert", "value", "publish"}
      BY <1>4, <2>2 DEF Acquiring
    <3> QED BY <3>1 DEF WriterInv
  <2>3. CASE t # writer
    <3>1. pc'[writer] = pc[writer] /\ local' = local
      BY <1>1, <1>4, <2>1, <2>3
    <3>2. pc[writer] = "value" => local[writer].latest # s /\ local[writer].latest \in Slot
      BY <1>2, <2>1 DEF WriterInv
    <3>3. pc[writer] = "value" => table'[local[writer].latest].word.ct = 0
      BY <1>5, <2>1, <3>2 DEF WriterInv
    <3>4. ASSUME pc[writer] = "value", NEW u \in Thread, pc'[u] \in Seeking \cup Using
          PROVE  local'[u].slot # local[writer].latest
      <4>1. CASE u = t
        BY <1>0, <3>1, <3>2, <3>4, <4>1
      <4>2. CASE u # t
        BY <1>4, <2>1, <3>4, <4>2 DEF WriterInv
      <4> QED BY <4>1, <4>2
    <3> QED BY <1>1, <1>5, <2>1, <3>1, <3>3, <3>4 DEF WriterInv
  <2> QED BY <2>2, <2>3
<1> QED BY <1>7, <1>8 DEF SeekInv, UseInv, DyingInv

\* The tree of a version that nobody has is freed.
LEMMA FreeFacts ==
  ASSUME Inv, NEW t \in Thread, pc[t] \in Dying
  PROVE  /\ local[t].timestamp \in Version /\ local[t].timestamp < latest_timestamp
         /\ local[t].timestamp < Len(versions) /\ local[t].timestamp \in 0 .. (Len(versions) - 1)
         /\ local[t].root = versions[local[t].timestamp + 1]
         /\ local[t].root \in {local[t].timestamp, nullptr}
         /\ local[t].slot \in Slot /\ table[local[t].slot].key = local[t].timestamp
         /\ table[local[t].slot].word.ct = 0
<1>1. /\ TypeOK /\ LocalOK /\ current_timestamp \in Nat /\ local[t].timestamp \in Version /\ Version \subseteq Nat
      /\ local[t].slot \in Slot
  BY Basics DEF Inv
<1>2. /\ local[t].timestamp < latest_timestamp /\ table[local[t].slot].key = local[t].timestamp
      /\ table[local[t].slot].word.ct = 0
  BY DEF Inv, DyingInv, DyingOf
<1>3. local[t].root = versions[local[t].timestamp + 1]
  BY DEF Inv, UseInv, UseOf, Using
<1>4. Len(versions) >= current_timestamp
  <2>1. Len(versions) = current_timestamp + (IF pc[writer] \in {"value", "publish"} THEN 1 ELSE 0)
    BY DEF Inv, TreeInv
  <2> QED BY <1>1, <2>1
<1>5. local[t].timestamp \in Nat /\ Len(versions) \in Nat
  BY <1>1 DEF TypeOK
<1>6. local[t].timestamp \in 0 .. (Len(versions) - 1) /\ local[t].timestamp < Len(versions)
  BY <1>1, <1>2, <1>4, <1>5 DEF latest_timestamp
<1>7. local[t].root \in {local[t].timestamp, nullptr}
  BY <1>3, <1>6 DEF Inv, TreeInv
<1> QED BY <1>1, <1>2, <1>3, <1>6, <1>7

LEMMA FreeShared ==
  ASSUME Inv, NEW t \in Thread, Free(t)
  PROVE  /\ TypeOK' /\ LocalOK' /\ CountInv' /\ KeyInv' /\ DutyInv' /\ TreeInv'
         /\ \A v \in Version : v # local[t].timestamp => freed'[v] = freed[v]
         /\ local[t].root # nullptr => freed'[local[t].timestamp] = 1
<1>1. /\ UNCHANGED <<current_timestamp, table, versions, local>> /\ Moves(t, "free", "clear")
      /\ latest_timestamp' = latest_timestamp
      /\ freed' = IF local[t].root = nullptr THEN freed
                  ELSE [freed EXCEPT ![local[t].root] = freed[local[t].root] + 1]
  BY FreeEffect DEF Inv, latest_timestamp
<1>2. pc[t] \in Dying /\ pc'[t] \in Dying /\ pc[t] = "free" /\ pc[t] \notin Holding \cup Dropping /\ pc'[t] = "clear"
      /\ pc'[t] \notin Holding
      /\ \A u \in Thread \ {t} : pc'[u] = pc[u]
  BY <1>1 DEF Moves, Dying, Holding, Dropping
<1>3. PICK v \in Version : v = local[t].timestamp
  BY <1>2, FreeFacts
<1>4. /\ v < Len(versions) /\ local[t].root = versions[v + 1] /\ local[t].root \in {v, nullptr}
      /\ local[t].slot \in Slot /\ table[local[t].slot].key = v /\ table[local[t].slot].word.ct = 0
  BY <1>2, <1>3, FreeFacts
<1>5. freed[v] = 0
  BY <1>2, <1>3 DEF Inv, DyingInv, DyingOf
<1>6. freed \in [Version -> Nat] /\ TypeOK /\ LocalOK
  BY DEF Inv, TypeOK, Version
<1>7. /\ freed' \in [Version -> Nat] /\ \A w \in Version : w # v => freed'[w] = freed[w]
      /\ freed'[v] = IF local[t].root = nullptr THEN 0 ELSE 1
  BY <1>1, <1>3, <1>4, <1>5, <1>6
<1>8. TypeOK' /\ LocalOK'
  <2>1. LocalOK'
    BY <1>1, <1>6 DEF LocalOK
  <2>2. pc' \in [Thread -> {"idle"} \cup Acquiring \cup Holding \cup Releasing]
    BY <1>6 DEF TypeOK, Free, Goto, Releasing
  <2>3. UNCHANGED <<current_timestamp, table, versions>> /\ freed' \in [0..MaxVersion -> Nat]
    BY <1>1, <1>7 DEF Version
  <2> QED BY <1>6, <2>1, <2>2, <2>3, Typed DEF TypeOK
<1>9. CountInv'
  <2>1. \A s : Held(s)' = Held(s)
    BY <1>1, <1>2, HeldSame
  <2>2. ASSUME NEW s \in Slot PROVE CountOf(s)'
    <3>1. CountOf(s) /\ Held(s)' = Held(s)
      BY <2>1 DEF Inv, CountInv
    <3>2. table[s].word.ct > 0 => table[s].key # v /\ freed'[table[s].key] = freed[table[s].key]
      <4>1. ASSUME table[s].word.ct > 0 PROVE table[s].key \in Version /\ table[s].key # v
        <5>1. table[s].key \in Version /\ s # local[t].slot
          BY <1>4, <3>1, <4>1 DEF CountOf
        <5> QED BY <1>4, <5>1 DEF Inv, KeyInv
      <4> QED BY <1>7, <4>1
    <3> HIDE DEF Held
    <3> QED BY <1>1, <3>1, <3>2 DEF CountOf
  <2> QED BY <2>2 DEF CountInv
<1>10. /\ pc'[writer] \in {"value", "publish"} <=> pc[writer] \in {"value", "publish"}
       /\ pc'[writer] = "value" <=> pc[writer] = "value"
  BY <1>2 DEF Thread
<1>11. KeyInv'
  BY <1>1, <1>10 DEF Inv, KeyInv
<1>12. DutyInv'
  <2>1. ASSUME NEW u \in Slot PROVE DutyOf(u)'
    <3>1. DutyOf(u)
      BY DEF Inv, DutyInv
    <3>2. \A w \in Thread : /\ pc[w] \in Dying => pc'[w] \in Dying
                            /\ pc[w] \in Dropping => pc'[w] \in Dropping
      BY <1>2
    <3> HIDE DEF Dying, Dropping
    <3> QED BY <1>1, <1>10, <3>1, <3>2 DEF DutyOf
  <2> QED BY <2>1 DEF DutyInv
<1>13. TreeInv'
  <2>1. TreeInv
    BY DEF Inv
  <2>2. ASSUME NEW w \in Version PROVE freed'[w] <= 1 /\ (w > latest_timestamp => freed'[w] = 0)
    <3>1. CASE w = v
      <4>1. ~(v > latest_timestamp)
        <5>1. v \in Nat /\ latest_timestamp \in Nat /\ v < latest_timestamp
          BY <1>2, <1>3, <1>6, FreeFacts, Basics
        <5> HIDE DEF latest_timestamp
        <5> QED BY <5>1
      <4> QED BY <1>7, <3>1, <4>1
    <3>2. CASE w # v
      BY <1>7, <2>1, <3>2 DEF TreeInv
    <3> QED BY <3>1, <3>2
  <2>3. ASSUME NEW w \in 0 .. latest_timestamp, \A s \in Slot : table[s].key # w
        PROVE  versions[w + 1] = nullptr \/ freed'[w] = 1
    <3>1. w # v
      BY <1>4, <2>3
    <3>2. w \in Version
      <4>1. latest_timestamp \in Nat /\ latest_timestamp <= MaxVersion
        <5>1. current_timestamp \in Nat /\ current_timestamp >= 1 /\ current_timestamp <= MaxVersion + 1
          BY <1>6, Basics
        <5> QED BY <5>1, MaxVersionAssumption DEF latest_timestamp
      <4> HIDE DEF latest_timestamp
      <4> QED BY <4>1, MaxVersionAssumption DEF Version
    <3>3. versions[w + 1] = nullptr \/ freed[w] = 1
      BY <2>1, <2>3 DEF TreeInv
    <3> QED BY <1>7, <3>1, <3>2, <3>3
  <2> QED BY <1>1, <1>10, <2>1, <2>2, <2>3 DEF TreeInv
<1> QED BY <1>3, <1>7, <1>8, <1>9, <1>11, <1>12, <1>13

LEMMA FreeThreads ==
  ASSUME Inv, NEW t \in Thread, Free(t)
  PROVE  SeekInv' /\ UseInv' /\ DyingInv' /\ WriterInv'
<1>1. /\ UNCHANGED <<current_timestamp, table, versions, local>> /\ Moves(t, "free", "clear")
      /\ latest_timestamp' = latest_timestamp
  BY FreeEffect DEF Inv, latest_timestamp
<1>2. /\ pc[t] = "free" /\ pc'[t] = "clear" /\ \A u \in Thread \ {t} : pc'[u] = pc[u]
      /\ pc[t] \in Dying /\ pc'[t] \in Dying
  BY <1>1 DEF Moves, Dying
<1>3. \A u \in Thread : pc'[u] \in Dying <=> pc[u] \in Dying
  BY <1>2
<1>4. ASSUME NEW u \in Thread PROVE SeekOf(u)' /\ UseOf(u)' /\ DyingOf(u)'
  <2>1. SeekOf(u) /\ UseOf(u) /\ DyingOf(u)
    BY DEF Inv, SeekInv, UseInv, DyingInv
  <2>2. SeekOf(u)' /\ UseOf(u)'
    <3>1. CASE u = t
      BY <1>1, <1>2, <2>1, <3>1 DEF SeekOf, UseOf, Seeking, Using, Holding, Dropping, Dying
    <3>2. CASE u # t
      BY <1>1, <1>2, <2>1, <3>2 DEF SeekOf, UseOf
    <3> QED BY <3>1, <3>2
  <2>3. DyingOf(u)'
    <3>1. SUFFICES ASSUME pc'[u] \in Dying PROVE DyingOf(u)'
      BY DEF DyingOf
    <3>2. /\ local[u].timestamp < latest_timestamp
          /\ table[local[u].slot].key = local[u].timestamp /\ table[local[u].slot].word.ct = 0
          /\ \A w \in Thread : pc[w] \in Dying /\ local[w].slot = local[u].slot => w = u
          /\ pc[u] = "free" => freed[local[u].timestamp] = 0
          /\ pc[u] # "free" /\ local[u].root # nullptr => freed[local[u].timestamp] = 1
      BY <1>3, <2>1, <3>1 DEF DyingOf
    <3>3. \A w \in Thread : pc'[w] \in Dying /\ local'[w].slot = local'[u].slot => w = u
      <4> HIDE DEF Dying
      <4> QED BY <1>1, <1>3, <3>2
    <3>4. /\ pc'[u] = "free" => freed'[local[u].timestamp] = 0
          /\ pc'[u] # "free" /\ local[u].root # nullptr => freed'[local[u].timestamp] = 1
      <4>1. CASE u = t
        BY <1>2, <4>1, FreeShared
      <4>2. CASE u # t
        <5>1. local[u].timestamp \in Version /\ local[u].slot \in Slot /\ local[t].slot \in Slot
              /\ table[local[t].slot].key = local[t].timestamp
          BY <1>2, <1>3, <3>1, FreeFacts
        <5>2. local[u].slot # local[t].slot
          BY <1>2, <3>2, <4>2
        <5>3. local[u].timestamp # local[t].timestamp
          BY <3>2, <5>1, <5>2 DEF Inv, KeyInv
        <5>4. freed'[local[u].timestamp] = freed[local[u].timestamp]
          BY <5>1, <5>3, FreeShared
        <5> QED BY <1>2, <3>2, <4>2, <5>4
      <4> QED BY <4>1, <4>2
    <3> HIDE DEF Dying
    <3> QED BY <1>1, <3>2, <3>3, <3>4 DEF DyingOf
  <2> QED BY <2>2, <2>3
<1>5. WriterInv'
  <2>1. writer \in Thread /\ WriterInv
    BY Basics DEF Inv
  <2>2. \A u \in Thread : pc'[u] \in Seeking \cup Using => pc[u] \in Seeking \cup Using
    BY <1>2 DEF Using
  <2>3. pc'[writer] \in Acquiring \cup {"insert", "value", "publish"} => pc'[writer] = pc[writer]
    BY <1>2, <2>1 DEF Acquiring
  <2> HIDE DEF Using, Seeking, Acquiring
  <2>4. pc'[writer] \in Acquiring \cup {"insert", "value", "publish"} => current_timestamp' <= MaxVersion
    BY <1>1, <2>1, <2>3 DEF WriterInv
  <2>5. pc'[writer] \in {"insert", "value", "publish"} => pc'[writer] = pc[writer]
    BY <2>3
  <2> QED BY <1>1, <2>1, <2>2, <2>4, <2>5 DEF WriterInv
<1> QED BY <1>4, <1>5 DEF SeekInv, UseInv, DyingInv

\* The entry of a version that nobody has is emptied, and then given up.
LEMMA EmptyFacts ==
  ASSUME Inv, NEW t \in Thread, Clear(t) \/ Bury(t)
  PROVE  \E s \in Slot : \E v \in Version :
           /\ s = local[t].slot /\ v = local[t].timestamp /\ v < latest_timestamp
           /\ table[s].key = v /\ table[s].word.ct = 0 /\ Held(s) = {} /\ pc[t] \in Dying
           /\ UNCHANGED <<current_timestamp, versions, freed>> /\ latest_timestamp' = latest_timestamp
           /\ \/ Emptied(s, v) /\ Moves(t, "clear", "bury") /\ local' = local
              \/ Emptied(s, tombstone) /\ Moves(t, "bury", "idle") /\ local'[t] = Nothing
           /\ versions[v + 1] = nullptr \/ freed[v] = 1
<1>1. pc[t] \in Dying /\ pc[t] # "free"
  BY DEF Clear, Bury, Dying
<1>2. PICK s \in Slot : s = local[t].slot
  BY <1>1, FreeFacts
<1>3. PICK v \in Version : v = local[t].timestamp
  BY <1>1, FreeFacts
<1>4. /\ v < latest_timestamp /\ table[s].key = v /\ table[s].word.ct = 0
      /\ local[t].root = versions[v + 1]
  BY <1>1, <1>2, <1>3, FreeFacts
<1>5. Held(s) = {}
  <2> HIDE DEF Held
  <2> QED BY <1>4 DEF Inv, CountInv, CountOf
<1>6. local[t].root # nullptr => freed[v] = 1
  BY <1>1, <1>3 DEF Inv, DyingInv, DyingOf
<1>7. /\ UNCHANGED <<current_timestamp, versions, freed>>
      /\ \/ Emptied(s, v) /\ Moves(t, "clear", "bury") /\ local' = local
         \/ Emptied(s, tombstone) /\ Moves(t, "bury", "idle") /\ local'[t] = Nothing
  BY <1>2, <1>3, EmptyEffect DEF Inv
<1>8. latest_timestamp' = latest_timestamp
  BY <1>7 DEF latest_timestamp
<1> QED BY <1>1, <1>2, <1>3, <1>4, <1>5, <1>6, <1>7, <1>8

LEMMA EmptyTypes ==
  ASSUME Inv, NEW t \in Thread, Clear(t) \/ Bury(t)
  PROVE  TypeOK' /\ LocalOK'
<1>1. PICK s \in Slot, v \in Version : Emptied(s, v) \/ Emptied(s, tombstone)
  BY EmptyFacts
<1>2. TypeOK /\ LocalOK
  BY DEF Inv
<1>3. table' \in [Slot -> [key : {max_key, tombstone} \cup 0..MaxVersion, word : Word,
                           root : {nullptr} \cup 0..MaxVersion]]
  <2>1. ASSUME NEW k \in {tombstone} \cup Version
        PROVE  [key |-> k, word |-> [ts |-> 0, ct |-> 0], root |-> nullptr]
                 \in [key : {max_key, tombstone} \cup 0..MaxVersion, word : Word, root : {nullptr} \cup 0..MaxVersion]
    BY MaxVersionAssumption DEF Version, Word
  <2>2. PICK k \in {tombstone} \cup Version : Emptied(s, k)
    BY <1>1
  <2> QED BY <1>2, <2>1, <2>2 DEF Emptied, TypeOK
<1>4. LocalOK'
  BY <1>2, NothingType DEF LocalOK, Clear, Bury, Leave
<1>5. pc' \in [Thread -> {"idle"} \cup Acquiring \cup Holding \cup Releasing]
  BY <1>2 DEF TypeOK, Clear, Bury, Goto, Leave, Releasing
<1>6. UNCHANGED <<current_timestamp, versions, freed>>
  BY DEF Clear, Bury
<1> QED BY <1>2, <1>3, <1>4, <1>5, <1>6, Typed DEF TypeOK

LEMMA EmptyShared ==
  ASSUME Inv, NEW t \in Thread, Clear(t) \/ Bury(t)
  PROVE  CountInv' /\ KeyInv' /\ DutyInv' /\ TreeInv'
<1>1. PICK s \in Slot, v \in Version :
        /\ s = local[t].slot /\ v < latest_timestamp
        /\ table[s].key = v /\ table[s].word.ct = 0 /\ Held(s) = {} /\ pc[t] \in Dying
        /\ UNCHANGED <<current_timestamp, versions, freed>> /\ latest_timestamp' = latest_timestamp
        /\ \/ Emptied(s, v) /\ Moves(t, "clear", "bury") /\ local' = local
           \/ Emptied(s, tombstone) /\ Moves(t, "bury", "idle") /\ local'[t] = Nothing
        /\ versions[v + 1] = nullptr \/ freed[v] = 1
  BY EmptyFacts
<1>2. /\ \A u \in Thread \ {t} : pc'[u] = pc[u] /\ local'[u] = local[u]
      /\ pc[t] \notin Holding \cup Dropping /\ pc'[t] \notin Holding
      /\ pc[t] \in {"clear", "bury"} /\ pc'[t] \in {"bury", "idle"}
      /\ table'[s].key \in {v, tombstone} /\ table'[s].word.ct = 0
      /\ table'[s].key = v => pc'[t] \in Dying /\ local'[t].slot = s
      /\ \A u \in Slot \ {s} : table'[u] = table[u]
  <2>1. v # tombstone /\ latest_timestamp \in Nat
    BY Basics DEF Inv
  <2>2. CASE Emptied(s, v) /\ Moves(t, "clear", "bury") /\ local' = local
    BY <1>1, <2>2 DEF Emptied, Moves, Dying, Holding, Dropping
  <2>3. CASE Emptied(s, tombstone) /\ Moves(t, "bury", "idle") /\ local'[t] = Nothing
    BY <1>1, <2>1, <2>3 DEF Emptied, Moves, Dying, Holding, Dropping
  <2> QED BY <1>1, <2>2, <2>3
<1>3. tombstone \notin Version /\ v \in Nat /\ latest_timestamp \in Nat
  BY Basics DEF Inv
<1>4. CountInv'
  <2>1. \A u : Held(u)' = Held(u)
    BY <1>2, HeldSame, <1>1 DEF Dying, Holding
  <2>2. ASSUME NEW u \in Slot PROVE CountOf(u)'
    <3>1. CountOf(u) /\ Held(u)' = Held(u) /\ (u # s => table'[u] = table[u])
      BY <1>2, <2>1 DEF Inv, CountInv
    <3> HIDE DEF Held
    <3> QED BY <1>1, <1>2, <3>1 DEF CountOf
  <2> QED BY <2>2 DEF CountInv
<1>5. /\ pc'[writer] \in {"value", "publish"} <=> pc[writer] \in {"value", "publish"}
      /\ pc[writer] \in {"value", "publish"} => pc'[writer] = pc[writer] /\ local'[writer] = local[writer]
  BY <1>2 DEF Thread
<1>6. KeyInv'
  <2>1. KeyInv
    BY DEF Inv
  <2>2. \A u \in Slot : table'[u].key \in Version => table'[u].key = table[u].key
    BY <1>1, <1>2, <1>3
  <2>3. \E u \in Slot : table'[u].key = latest_timestamp
    <3>1. PICK u \in Slot : table[u].key = latest_timestamp
      BY <2>1 DEF KeyInv
    <3>2. u # s
      <4> HIDE DEF latest_timestamp
      <4> QED BY <1>1, <1>3, <3>1
    <3> QED BY <1>2, <3>1, <3>2
  <2> HIDE DEF latest_timestamp
  <2> QED BY <1>1, <1>5, <2>1, <2>2, <2>3 DEF KeyInv
<1>7. DutyInv'
  <2>1. ASSUME NEW u \in Slot PROVE DutyOf(u)'
    <3>1. DutyOf(u)
      BY DEF Inv, DutyInv
    <3>2. CASE u = s
      <4> HIDE DEF Dying
      <4> QED BY <1>2, <1>3, <3>2 DEF DutyOf
    <3>3. CASE u # s
      <4>1. table'[u] = table[u]
        BY <1>2, <3>3
      <4>2. \A w \in Thread : pc[w] \in Dying \cup Dropping /\ local[w].slot = u => pc'[w] = pc[w] /\ local'[w] = local[w]
        BY <1>1, <1>2, <3>3
      <4> HIDE DEF Dying, Dropping
      <4> QED BY <1>1, <1>5, <3>1, <4>1, <4>2 DEF DutyOf
    <3> QED BY <3>2, <3>3
  <2> QED BY <2>1 DEF DutyInv
<1>8. TreeInv'
  <2>1. TreeInv
    BY DEF Inv
  <2>2. ASSUME NEW w \in 0 .. latest_timestamp, \A u \in Slot : table'[u].key # w
        PROVE  versions[w + 1] = nullptr \/ freed[w] = 1
    <3>1. CASE w = v
      BY <1>1, <3>1
    <3>2. CASE w # v
      <4>1. \A u \in Slot : table[u].key # w
        BY <1>1, <1>2, <2>2, <3>2
      <4> QED BY <2>1, <4>1 DEF TreeInv
    <3> QED BY <3>1, <3>2
  <2> QED BY <1>1, <1>5, <2>1, <2>2 DEF TreeInv
<1> QED BY <1>4, <1>6, <1>7, <1>8

LEMMA EmptyThreads ==
  ASSUME Inv, NEW t \in Thread, Clear(t) \/ Bury(t)
  PROVE  SeekInv' /\ UseInv' /\ DyingInv' /\ WriterInv'
<1>1. PICK s \in Slot, v \in Version :
        /\ s = local[t].slot /\ v = local[t].timestamp /\ v < latest_timestamp
        /\ table[s].key = v /\ table[s].word.ct = 0 /\ Held(s) = {} /\ pc[t] \in Dying
        /\ UNCHANGED <<current_timestamp, versions, freed>> /\ latest_timestamp' = latest_timestamp
        /\ \/ Emptied(s, v) /\ Moves(t, "clear", "bury") /\ local' = local
           \/ Emptied(s, tombstone) /\ Moves(t, "bury", "idle") /\ local'[t] = Nothing
  BY EmptyFacts
<1>2. /\ \A u \in Thread \ {t} : pc'[u] = pc[u] /\ local'[u] = local[u]
      /\ pc[t] \in {"clear", "bury"} /\ pc'[t] \in {"bury", "idle"}
      /\ table'[s].key \in {v, tombstone} /\ table'[s].word.ct = 0
      /\ pc'[t] = "bury" => table'[s].key = v /\ local' = local /\ pc[t] = "clear"
      /\ \A u \in Slot \ {s} : table'[u] = table[u]
  BY <1>1 DEF Emptied, Moves
<1>3. tombstone \notin Version /\ v \in Nat /\ latest_timestamp \in Nat /\ \A u \in Thread : local[u].slot \in Slot
  BY Basics DEF Inv
<1>4. \A u \in Slot : table'[u].key \in {table[u].key, tombstone}
  BY <1>1, <1>2
<1>5. \A w \in Thread \ {t} : pc[w] \in Dying => local[w].slot # s
  BY <1>1 DEF Inv, DyingInv, DyingOf
<1>6. ASSUME NEW u \in Thread PROVE SeekOf(u)' /\ UseOf(u)' /\ DyingOf(u)'
  <2>1. SeekOf(u) /\ UseOf(u) /\ DyingOf(u)
    BY DEF Inv, SeekInv, UseInv, DyingInv
  <2>2. CASE u = t
    <3>1. SeekOf(t)'
      BY <1>2 DEF SeekOf, Seeking
    <3>2. UseOf(t)'
      <4>1. pc'[t] \notin Holding \cup Dropping \cup {"reread", "unref"}
        BY <1>2 DEF Holding, Dropping
      <4>2. pc'[t] \in Using => local' = local /\ pc[t] \in Using
        BY <1>2, <4>1 DEF Using, Dying
      <4> HIDE DEF Using, Holding, Dropping
      <4> QED BY <1>1, <1>2, <2>1, <2>2, <4>1, <4>2 DEF UseOf
    <3>3. DyingOf(t)'
      <4>1. SUFFICES ASSUME pc'[t] = "bury" PROVE DyingOf(t)'
        BY <1>2 DEF DyingOf, Dying
      <4>2. local' = local /\ pc[t] = "clear" /\ table'[s].key = v
        BY <1>2, <4>1
      <4>3. \A w \in Thread : pc'[w] \in Dying /\ local'[w].slot = local'[t].slot => w = t
        BY <1>1, <1>2, <1>5, <4>2
      <4>4. local[t].root # nullptr => freed[local[t].timestamp] = 1
        BY <1>1, <2>1, <2>2, <4>2 DEF DyingOf
      <4> HIDE DEF Dying
      <4> QED BY <1>1, <1>2, <4>1, <4>2, <4>3, <4>4 DEF DyingOf
    <3> QED BY <2>2, <3>1, <3>2, <3>3
  <2>3. CASE u # t
    <3>1. pc'[u] = pc[u] /\ local'[u] = local[u] /\ local[u].slot \in Slot
      BY <1>2, <1>3, <2>3
    <3>2. SeekOf(u)'
      BY <1>1, <1>4, <2>1, <3>1 DEF SeekOf
    <3>3. UseOf(u)'
      <4>1. pc[u] \in Holding => local[u].slot # s
        BY <1>1, <3>1 DEF Held
      <4>2. pc[u] \in Holding => table'[local[u].slot] = table[local[u].slot]
        BY <1>2, <3>1, <4>1
      <4>3. table'[local[u].slot].key \in {table[local[u].slot].key, tombstone}
        BY <1>4, <3>1
      <4> HIDE DEF Using, Holding, Dropping
      <4> QED BY <1>1, <2>1, <3>1, <4>2, <4>3 DEF UseOf
    <3>4. DyingOf(u)'
      <4>1. SUFFICES ASSUME pc[u] \in Dying PROVE DyingOf(u)'
        BY <3>1 DEF DyingOf
      <4>2. table'[local[u].slot] = table[local[u].slot] /\ local[u].slot # s
        BY <1>2, <1>5, <2>3, <3>1, <4>1
      <4>3. \A w \in Thread : pc'[w] \in Dying /\ local'[w].slot = local[u].slot => w = u
        <5>1. \A w \in Thread : pc[w] \in Dying /\ local[w].slot = local[u].slot => w = u
          BY <2>1, <4>1 DEF DyingOf
        <5>2. pc'[t] \in Dying => local'[t].slot = s
          BY <1>1, <1>2 DEF Dying
        <5> HIDE DEF Dying
        <5> QED BY <1>2, <4>2, <5>1, <5>2
      <4> HIDE DEF Dying
      <4> QED BY <1>1, <2>1, <3>1, <4>1, <4>2, <4>3 DEF DyingOf
    <3> QED BY <3>2, <3>3, <3>4
  <2> QED BY <2>2, <2>3
<1>7. WriterInv'
  <2>1. writer \in Thread /\ WriterInv /\ current_timestamp \in Nat
    BY Basics DEF Inv
  <2>2. CASE t = writer
    <3>1. pc'[writer] \notin Acquiring \cup {"insert", "value", "publish"}
      BY <1>2, <2>2 DEF Acquiring
    <3> QED BY <3>1 DEF WriterInv
  <2>3. CASE t # writer
    <3>1. pc'[writer] = pc[writer] /\ local'[writer] = local[writer]
      BY <1>2, <2>1, <2>3
    <3>2. pc[writer] \in {"value", "publish"} => local[writer].latest # s /\ local[writer].latest \in Slot
      <4>1. v # current_timestamp
        BY <1>1, <1>3, <2>1 DEF latest_timestamp
      <4> QED BY <1>1, <2>1, <4>1 DEF WriterInv
    <3>3. pc[writer] \in {"value", "publish"} => table'[local[writer].latest] = table[local[writer].latest]
      BY <1>2, <3>2
    <3>4. ASSUME pc[writer] = "value", NEW u \in Thread, pc'[u] \in Seeking \cup Using
          PROVE  local'[u].slot # local[writer].latest
      <4>1. CASE u = t
        <5>1. pc'[t] = "bury"
          BY <1>2, <3>4, <4>1 DEF Seeking, Using, Holding, Dropping, Dying
        <5>2. local'[t].slot = s
          BY <1>1, <1>2, <5>1
        <5> QED BY <3>2, <3>4, <4>1, <5>2
      <4>2. CASE u # t
        BY <1>2, <2>1, <3>4, <4>2 DEF WriterInv
      <4> QED BY <4>1, <4>2
    <3> QED BY <1>1, <2>1, <3>1, <3>3, <3>4 DEF WriterInv
  <2> QED BY <2>2, <2>3
<1> QED BY <1>6, <1>7 DEF SeekInv, UseInv, DyingInv

\* The writer puts a new version into an entry that nobody refers to.
LEMMA InsertFacts ==
  ASSUME Inv, ~RefillsOvertake, NEW root \in {current_timestamp, nullptr}, Insert(root)
  PROVE  \E s \in Slot :
           /\ table[s].key \notin Version /\ table[s].word.ct = 0
           /\ \A t \in Thread : pc[t] \in Seeking \cup Using => local[t].slot # s
           /\ table' = [table EXCEPT ![s].key = current_timestamp]
           /\ table'[s].key = current_timestamp /\ table'[s].word = table[s].word
           /\ \A u \in Slot \ {s} : table'[u] = table[u]
           /\ local'[writer] = [local[writer] EXCEPT !.latest = s]
<1>1. PICK s \in Slot :
        /\ table[s].key \in {max_key, tombstone} /\ \A t \in Reader : ~Refers(t, s)
        /\ table' = [table EXCEPT ![s].key = current_timestamp]
        /\ table'[s].key = current_timestamp /\ table'[s].word = table[s].word
        /\ \A u \in Slot \ {s} : table'[u] = table[u]
        /\ local'[writer] = [local[writer] EXCEPT !.latest = s]
  BY InsertEffect DEF Inv
<1>2. table[s].key \notin Version
  BY <1>1, Basics DEF Inv
<1>3. table[s].word.ct = 0
  <2>1. table[s].word.ct \in Nat
    BY Basics DEF Inv
  <2> QED BY <1>2, <2>1 DEF Inv, CountInv, CountOf
<1>4. ASSUME NEW t \in Thread, pc[t] \in Seeking \cup Using PROVE local[t].slot # s
  <2>1. CASE t \in Reader
    BY <1>1, <1>4, <2>1 DEF Refers, Seeking, Using, Dropping, Dying, Releasing
  <2>2. CASE t = writer
    <3>1. pc[t] \in Holding /\ local[t].timestamp \in Version
      BY <2>2, Basics DEF Inv, Insert, Holding
    <3>2. table[local[t].slot].key = local[t].timestamp
      BY <3>1 DEF Inv, UseInv, UseOf
    <3> QED BY <1>2, <3>1, <3>2
  <2> QED BY <2>1, <2>2 DEF Thread
<1> QED BY <1>1, <1>2, <1>3, <1>4

LEMMA InsertTypes ==
  ASSUME Inv, ~RefillsOvertake, NEW root \in {current_timestamp, nullptr}, Insert(root)
  PROVE  /\ TypeOK' /\ LocalOK' /\ current_timestamp \in Version /\ Len(versions) = current_timestamp
         /\ \A v \in 0 .. latest_timestamp : versions'[v + 1] = versions[v + 1]
         /\ Len(versions') = current_timestamp + 1 /\ versions'[current_timestamp + 1] = root
<1>1. TypeOK /\ LocalOK /\ current_timestamp \in Nat /\ versions \in Seq({nullptr} \cup 0..MaxVersion)
  BY Basics DEF Inv, TypeOK
<1>2. pc[writer] = "insert" /\ versions' = Append(versions, root)
  BY DEF Insert
<1>3. current_timestamp \in Version
  <2>1. current_timestamp <= MaxVersion
    BY <1>2 DEF Inv, WriterInv
  <2> QED BY <1>1, <2>1, MaxVersionAssumption DEF Version
<1>4. Len(versions) = current_timestamp
  <2>1. Len(versions) = current_timestamp + (IF pc[writer] \in {"value", "publish"} THEN 1 ELSE 0)
    BY DEF Inv, TreeInv
  <2> QED BY <1>1, <1>2, <2>1
<1>5. PICK s \in Slot : table' = [table EXCEPT ![s].key = current_timestamp] /\ local' = [local EXCEPT ![writer].latest = s]
  BY DEF Insert
<1>6. table' \in [Slot -> [key : {max_key, tombstone} \cup 0..MaxVersion, word : Word,
                           root : {nullptr} \cup 0..MaxVersion]]
  BY <1>1, <1>3, <1>5 DEF TypeOK, Version
<1>7. LocalOK'
  <2>1. s \in Nat
    BY SlotsAssumption DEF Slot
  <2> QED BY <1>1, <1>5, <2>1 DEF LocalOK
<1>8. versions' \in Seq({nullptr} \cup 0..MaxVersion)
  BY <1>1, <1>2, <1>3 DEF Version
<1>9. pc' \in [Thread -> {"idle"} \cup Acquiring \cup Holding \cup Releasing]
  BY <1>1 DEF TypeOK, Insert, Goto, Holding
<1>10. TypeOK'
  BY <1>1, <1>6, <1>7, <1>8, <1>9, Typed DEF TypeOK, Insert
<1>11. /\ \A v \in 0 .. latest_timestamp : versions'[v + 1] = versions[v + 1]
       /\ Len(versions') = current_timestamp + 1 /\ versions'[current_timestamp + 1] = root
  <2>1. root \in {nullptr} \cup 0..MaxVersion
    BY <1>3 DEF Version
  <2> QED BY <1>1, <1>2, <1>4, <2>1, AppendProperties DEF latest_timestamp
<1> QED BY <1>3, <1>4, <1>7, <1>10, <1>11

LEMMA InsertShared ==
  ASSUME Inv, ~RefillsOvertake, NEW root \in {current_timestamp, nullptr}, Insert(root)
  PROVE  CountInv' /\ KeyInv' /\ DutyInv' /\ TreeInv'
<1>1. PICK s \in Slot :
        /\ table[s].key \notin Version /\ table[s].word.ct = 0
        /\ table'[s].key = current_timestamp /\ table'[s].word = table[s].word
        /\ \A u \in Slot \ {s} : table'[u] = table[u]
        /\ local'[writer] = [local[writer] EXCEPT !.latest = s]
  BY InsertFacts
<1>2. /\ current_timestamp \in Version /\ Len(versions) = current_timestamp
      /\ \A v \in 0 .. latest_timestamp : versions'[v + 1] = versions[v + 1]
      /\ Len(versions') = current_timestamp + 1 /\ versions'[current_timestamp + 1] = root
      /\ current_timestamp \in Nat /\ Version \subseteq Nat /\ writer \in Thread /\ latest_timestamp \in Nat
      /\ latest_timestamp < current_timestamp
  BY InsertTypes, Basics DEF Inv, latest_timestamp
<1>3. /\ UNCHANGED <<current_timestamp, freed>> /\ latest_timestamp' = latest_timestamp
      /\ Moves(writer, "insert", "value")
  BY InsertEffect DEF Inv, latest_timestamp
<1>4. /\ pc[writer] = "insert" /\ pc'[writer] = "value" /\ pc[writer] \notin Dying \cup Dropping
      /\ pc[writer] \in Holding /\ pc'[writer] \in Holding
      /\ \A u \in Thread \ {writer} : pc'[u] = pc[u] /\ local'[u] = local[u]
      /\ local'[writer].slot = local[writer].slot /\ local'[writer].latest = s
  BY <1>1, <1>2, <1>3 DEF Moves, Dying, Dropping, Holding, Inv, LocalOK
<1>5. \A u \in Slot : table[u].key \in Version => table[u].key \in 0 .. latest_timestamp /\ u # s
  <2>1. ASSUME NEW u \in Slot, table[u].key \in Version PROVE table[u].key <= latest_timestamp
    <3>1. table[u].key \in Nat
      BY <1>2, <2>1
    <3>2. ~(table[u].key > latest_timestamp)
      BY <1>4, <2>1 DEF Inv, KeyInv
    <3> HIDE DEF latest_timestamp
    <3> QED BY <1>2, <3>1, <3>2
  <2> HIDE DEF latest_timestamp
  <2> QED BY <1>1, <1>2, <2>1
<1> HIDE DEF latest_timestamp
<1>6. CountInv'
  <2>1. \A u : Held(u)' = Held(u)
    BY <1>2, <1>4, HeldSame
  <2>2. ASSUME NEW u \in Slot PROVE CountOf(u)'
    <3>1. CountOf(u) /\ Held(u)' = Held(u)
      BY <2>1 DEF Inv, CountInv
    <3>2. CASE u = s
      <4> HIDE DEF Held
      <4> QED BY <1>1, <3>1, <3>2 DEF CountOf
    <3>3. CASE u # s
      <4> HIDE DEF Held
      <4> QED BY <1>1, <1>2, <1>3, <1>5, <3>1, <3>3 DEF CountOf
    <3> QED BY <3>2, <3>3
  <2> QED BY <2>2 DEF CountInv
<1>7. KeyInv'
  <2>1. KeyInv
    BY DEF Inv
  <2>2. ASSUME NEW u \in Slot, NEW w \in Slot, table'[u].key \in Version, table'[u].key = table'[w].key
        PROVE  u = w
    <3>1. ASSUME NEW x \in Slot, x # s, table'[x].key \in Version PROVE table'[x].key # current_timestamp
      <4>1. table'[x].key = table[x].key /\ table[x].key \in 0 .. latest_timestamp
        BY <1>1, <1>5, <3>1
      <4> QED BY <1>2, <4>1
    <3>2. CASE u # s /\ w # s
      BY <1>1, <2>1, <2>2, <3>2 DEF KeyInv
    <3> QED BY <1>1, <2>2, <3>1, <3>2
  <2>3. ASSUME NEW u \in Slot, table'[u].key \in Version, table'[u].key > latest_timestamp
        PROVE  u = s
    <3>1. SUFFICES ASSUME u # s PROVE FALSE
      OBVIOUS
    <3>2. table[u].key \in 0 .. latest_timestamp /\ table'[u] = table[u]
      BY <1>1, <1>5, <2>3, <3>1
    <3> QED BY <1>2, <2>3, <3>2
  <2>4. \E u \in Slot : table'[u].key = latest_timestamp
    <3>1. PICK u \in Slot : table[u].key = latest_timestamp
      BY <2>1 DEF KeyInv
    <3>2. latest_timestamp \in Version
      BY <1>2, MaxVersionAssumption DEF Version
    <3> QED BY <1>1, <3>1, <3>2
  <2> QED BY <1>3, <1>4, <2>2, <2>3, <2>4 DEF KeyInv
<1>8. DutyInv'
  <2>1. ASSUME NEW u \in Slot PROVE DutyOf(u)'
    <3>1. DutyOf(u)
      BY DEF Inv, DutyInv
    <3>2. CASE u = s
      <4>1. current_timestamp \notin 0 .. (latest_timestamp - 1)
        BY <1>2
      <4> HIDE DEF Dying, Dropping
      <4> QED BY <1>1, <1>3, <1>4, <3>2, <4>1 DEF DutyOf
    <3>3. CASE u # s
      <4>1. table'[u] = table[u]
        BY <1>1, <3>3
      <4>2. \A w \in Thread : pc[w] \in Dying \cup Dropping => pc'[w] = pc[w] /\ local'[w] = local[w]
        BY <1>4
      <4> HIDE DEF Dying, Dropping
      <4> QED BY <1>3, <1>4, <3>1, <4>1, <4>2 DEF DutyOf
    <3> QED BY <3>2, <3>3
  <2> QED BY <2>1 DEF DutyInv
<1>9. TreeInv'
  <2>1. TreeInv
    BY DEF Inv
  <2>2. Len(versions') = current_timestamp' + (IF pc'[writer] \in {"value", "publish"} THEN 1 ELSE 0)
    BY <1>2, <1>3, <1>4
  <2>3. ASSUME NEW v \in 0 .. (Len(versions') - 1) PROVE versions'[v + 1] \in {v, nullptr}
    <3>1. CASE v = current_timestamp
      BY <1>2, <3>1
    <3>2. CASE v # current_timestamp
      <4>1. v \in 0 .. (Len(versions) - 1) /\ v \in 0 .. latest_timestamp
        BY <1>2, <3>2 DEF latest_timestamp
      <4> QED BY <1>2, <2>1, <4>1 DEF TreeInv
    <3> QED BY <3>1, <3>2
  <2>4. ASSUME NEW v \in 0 .. latest_timestamp, \A u \in Slot : table'[u].key # v
        PROVE  versions'[v + 1] = nullptr \/ freed[v] = 1
    <3>1. v \in Version
      BY <1>2, MaxVersionAssumption DEF Version
    <3>2. \A u \in Slot : table[u].key # v
      BY <1>1, <2>4, <3>1
    <3> QED BY <1>2, <2>1, <3>2 DEF TreeInv
  <2> QED BY <1>3, <2>1, <2>2, <2>3, <2>4 DEF TreeInv
<1> QED BY <1>6, <1>7, <1>8, <1>9

LEMMA InsertThreads ==
  ASSUME Inv, ~RefillsOvertake, NEW root \in {current_timestamp, nullptr}, Insert(root)
  PROVE  SeekInv' /\ UseInv' /\ DyingInv' /\ WriterInv'
<1>1. PICK s \in Slot :
        /\ table[s].key \notin Version /\ table[s].word.ct = 0
        /\ \A t \in Thread : pc[t] \in Seeking \cup Using => local[t].slot # s
        /\ table'[s].key = current_timestamp /\ table'[s].word = table[s].word
        /\ \A u \in Slot \ {s} : table'[u] = table[u]
        /\ local'[writer] = [local[writer] EXCEPT !.latest = s]
  BY InsertFacts
<1>2. /\ writer \in Thread /\ latest_timestamp \in Nat /\ Version \subseteq Nat
      /\ \A t \in Thread : local[t].slot \in Slot /\ local[t].timestamp \in Version
      /\ \A v \in 0 .. latest_timestamp : versions'[v + 1] = versions[v + 1]
  BY InsertTypes, Basics DEF Inv
<1>3. /\ UNCHANGED <<current_timestamp, freed>> /\ latest_timestamp' = latest_timestamp
      /\ Moves(writer, "insert", "value")
  BY InsertEffect DEF Inv, latest_timestamp
<1>4. /\ pc[writer] = "insert" /\ pc'[writer] = "value"
      /\ \A u \in Thread \ {writer} : pc'[u] = pc[u] /\ local'[u] = local[u]
      /\ local'[writer].slot = local[writer].slot /\ local'[writer].latest = s
      /\ local'[writer].timestamp = local[writer].timestamp /\ local'[writer].root = local[writer].root
      /\ \A u \in Thread : local'[u].slot = local[u].slot
  BY <1>1, <1>2, <1>3 DEF Moves, Inv, LocalOK
<1>5. /\ \A u \in Thread : pc'[u] \in Seeking \cup Using <=> pc[u] \in Seeking \cup Using
      /\ \A u \in Thread : pc'[u] \in Dying <=> pc[u] \in Dying
      /\ \A u \in Thread : pc[u] \in Dying => local'[u] = local[u]
  BY <1>4 DEF Seeking, Using, Holding, Dying, Dropping
<1>6. ASSUME NEW u \in Thread, pc[u] \in Seeking \cup Using
      PROVE  table'[local[u].slot] = table[local[u].slot]
  BY <1>1, <1>2, <1>6
<1>7. ASSUME NEW u \in Thread PROVE SeekOf(u)' /\ UseOf(u)' /\ DyingOf(u)'
  <2>1. SeekOf(u) /\ UseOf(u) /\ DyingOf(u)
    BY DEF Inv, SeekInv, UseInv, DyingInv
  <2>2. pc[u] \in Using => versions'[local[u].timestamp + 1] = versions[local[u].timestamp + 1]
    <3>1. SUFFICES ASSUME pc[u] \in Using PROVE local[u].timestamp \in 0 .. latest_timestamp
      BY <1>2
    <3>2. local[u].timestamp <= latest_timestamp /\ local[u].timestamp \in Nat
      BY <1>2, <2>1, <3>1 DEF UseOf
    <3> HIDE DEF latest_timestamp
    <3> QED BY <1>2, <3>2
  <2>3. SeekOf(u)'
    <3>1. CASE u = writer
      BY <1>4, <3>1 DEF SeekOf, Seeking
    <3>2. CASE u # writer
      <4> HIDE DEF Seeking, Using
      <4> QED BY <1>3, <1>4, <1>6, <2>1, <3>2 DEF SeekOf
    <3> QED BY <3>1, <3>2
  <2>4. UseOf(u)'
    <3>1. CASE u = writer
      <4>1. pc[writer] \in Holding /\ pc[writer] \in Using /\ pc'[writer] \notin Dropping \cup {"reread", "unref"}
        BY <1>4 DEF Holding, Using, Dropping
      <4> HIDE DEF Holding, Using, Dropping
      <4> QED BY <1>3, <1>4, <1>6, <2>1, <2>2, <3>1, <4>1 DEF UseOf
    <3>2. CASE u # writer
      <4>1. pc[u] \in Holding \cup Dropping => pc[u] \in Using
        BY DEF Using
      <4> HIDE DEF Seeking, Using, Holding, Dropping
      <4> QED BY <1>3, <1>4, <1>6, <2>1, <2>2, <3>2, <4>1 DEF UseOf
    <3> QED BY <3>1, <3>2
  <2>5. DyingOf(u)'
    <3>1. SUFFICES ASSUME pc[u] \in Dying PROVE DyingOf(u)'
      BY <1>5 DEF DyingOf
    <3>2. /\ table'[local[u].slot] = table[local[u].slot] /\ local'[u] = local[u] /\ pc'[u] = pc[u]
      BY <1>4, <1>6, <3>1 DEF Using, Dying
    <3>3. \A w \in Thread : pc[w] \in Dying /\ local[w].slot = local[u].slot => w = u
      BY <2>1, <3>1 DEF DyingOf
    <3>4. \A w \in Thread : pc'[w] \in Dying /\ local'[w].slot = local[u].slot => w = u
      <4> HIDE DEF Dying
      <4> QED BY <1>4, <1>5, <3>3
    <3> HIDE DEF Dying
    <3> QED BY <1>3, <2>1, <3>1, <3>2, <3>4 DEF DyingOf
  <2> QED BY <2>3, <2>4, <2>5
<1>8. WriterInv'
  <2>1. current_timestamp <= MaxVersion /\ local[writer].timestamp = latest_timestamp
    BY <1>4 DEF Inv, WriterInv
  <2>2. \A u \in Thread : pc'[u] \in Seeking \cup Using => local'[u].slot # s
    <3> HIDE DEF Seeking, Using
    <3> QED BY <1>1, <1>4, <1>5
  <2> QED BY <1>1, <1>3, <1>4, <2>1, <2>2 DEF WriterInv
<1> QED BY <1>7, <1>8 DEF SeekInv, UseInv, DyingInv

\* The entry gets the table's reference to its version, and the version's tree.
LEMMA ValueFacts ==
  ASSUME Inv, InsertValue
  PROVE  \E s \in Slot :
           /\ s = local[writer].latest /\ table[s].key = current_timestamp /\ table[s].word.ct = 0 /\ Held(s) = {}
           /\ \A t \in Thread : pc[t] \in Seeking \cup Using => local[t].slot # s
           /\ UNCHANGED <<current_timestamp, versions, freed, local>> /\ latest_timestamp' = latest_timestamp
           /\ Moves(writer, "value", "publish")
           /\ table' = [table EXCEPT ![s] = [key |-> current_timestamp, word |-> [ts |-> current_timestamp, ct |-> 1],
                                             root |-> versions[current_timestamp + 1]]]
           /\ table'[s] = [key |-> current_timestamp, word |-> [ts |-> current_timestamp, ct |-> 1],
                           root |-> versions[current_timestamp + 1]]
           /\ \A u \in Slot \ {s} : table'[u] = table[u]
<1>1. pc[writer] = "value"
  BY DEF InsertValue
<1>2. PICK s \in Slot : s = local[writer].latest
  BY <1>1 DEF Inv, WriterInv
<1>3. /\ table[s].key = current_timestamp /\ table[s].word.ct = 0
      /\ \A t \in Thread : pc[t] \in Seeking \cup Using => local[t].slot # s
  BY <1>1, <1>2 DEF Inv, WriterInv
<1>4. Held(s) = {}
  <2> HIDE DEF Held
  <2> QED BY <1>3 DEF Inv, CountInv, CountOf
<1>5. /\ UNCHANGED <<current_timestamp, versions, freed, local>> /\ Moves(writer, "value", "publish")
      /\ table' = [table EXCEPT ![s] = [key |-> current_timestamp, word |-> [ts |-> current_timestamp, ct |-> 1],
                                        root |-> versions[current_timestamp + 1]]]
      /\ table'[s] = [key |-> current_timestamp, word |-> [ts |-> current_timestamp, ct |-> 1],
                      root |-> versions[current_timestamp + 1]]
      /\ \A u \in Slot \ {s} : table'[u] = table[u]
  BY <1>2, ValueEffect DEF Inv
<1>6. latest_timestamp' = latest_timestamp
  BY <1>5 DEF latest_timestamp
<1> HIDE DEF Seeking, Using, Held
<1> QED BY <1>2, <1>3, <1>4, <1>5, <1>6

LEMMA ValueTypes ==
  ASSUME Inv, InsertValue
  PROVE  TypeOK' /\ LocalOK' /\ current_timestamp \in Version
<1>1. TypeOK /\ LocalOK /\ current_timestamp \in Nat /\ versions \in Seq({nullptr} \cup 0..MaxVersion)
  BY Basics DEF Inv, TypeOK
<1>2. pc[writer] = "value"
  BY DEF InsertValue
<1>3. current_timestamp \in 0..MaxVersion
  <2>1. current_timestamp <= MaxVersion
    BY <1>2 DEF Inv, WriterInv
  <2> QED BY <1>1, <2>1, MaxVersionAssumption
<1>4. versions[current_timestamp + 1] \in {nullptr} \cup 0..MaxVersion
  <2>1. Len(versions) = current_timestamp + (IF pc[writer] \in {"value", "publish"} THEN 1 ELSE 0)
    BY DEF Inv, TreeInv
  <2>2. Len(versions) = current_timestamp + 1
    BY <1>1, <1>2, <2>1
  <2> QED BY <1>1, <2>2
<1>5. PICK s \in Slot :
        table' = [table EXCEPT ![s] = [key |-> current_timestamp, word |-> [ts |-> current_timestamp, ct |-> 1],
                                       root |-> versions[current_timestamp + 1]]]
  BY ValueFacts
<1>6. table' \in [Slot -> [key : {max_key, tombstone} \cup 0..MaxVersion, word : Word,
                           root : {nullptr} \cup 0..MaxVersion]]
  <2>1. [ts |-> current_timestamp, ct |-> 1] \in Word
    BY <1>3 DEF Word
  <2>2. [key |-> current_timestamp, word |-> [ts |-> current_timestamp, ct |-> 1],
         root |-> versions[current_timestamp + 1]]
          \in [key : {max_key, tombstone} \cup 0..MaxVersion, word : Word, root : {nullptr} \cup 0..MaxVersion]
    BY <1>3, <1>4, <2>1
  <2> QED BY <1>1, <1>5, <2>2 DEF TypeOK
<1>7. LocalOK'
  BY <1>1 DEF LocalOK, InsertValue
<1>8. pc' \in [Thread -> {"idle"} \cup Acquiring \cup Holding \cup Releasing]
  BY <1>1 DEF TypeOK, InsertValue, Goto, Holding
<1>9. UNCHANGED <<current_timestamp, versions, freed>>
  BY DEF InsertValue
<1> QED BY <1>1, <1>3, <1>6, <1>7, <1>8, <1>9, Typed DEF TypeOK, Version

LEMMA ValueShared ==
  ASSUME Inv, InsertValue
  PROVE  CountInv' /\ KeyInv' /\ DutyInv' /\ TreeInv'
<1>1. PICK s \in Slot :
        /\ s = local[writer].latest /\ table[s].key = current_timestamp /\ Held(s) = {}
        /\ UNCHANGED <<current_timestamp, versions, freed, local>> /\ latest_timestamp' = latest_timestamp
        /\ Moves(writer, "value", "publish")
        /\ table'[s] = [key |-> current_timestamp, word |-> [ts |-> current_timestamp, ct |-> 1],
                        root |-> versions[current_timestamp + 1]]
        /\ \A u \in Slot \ {s} : table'[u] = table[u]
  BY ValueFacts
<1>2. /\ current_timestamp \in Version /\ current_timestamp \in Nat /\ latest_timestamp \in Nat
      /\ latest_timestamp < current_timestamp /\ writer \in Thread
  BY ValueTypes, Basics DEF Inv, latest_timestamp
<1>3. /\ pc[writer] = "value" /\ pc'[writer] = "publish" /\ pc[writer] \notin Dying \cup Dropping
      /\ pc[writer] \in Holding /\ pc'[writer] \in Holding
      /\ \A u \in Thread \ {writer} : pc'[u] = pc[u] /\ local'[u] = local[u]
  BY <1>1 DEF Moves, Dying, Dropping, Holding
<1> HIDE DEF latest_timestamp
<1>4. \A u \in Slot : table'[u].key = table[u].key
  BY <1>1
<1>5. CountInv'
  <2>1. \A u : Held(u)' = Held(u)
    BY <1>1, <1>2, <1>3, HeldSame
  <2>2. ASSUME NEW u \in Slot PROVE CountOf(u)'
    <3>1. CountOf(u) /\ Held(u)' = Held(u)
      BY <2>1 DEF Inv, CountInv
    <3>2. CASE u = s
      <4>1. /\ table'[s].key = current_timestamp /\ table'[s].word.ts = current_timestamp /\ table'[s].word.ct = 1
            /\ table'[s].root = versions[current_timestamp + 1]
        BY <1>1
      <4>2. freed[current_timestamp] = 0
        BY <1>2 DEF Inv, TreeInv
      <4>3. 1 = 1 + Cardinality(Held(s))
        BY <1>1, FS_EmptySet
      <4> HIDE DEF Held
      <4> QED BY <1>1, <1>2, <3>1, <3>2, <4>1, <4>2, <4>3 DEF CountOf
    <3>3. CASE u # s
      <4> HIDE DEF Held
      <4> QED BY <1>1, <3>1, <3>3 DEF CountOf
    <3> QED BY <3>2, <3>3
  <2> QED BY <2>2 DEF CountInv
<1>6. KeyInv'
  BY <1>1, <1>3, <1>4 DEF Inv, KeyInv
<1>7. DutyInv'
  <2>1. ASSUME NEW u \in Slot PROVE DutyOf(u)'
    <3>1. DutyOf(u)
      BY DEF Inv, DutyInv
    <3>2. CASE u = s
      <4>1. current_timestamp \notin 0 .. (latest_timestamp - 1) /\ table'[s].word.ct = 1
            /\ table'[s].key = current_timestamp
        BY <1>1, <1>2
      <4> HIDE DEF Dying, Dropping
      <4> QED BY <1>1, <3>2, <4>1 DEF DutyOf
    <3>3. CASE u # s
      <4>1. table'[u] = table[u]
        BY <1>1, <3>3
      <4>2. \A w \in Thread : pc[w] \in Dying \cup Dropping => pc'[w] = pc[w] /\ local'[w] = local[w]
        BY <1>3
      <4> HIDE DEF Dying, Dropping
      <4> QED BY <1>1, <1>3, <3>1, <3>3, <4>1, <4>2 DEF DutyOf
    <3> QED BY <3>2, <3>3
  <2> QED BY <2>1 DEF DutyInv
<1>8. TreeInv'
  BY <1>1, <1>3, <1>4 DEF Inv, TreeInv
<1> QED BY <1>5, <1>6, <1>7, <1>8

LEMMA ValueThreads ==
  ASSUME Inv, InsertValue
  PROVE  SeekInv' /\ UseInv' /\ DyingInv' /\ WriterInv'
<1>1. PICK s \in Slot :
        /\ s = local[writer].latest /\ table[s].key = current_timestamp
        /\ \A t \in Thread : pc[t] \in Seeking \cup Using => local[t].slot # s
        /\ UNCHANGED <<current_timestamp, versions, freed, local>> /\ latest_timestamp' = latest_timestamp
        /\ Moves(writer, "value", "publish")
        /\ table'[s] = [key |-> current_timestamp, word |-> [ts |-> current_timestamp, ct |-> 1],
                        root |-> versions[current_timestamp + 1]]
        /\ \A u \in Slot \ {s} : table'[u] = table[u]
  BY ValueFacts
<1>2. writer \in Thread /\ \A u \in Thread : local[u].slot \in Slot
  BY Basics DEF Inv
<1>3. /\ pc[writer] = "value" /\ pc'[writer] = "publish" /\ \A u \in Thread \ {writer} : pc'[u] = pc[u]
  BY <1>1 DEF Moves
<1>4. /\ \A u \in Thread : pc[u] \in Seeking \cup Using => table'[local[u].slot] = table[local[u].slot]
      /\ \A u \in Thread : pc'[u] \in Dying <=> pc[u] \in Dying
  BY <1>1, <1>2, <1>3 DEF Dying
<1>5. ASSUME NEW u \in Thread PROVE SeekOf(u)' /\ UseOf(u)' /\ DyingOf(u)'
  <2>1. SeekOf(u) /\ UseOf(u) /\ DyingOf(u)
    BY DEF Inv, SeekInv, UseInv, DyingInv
  <2>2. CASE u = writer
    BY <1>1, <1>2, <1>3, <1>4, <2>1, <2>2 DEF SeekOf, UseOf, DyingOf, Seeking, Using, Holding, Dropping, Dying
  <2>3. CASE u # writer
    <3>1. SeekOf(u)' /\ UseOf(u)'
      <4>1. pc[u] \in Holding \cup Dropping => pc[u] \in Using
        BY DEF Using
      <4> HIDE DEF Seeking, Using, Holding, Dropping
      <4> QED BY <1>1, <1>3, <1>4, <2>1, <2>3, <4>1 DEF SeekOf, UseOf
    <3>2. DyingOf(u)'
      <4>1. pc[u] \in Dying => pc[u] \in Using
        BY DEF Using
      <4> HIDE DEF Dying, Using, Seeking
      <4> QED BY <1>1, <1>3, <1>4, <2>1, <2>3, <4>1 DEF DyingOf
    <3> QED BY <3>1, <3>2
  <2> QED BY <2>2, <2>3
<1>6. WriterInv'
  <2>1. current_timestamp <= MaxVersion /\ local[writer].timestamp = latest_timestamp
    BY <1>3 DEF Inv, WriterInv
  <2>2. table'[s].key = current_timestamp
    BY <1>1
  <2> QED BY <1>1, <1>3, <2>1, <2>2 DEF WriterInv
<1> QED BY <1>5, <1>6 DEF SeekInv, UseInv, DyingInv

\* The new version becomes the latest; the old one stays, for the writer still has it.
LEMMA PublishFacts ==
  ASSUME Inv, Publish
  PROVE  /\ UNCHANGED <<table, versions, freed, local>> /\ Moves(writer, "publish", "held")
         /\ current_timestamp' = current_timestamp + 1 /\ latest_timestamp' = current_timestamp
         /\ current_timestamp \in Version /\ current_timestamp \in Nat /\ latest_timestamp \in Nat
         /\ current_timestamp = latest_timestamp + 1
         /\ local[writer].latest \in Slot /\ table[local[writer].latest].key = current_timestamp
         /\ local[writer].slot \in Slot /\ table[local[writer].slot].key = latest_timestamp
         /\ table[local[writer].slot].word.ct > 1
<1>1. /\ UNCHANGED <<table, versions, freed, local>> /\ Moves(writer, "publish", "held")
      /\ current_timestamp' = current_timestamp + 1 /\ pc[writer] = "publish"
  BY PublishEffect DEF Inv, Publish
<1>2. /\ current_timestamp \in Nat /\ latest_timestamp \in Nat /\ current_timestamp = latest_timestamp + 1
      /\ writer \in Thread /\ local[writer].slot \in Slot
      /\ \A u \in Slot : table[u].word.ct \in Nat
  BY Basics DEF Inv, latest_timestamp
<1>3. latest_timestamp' = current_timestamp
  BY <1>1, <1>2 DEF latest_timestamp
<1>4. /\ current_timestamp <= MaxVersion /\ local[writer].timestamp = latest_timestamp
      /\ local[writer].latest \in Slot /\ table[local[writer].latest].key = current_timestamp
  BY <1>1 DEF Inv, WriterInv
<1>5. current_timestamp \in Version
  BY <1>2, <1>4, MaxVersionAssumption DEF Version
<1>6. /\ table[local[writer].slot].key = latest_timestamp /\ table[local[writer].slot].word.ct > 0
  BY <1>1, <1>2, <1>4 DEF Inv, UseInv, UseOf, Holding
<1>7. table[local[writer].slot].word.ct > 1
  <2>1. PICK s \in Slot : s = local[writer].slot
    BY <1>2
  <2>2. Held(s) # {} /\ Cardinality(Held(s)) # 0
    <3>1. writer \in Held(s)
      BY <1>1, <1>2, <2>1 DEF Held, Holding
    <3> QED BY <3>1, HeldEmpty
  <2>3. CountOf(s)
    BY DEF Inv, CountInv
  <2> HIDE DEF Held
  <2> QED BY <1>6, <2>1, <2>2, <2>3, HeldFinite DEF CountOf
<1> QED BY <1>1, <1>2, <1>3, <1>4, <1>5, <1>6, <1>7

LEMMA PublishTypes ==
  ASSUME Inv, Publish
  PROVE  TypeOK' /\ LocalOK'
<1>1. TypeOK /\ LocalOK
  BY DEF Inv
<1>2. current_timestamp' \in 1 .. (MaxVersion + 1)
  BY PublishFacts, MaxVersionAssumption DEF Version
<1>3. LocalOK'
  BY <1>1 DEF LocalOK, Publish
<1>4. pc' \in [Thread -> {"idle"} \cup Acquiring \cup Holding \cup Releasing]
  BY <1>1 DEF TypeOK, Publish, Goto, Holding
<1>5. UNCHANGED <<table, versions, freed>>
  BY DEF Publish
<1> QED BY <1>1, <1>2, <1>3, <1>4, <1>5, Typed DEF TypeOK

LEMMA PublishKeeps ==
  ASSUME Inv, Publish
  PROVE  /\ CountInv' /\ KeyInv' /\ DutyInv' /\ TreeInv' /\ SeekInv' /\ UseInv' /\ DyingInv' /\ WriterInv'
<1>1. /\ UNCHANGED <<table, versions, freed, local>>
      /\ current_timestamp' = current_timestamp + 1 /\ latest_timestamp' = latest_timestamp + 1
      /\ current_timestamp \in Version /\ current_timestamp \in Nat /\ latest_timestamp \in Nat
      /\ current_timestamp = latest_timestamp + 1
      /\ local[writer].latest \in Slot /\ table[local[writer].latest].key = current_timestamp
      /\ local[writer].slot \in Slot /\ table[local[writer].slot].key = latest_timestamp
      /\ table[local[writer].slot].word.ct > 1
  BY PublishFacts
<1>2. /\ writer \in Thread /\ Version \subseteq Nat
      /\ \A u \in Thread : local[u].latest \in Nat /\ local[u].timestamp \in Version
  BY Basics DEF Inv
<1>3. /\ pc[writer] = "publish" /\ pc'[writer] = "held" /\ pc[writer] \notin Dying \cup Dropping
      /\ pc[writer] \in Holding /\ pc'[writer] \in Holding
      /\ \A u \in Thread \ {writer} : pc'[u] = pc[u]
  BY PublishFacts DEF Moves, Dying, Dropping, Holding
<1> HIDE DEF latest_timestamp
<1>4. CountInv'
  <2>1. \A u : Held(u)' = Held(u)
    BY <1>1, <1>2, <1>3, HeldSame
  <2>2. ASSUME NEW u \in Slot PROVE CountOf(u)'
    <3>1. CountOf(u) /\ Held(u)' = Held(u)
      BY <2>1 DEF Inv, CountInv
    <3> HIDE DEF Held
    <3> QED BY <1>1, <3>1 DEF CountOf
  <2> QED BY <2>2 DEF CountInv
<1>5. KeyInv'
  <2>1. KeyInv
    BY DEF Inv
  <2>2. ASSUME NEW u \in Slot, table[u].key \in Version, table[u].key > latest_timestamp + 1
        PROVE  FALSE
    <3>1. table[u].key \in Nat
      BY <1>2, <2>2
    <3>2. table[u].key > latest_timestamp
      BY <1>1, <2>2, <3>1
    <3>3. u = local[writer].latest
      BY <2>1, <2>2, <3>2 DEF KeyInv
    <3> QED BY <1>1, <2>2, <3>3
  <2>3. \E u \in Slot : table[u].key = latest_timestamp + 1
    BY <1>1
  <2> QED BY <1>1, <2>1, <2>2, <2>3 DEF KeyInv
<1>6. DutyInv'
  <2>1. ASSUME NEW u \in Slot PROVE DutyOf(u)'
    <3>1. DutyOf(u)
      BY DEF Inv, DutyInv
    <3>2. \A w \in Thread : pc[w] \in Dying \cup Dropping => pc'[w] = pc[w]
      BY <1>3
    <3>3. table[u].key \in Version /\ table[u].word.ct = 0 =>
            \E w \in Thread : pc'[w] \in Dying /\ local[w].slot = u
      <4> HIDE DEF Dying, Dropping
      <4> QED BY <1>3, <3>1, <3>2 DEF DutyOf
    <3>4. ASSUME table[u].key \in 0 .. latest_timestamp, table[u].word.ct = 1
          PROVE  \E w \in Thread : pc'[w] \in Dropping /\ local[w].slot = u
      <4>1. u # local[writer].slot
        BY <1>1, <3>4
      <4>2. latest_timestamp \in Version /\ table[u].key \in Nat
        BY <1>1, <3>4, MaxVersionAssumption DEF Version
      <4>3. table[u].key # latest_timestamp
        BY <1>1, <4>1, <4>2 DEF Inv, KeyInv
      <4>4. table[u].key \in 0 .. (latest_timestamp - 1)
        BY <1>1, <3>4, <4>3
      <4> HIDE DEF Dying, Dropping
      <4> QED BY <3>1, <3>2, <3>4, <4>4 DEF DutyOf
    <3>5. latest_timestamp' - 1 = latest_timestamp
      BY <1>1
    <3> HIDE DEF Dying, Dropping
    <3> QED BY <1>1, <3>3, <3>4, <3>5 DEF DutyOf
  <2> QED BY <2>1 DEF DutyInv
<1>7. TreeInv'
  <2>1. TreeInv
    BY DEF Inv
  <2>2. Len(versions) = current_timestamp + 1
    <3>1. Len(versions) = current_timestamp + (IF pc[writer] \in {"value", "publish"} THEN 1 ELSE 0)
      BY <2>1 DEF TreeInv
    <3> QED BY <1>1, <1>3, <3>1
  <2>3. Len(versions)' = current_timestamp' + (IF pc'[writer] \in {"value", "publish"} THEN 1 ELSE 0)
    BY <1>1, <1>3, <2>2
  <2>4. \A v \in Version : freed[v] <= 1 /\ (v > latest_timestamp + 1 => freed[v] = 0)
    <3>1. \A v \in Version : v > latest_timestamp + 1 => v > latest_timestamp
      BY <1>1, <1>2
    <3> QED BY <2>1, <3>1 DEF TreeInv
  <2>5. ASSUME NEW v \in 0 .. (latest_timestamp + 1), \A s \in Slot : table[s].key # v
        PROVE  versions[v + 1] = nullptr \/ freed[v] = 1
    <3>1. v # current_timestamp
      BY <1>1, <2>5
    <3>2. v \in 0 .. latest_timestamp
      BY <1>1, <3>1
    <3> QED BY <2>1, <2>5, <3>2 DEF TreeInv
  <2> QED BY <1>1, <2>1, <2>3, <2>4, <2>5 DEF TreeInv
<1>8. ASSUME NEW u \in Thread PROVE SeekOf(u)' /\ UseOf(u)' /\ DyingOf(u)'
  <2>1. SeekOf(u) /\ UseOf(u) /\ DyingOf(u)
    BY DEF Inv, SeekInv, UseInv, DyingInv
  <2>2. /\ local[u].latest <= latest_timestamp => local[u].latest <= latest_timestamp'
        /\ local[u].timestamp <= latest_timestamp => local[u].timestamp <= latest_timestamp'
        /\ local[u].timestamp < latest_timestamp => local[u].timestamp < latest_timestamp'
    <3>1. local[u].latest \in Nat /\ local[u].timestamp \in Nat
      BY <1>2
    <3> QED BY <1>1, <3>1
  <2>3. CASE u = writer
    <3>1. pc'[writer] \notin Seeking \cup Dying \cup Dropping \cup {"find", "cas", "reread", "unref"}
          /\ pc[writer] \in Using
      BY <1>3 DEF Seeking, Dying, Dropping, Using, Holding
    <3> HIDE DEF Seeking, Using, Holding, Dropping, Dying
    <3> QED BY <1>1, <1>3, <2>1, <2>2, <2>3, <3>1 DEF SeekOf, UseOf, DyingOf
  <2>4. CASE u # writer
    <3>1. pc'[u] = pc[u]
      BY <1>3, <2>4
    <3>2. SeekOf(u)' /\ UseOf(u)'
      <4> HIDE DEF Seeking, Using, Holding, Dropping, Dying
      <4> QED BY <1>1, <2>1, <2>2, <2>4, <3>1 DEF SeekOf, UseOf
    <3>3. DyingOf(u)'
      <4>1. \A w \in Thread : pc'[w] \in Dying <=> pc[w] \in Dying
        BY <1>3 DEF Dying
      <4> HIDE DEF Dying
      <4> QED BY <1>1, <2>1, <2>2, <3>1, <4>1 DEF DyingOf
    <3> QED BY <3>2, <3>3
  <2> QED BY <2>3, <2>4
<1>9. WriterInv'
  <2>1. pc'[writer] \notin Acquiring \cup {"insert", "value", "publish"}
    BY <1>3 DEF Acquiring
  <2> QED BY <2>1 DEF WriterInv
<1> QED BY <1>4, <1>5, <1>6, <1>7, <1>8, <1>9 DEF SeekInv, UseInv, DyingInv

----------------------------------------------------------------------------
(* The theorems. *)

LEMMA AspenInit ==
  ASSUME Init
  PROVE  Inv
<1>1. PICK root \in {0, nullptr} :
        /\ current_timestamp = 1 /\ versions = <<root>>
        /\ table = [s \in Slot |-> IF s = 1 THEN [key |-> 0, word |-> [ts |-> 0, ct |-> 1], root |-> root]
                                   ELSE [key |-> max_key, word |-> [ts |-> 0, ct |-> 0], root |-> nullptr]]
        /\ freed = [v \in 0..MaxVersion |-> 0]
        /\ pc = [t \in Thread |-> "idle"]
        /\ local = [t \in Thread |-> Nothing]
  BY DEF Init
<1>2. /\ 1 \in Slot /\ 0 \in Version /\ latest_timestamp = 0 /\ writer \in Thread
      /\ Len(versions) = 1 /\ versions[1] = root
  BY <1>1, SlotsAssumption, MaxVersionAssumption DEF Slot, Version, latest_timestamp, Thread
<1>3. /\ table[1] = [key |-> 0, word |-> [ts |-> 0, ct |-> 1], root |-> root]
      /\ \A s \in Slot \ {1} : table[s] = [key |-> max_key, word |-> [ts |-> 0, ct |-> 0], root |-> nullptr]
      /\ \A t \in Thread : pc[t] = "idle"
      /\ \A v \in Version : freed[v] = 0
  BY <1>1, <1>2 DEF Version
<1>4. LocalOK
  BY <1>1, NothingType DEF LocalOK
<1>5. TypeOK
  <2>1. [ts |-> 0, ct |-> 1] \in Word /\ [ts |-> 0, ct |-> 0] \in Word
    BY MaxVersionAssumption DEF Word
  <2>2. table \in [Slot -> [key : {max_key, tombstone} \cup 0..MaxVersion, word : Word, root : {nullptr} \cup 0..MaxVersion]]
    BY <1>1, <2>1, MaxVersionAssumption
  <2>3. /\ current_timestamp \in 1 .. (MaxVersion + 1) /\ versions \in Seq({nullptr} \cup 0..MaxVersion)
        /\ freed \in [0..MaxVersion -> Nat] /\ pc \in [Thread -> {"idle"} \cup Acquiring \cup Holding \cup Releasing]
    BY <1>1, MaxVersionAssumption
  <2>4. \A t \in Thread :
          /\ local[t].slot \in Slot /\ local[t].latest \in Nat
          /\ local[t].seen \in Word /\ local[t].timestamp \in 0..MaxVersion
          /\ local[t].root \in {nullptr} \cup 0..MaxVersion
    BY <1>4 DEF LocalOK, Version
  <2> QED BY <2>2, <2>3, <2>4 DEF TypeOK
<1>6. max_key \notin Version
  BY MaxVersionAssumption DEF max_key, Version
<1>7. CountInv
  <2>1. \A s : Held(s) = {}
    BY <1>3 DEF Held, Holding
  <2>2. 1 = 1 + Cardinality({})
    BY FS_EmptySet
  <2>3. ASSUME NEW s \in Slot PROVE CountOf(s)
    <3>1. CASE s = 1
      <4> HIDE DEF Held
      <4> QED BY <1>2, <1>3, <2>1, <2>2, <3>1 DEF CountOf
    <3>2. CASE s # 1
      <4> HIDE DEF Held
      <4> QED BY <1>3, <2>1, <3>2 DEF CountOf
    <3> QED BY <3>1, <3>2
  <2> QED BY <2>3 DEF CountInv
<1>8. \A s \in Slot : table[s].key \in Version => s = 1 /\ table[s].key = 0 /\ table[s].word.ct = 1
  BY <1>3, <1>6
<1>9. KeyInv
  <2>1. table[1].key = latest_timestamp
    BY <1>2, <1>3
  <2>2. ~(0 > latest_timestamp)
    BY <1>2
  <2> HIDE DEF latest_timestamp
  <2> QED BY <1>2, <1>8, <2>1, <2>2 DEF KeyInv
<1>10. DutyInv
  <2>1. 0 .. (latest_timestamp - 1) = {}
    BY <1>2
  <2> QED BY <1>8, <2>1 DEF DutyInv, DutyOf
<1>11. SeekInv /\ UseInv /\ DyingInv /\ WriterInv
  BY <1>2, <1>3 DEF SeekInv, SeekOf, UseInv, UseOf, DyingInv, DyingOf, WriterInv,
                    Seeking, Using, Holding, Dropping, Dying, Acquiring
<1>12. TreeInv
  <2>1. Len(versions) = current_timestamp + (IF pc[writer] \in {"value", "publish"} THEN 1 ELSE 0)
    BY <1>1, <1>2, <1>3
  <2>2. \A v \in 0 .. (Len(versions) - 1) : versions[v + 1] \in {v, nullptr}
    BY <1>2
  <2>3. \A v \in 0 .. latest_timestamp : \E s \in Slot : table[s].key = v
    BY <1>2, <1>3
  <2> QED BY <1>3, <2>1, <2>2, <2>3 DEF TreeInv
<1> QED BY <1>4, <1>5, <1>7, <1>9, <1>10, <1>11, <1>12 DEF Inv

LEMMA AspenStep ==
  ASSUME Inv, ~RefillsOvertake, [Next]_vars
  PROVE  Inv'
<1>1. ASSUME NEW root \in {current_timestamp, nullptr}, Insert(root) PROVE Inv'
  BY <1>1, InsertTypes, InsertShared, InsertThreads DEF Inv
<1>2. CASE InsertValue
  BY <1>2, ValueTypes, ValueShared, ValueThreads DEF Inv
<1>3. CASE Publish
  BY <1>3, PublishTypes, PublishKeeps DEF Inv
<1>4. ASSUME NEW t \in Thread,
             \/ Acquire(t) \/ ReadLatest(t) \/ Find(t) \/ Look(t) \/ Load(t) \/ CasFails(t)
             \/ CheckStale(t) \/ Reread(t) \/ (Unref(t) /\ table[local[t].slot].word # local[t].seen)
      PROVE  Inv'
  BY <1>4, QuietTypes, QuietShared, QuietThreads DEF Inv
<1>5. ASSUME NEW t \in Thread, Acquired(t) PROVE Inv'
  BY <1>5, AcquiredTypes, AcquiredShared, AcquiredThreads DEF Inv
<1>6. ASSUME NEW t \in Thread, Release(t) PROVE Inv'
  BY <1>6, ReleaseTypes, ReleaseShared, ReleaseThreads DEF Inv
<1>7. ASSUME NEW t \in Thread, Unref(t), table[local[t].slot].word = local[t].seen PROVE Inv'
  BY <1>7, UnrefTypes, UnrefShared, UnrefThreads DEF Inv
<1>8. ASSUME NEW t \in Thread, Free(t) PROVE Inv'
  BY <1>8, FreeShared, FreeThreads DEF Inv
<1>9. ASSUME NEW t \in Thread, Clear(t) \/ Bury(t) PROVE Inv'
  BY <1>9, EmptyTypes, EmptyShared, EmptyThreads DEF Inv
<1>10. CASE UNCHANGED vars
  <2>1. \A s : Held(s)' = Held(s)
    BY <1>10 DEF vars, Held
  <2>2. CountInv'
    <3> HIDE DEF Held
    <3> QED BY <1>10, <2>1 DEF Inv, CountInv, CountOf, vars
  <2> QED BY <1>10, <2>2 DEF vars, Inv, TypeOK, LocalOK, KeyInv, DutyInv, DutyOf, SeekInv, SeekOf, UseInv, UseOf,
                             DyingInv, DyingOf, WriterInv, TreeInv, latest_timestamp
<1>11. CASE Next
  <2>1. CASE Write
    BY <1>1, <1>2, <1>3, <2>1 DEF Write
  <2>2. ASSUME NEW t \in Thread, Acquire(t) \/ Step(t) \/ Release(t) PROVE Inv'
    BY <1>4, <1>5, <1>6, <1>7, <1>8, <1>9, <2>2 DEF Step
  <2> QED BY <1>11, <2>1, <2>2 DEF Next
<1> QED BY <1>10, <1>11

\* Every entry with a count is a version with its tree, and the count is the table's reference and one for
\* each thread that has the version, however acquire_version, release_version and the writer's batches cross.
THEOREM Invariance ==
  ASSUME ~RefillsOvertake
  PROVE  Spec => []Inv
<1>1. Init => Inv
  BY AspenInit
<1>2. Inv /\ [Next]_vars => Inv'
  BY AspenStep
<1> QED BY <1>1, <1>2, PTL DEF Spec

\* The variables keep their types; no count of references falls below none.
THEOREM Typing ==
  ASSUME ~RefillsOvertake
  PROVE  Spec => []TypeOK
<1>1. Inv => TypeOK
  BY DEF Inv
<1> QED BY <1>1, Invariance, PTL

\* Until release_version nobody frees the tree that acquire_version handed out; no tree is freed twice.
THEOREM Alive ==
  ASSUME ~RefillsOvertake
  PROVE  Spec => []HeldAlive
<1>1. ASSUME Inv PROVE HeldAlive
  <2>1. \A v \in 0..MaxVersion : freed[v] <= 1
    BY <1>1 DEF Inv, TreeInv, Version
  <2>2. ASSUME NEW t \in Thread, pc[t] \in Holding
        PROVE  /\ local[t].timestamp + 1 \in DOMAIN versions
               /\ local[t].root = versions[local[t].timestamp + 1]
               /\ local[t].root # nullptr => freed[local[t].root] = 0
    <3>1. /\ local[t].timestamp \in Nat /\ latest_timestamp \in Nat /\ current_timestamp \in Nat
          /\ current_timestamp = latest_timestamp + 1 /\ local[t].slot \in Slot
      BY <1>1, Basics DEF Inv, latest_timestamp
    <3>2. /\ local[t].timestamp <= latest_timestamp /\ local[t].root = versions[local[t].timestamp + 1]
          /\ table[local[t].slot].key = local[t].timestamp /\ table[local[t].slot].word.ct > 0
      BY <1>1, <2>2 DEF Inv, UseInv, UseOf, Using
    <3>3. Len(versions) \in Nat /\ Len(versions) >= current_timestamp /\ DOMAIN versions = 1 .. Len(versions)
      <4>1. Len(versions) = current_timestamp + (IF pc[writer] \in {"value", "publish"} THEN 1 ELSE 0)
        BY <1>1 DEF Inv, TreeInv
      <4> QED BY <1>1, <3>1, <4>1 DEF Inv, TypeOK
    <3>4. local[t].timestamp \in 0 .. (Len(versions) - 1)
      <4> HIDE DEF latest_timestamp
      <4> QED BY <3>1, <3>2, <3>3
    <3>5. local[t].root \in {local[t].timestamp, nullptr}
      BY <1>1, <3>2, <3>4 DEF Inv, TreeInv
    <3>6. freed[local[t].timestamp] = 0
      BY <1>1, <3>1, <3>2 DEF Inv, CountInv, CountOf
    <3> QED BY <3>2, <3>3, <3>4, <3>5, <3>6
  <2> QED BY <2>1, <2>2 DEF HeldAlive
<1> QED BY <1>1, Invariance, PTL

\* An entry with a version and no count, or with only the table's for an old one, has a thread at it.
LEMMA OnDuty ==
  ASSUME Inv, NEW s \in Slot, table[s].key \in 0 .. latest_timestamp
  PROVE  /\ table[s].word.ct \in Nat /\ table[s].key \in Version
         /\ table[s].word.ct = 0 =>
              table[s].key < latest_timestamp /\ \E t \in Thread : pc[t] \in Dying /\ local[t].slot = s
<1>1. /\ table[s].word.ct \in Nat /\ latest_timestamp \in Nat /\ current_timestamp = latest_timestamp + 1
      /\ table[s].key \in Nat
  BY Basics DEF Inv, latest_timestamp
<1>2. table[s].key \in Version
  BY <1>1, Basics DEF Inv, max_key, tombstone
<1>3. ASSUME table[s].word.ct = 0
      PROVE  table[s].key < latest_timestamp /\ \E t \in Thread : pc[t] \in Dying /\ local[t].slot = s
  <2>1. ~(pc[writer] = "value" /\ local[writer].latest = s)
    <3>1. table[s].key # current_timestamp
      <4> HIDE DEF latest_timestamp
      <4> QED BY <1>1
    <3> QED BY <3>1 DEF Inv, WriterInv
  <2>2. PICK t \in Thread : pc[t] \in Dying /\ local[t].slot = s
    BY <1>2, <1>3, <2>1 DEF Inv, DutyInv, DutyOf
  <2>3. table[s].key < latest_timestamp
    BY <2>2 DEF Inv, DyingInv, DyingOf
  <2> QED BY <2>2, <2>3
<1> QED BY <1>1, <1>2, <1>3

\* The latest version is in the table, counted, with its tree alive, whatever readers release.
THEOREM Acquirable ==
  ASSUME ~RefillsOvertake
  PROVE  Spec => []LatestAcquirable
<1>1. ASSUME Inv PROVE LatestAcquirable
  <2>1. PICK s \in Slot : table[s].key = latest_timestamp
    BY <1>1 DEF Inv, KeyInv
  <2>2. latest_timestamp \in Nat /\ current_timestamp = latest_timestamp + 1 /\ current_timestamp \in Nat
    BY <1>1, Basics DEF Inv, latest_timestamp
  <2>3. table[s].key \in 0 .. latest_timestamp
    BY <2>1, <2>2
  <2>4. table[s].word.ct \in Nat /\ table[s].word.ct > 0
    <3>1. table[s].word.ct \in Nat
      BY <1>1, <2>3, OnDuty
    <3>2. table[s].word.ct # 0
      <4>1. ~(latest_timestamp < latest_timestamp)
        BY <2>2
      <4> HIDE DEF latest_timestamp
      <4> QED BY <1>1, <2>1, <2>3, <4>1, OnDuty
    <3> QED BY <3>1, <3>2
  <2>5. /\ table[s].word.ts = latest_timestamp /\ table[s].root = versions[latest_timestamp + 1]
        /\ freed[latest_timestamp] = 0
    BY <1>1, <2>1, <2>4 DEF Inv, CountInv, CountOf
  <2>6. table[s].root \in {latest_timestamp, nullptr}
    <3>1. Len(versions) = current_timestamp + (IF pc[writer] \in {"value", "publish"} THEN 1 ELSE 0)
      BY <1>1 DEF Inv, TreeInv
    <3>2. latest_timestamp \in 0 .. (Len(versions) - 1)
      BY <2>2, <3>1
    <3> QED BY <1>1, <2>5, <3>2 DEF Inv, TreeInv
  <2>7. table[s].word.ct >= 1
    BY <2>4
  <2> HIDE DEF latest_timestamp
  <2> QED BY <2>1, <2>5, <2>6, <2>7 DEF LatestAcquirable
<1> QED BY <1>1, Invariance, PTL

\* An old version stays in the table only while a thread has it or is giving it back, and leaves it freed.
THEOREM Gone ==
  ASSUME ~RefillsOvertake
  PROVE  Spec => []OldVersionsGoAway
<1>1. ASSUME Inv PROVE OldVersionsGoAway
  <2>1. latest_timestamp \in Nat
    BY <1>1, Basics DEF Inv
  <2>2. ASSUME NEW s \in Slot, table[s].key \in 0 .. (latest_timestamp - 1)
        PROVE  \E t \in Thread : pc[t] \in Holding \cup Releasing /\ local[t].slot = s
    <3>1. table[s].key \in 0 .. latest_timestamp
      BY <2>1, <2>2
    <3>2. table[s].word.ct \in Nat
      BY <1>1, <3>1, OnDuty
    <3>3. CASE table[s].word.ct = 0
      BY <1>1, <3>1, <3>3, OnDuty DEF Dying, Releasing
    <3>4. CASE table[s].word.ct = 1
      BY <1>1, <2>2, <3>4 DEF Inv, DutyInv, DutyOf, Dropping, Releasing
    <3>5. CASE table[s].word.ct > 1
      <4>1. Cardinality(Held(s)) # 0
        <5> HIDE DEF Held
        <5>1. CountOf(s) /\ table[s].word.ct > 0
          BY <1>1, <3>2, <3>5 DEF Inv, CountInv
        <5> QED BY <3>2, <3>5, <5>1, HeldFinite DEF CountOf
      <4>2. Held(s) # {}
        BY <4>1, FS_EmptySet
      <4> QED BY <4>2 DEF Held
    <3> QED BY <3>2, <3>3, <3>4, <3>5
  <2>3. ASSUME NEW v \in 0 .. (latest_timestamp - 1), \A s \in Slot : table[s].key # v
        PROVE  versions[v + 1] = nullptr \/ freed[v] = 1
    <3>1. v \in 0 .. latest_timestamp
      BY <2>1, <2>3
    <3> QED BY <1>1, <2>3, <3>1 DEF Inv, TreeInv
  <2> QED BY <2>2, <2>3 DEF OldVersionsGoAway
<1> QED BY <1>1, Invariance, PTL

=============================================================================
