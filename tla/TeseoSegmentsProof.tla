------------------------- MODULE TeseoSegmentsProof -------------------------
(***************************************************************************)
(* Sole access to the segments of TeseoSegments, for any number of threads *)
(* of each kind, any number of segments and any depth of nested scans.     *)
(***************************************************************************)
EXTENDS TeseoSegments, FiniteSetTheorems, SequenceTheorems, WellFoundedInduction, TLAPS

QueueEntry == [purpose : {"READ", "WRITE", "FREE", "REBAL"}, who : Thread \cup {Promise}]
SegmentWord == [writer : BOOLEAN, rebalancer : BOOLEAN, readers : Nat, version : Nat, invalid : BOOLEAN]
WindowType == [seg : Segment, lo : Nat, hi : Int, len : 1 .. NumSegments, can_continue : BOOLEAN,
               can_be_stopped : BOOLEAN, threads2wait : SUBSET Segment, removes : BOOLEAN]

Window(c) == crawler[c].lo .. crawler[c].hi

HasPromise(q) == \E i \in DOMAIN q : q[i].who = Promise

\* Where a crawler has to do with the leaf.
Crawling == {"leaf", "leafqueue", "behind", "crawl", "drain", "spread"}

\* The latches readers hold on segment s, each a reader and a place counted from its oldest latch.
Latches(s) ==
  {p \in Reader \X Nat : /\ p[2] \in 1 .. Len(holds[p[1]])
                         /\ holds[p[1]][Len(holds[p[1]]) + 1 - p[2]] = s}

\* The parts of the inductive invariant.
Types ==
  /\ latch \in [Segment -> SegmentWord]
  /\ queue \in [Segment -> Seq(QueueEntry)]
  /\ requested \subseteq Segment /\ scheduled \subseteq Segment
  /\ owner \in [Segment -> Crawler \cup {None}]
  /\ leaf \in [active : Crawler \cup {None}, queue : Seq(Crawler)]
  /\ crawler \in [Crawler -> WindowType]
  /\ pc \in [Thread -> {"idle", "asleep", "retry", "reading", "writing"} \cup Crawling]
  /\ at \in [Thread -> Segment] /\ holds \in [Reader -> Seq(Segment)]
  /\ version \in [Optimist -> Nat]
  /\ woken \subseteq Thread /\ torn \subseteq Optimist

\* The word says who is in the segment: one writer, or as many readers as hold the latch.
WordOf(s) ==
  /\ latch[s].writer <=> Writing(s) # {}
  /\ \A t, u \in Writing(s) : t = u
  /\ IsFiniteSet(Latches(s)) /\ Cardinality(Latches(s)) = latch[s].readers
  /\ latch[s].writer => latch[s].readers = 0
  /\ latch[s].invalid => ~latch[s].rebalancer

\* A segment with the rebalancer's bit is in the window of one crawler, which nobody has stopped; and
\* whoever was in the segment has a promise to keep, for which that crawler waits.
OwnerOf(s) ==
  /\ latch[s].rebalancer <=> owner[s] # None
  /\ \A c \in Crawler : owner[s] = c <=> crawler[c].can_continue /\ s \in Window(c)
  /\ owner[s] # None /\ ~(~latch[s].writer /\ latch[s].readers = 0) =>
       s \in crawler[owner[s]].threads2wait /\ HasPromise(queue[s])

\* A crawler's window, by where the crawler is.
CrawlerOf(c) ==
  /\ crawler[c].hi < NumSegments
  /\ crawler[c].lo <= crawler[c].hi \/ (crawler[c].lo = 0 /\ crawler[c].hi = -1)
  /\ pc[c] \notin Crawling => crawler[c] = NoWindow
  /\ pc[c] = "crawl" => leaf.active = c
  /\ pc[c] \in {"crawl", "drain", "spread"} => crawler[c].can_continue
  /\ pc[c] \in {"drain", "spread"} => ~crawler[c].can_be_stopped
  /\ pc[c] \in {"drain", "spread"} \/ (pc[c] \in Crawling /\ c \in Service) => crawler[c].lo <= crawler[c].hi
  /\ pc[c] = "spread" => \A s \in Window(c) : ~latch[s].writer /\ latch[s].readers = 0
  /\ pc[c] \in {"drain", "spread"} /\ crawler[c].removes =>
       crawler[c].hi = NumSegments - 1 /\ \A s \in 0 .. (crawler[c].lo - 1) : latch[s].invalid

\* A leaf is deleted as a whole, by one crawler.
DeletedInv ==
  (\E s \in Segment : latch[s].invalid) =>
    \A s \in Segment : \/ latch[s].invalid
                       \/ owner[s] # None /\ pc[owner[s]] = "spread" /\ crawler[owner[s]].removes

\* What an optimistic reader saw is at most as new as the segment; who saw it change will notice.
OptimistOf(t) ==
  /\ pc[t] = "reading" => version[t] <= latch[at[t]].version
  /\ t \in torn => /\ pc[t] = "reading"
                   /\ \/ version[t] < latch[at[t]].version
                      \/ latch[at[t]].writer \/ latch[at[t]].rebalancer

WordInv     == \A s \in Segment : WordOf(s)
OwnerInv    == \A s \in Segment : OwnerOf(s)
CrawlerInv  == \A c \in Crawler : CrawlerOf(c)
OptimistInv == \A t \in Optimist : OptimistOf(t)

Inv == Types /\ WordInv /\ OwnerInv /\ CrawlerInv /\ DeletedInv /\ OptimistInv

----------------------------------------------------------------------------
(* The queue of a latch. *)

LEMMA MinNat ==
  ASSUME NEW S \in SUBSET Nat, S # {}
  PROVE  Min(S) \in S /\ \A y \in S : Min(S) <= y
<1>1. \E x \in S : \A y \in S : <<y, x>> \notin OpToRel(<, Nat)
  BY NatLessThanWellFounded, WFMin, Zenon
<1>2. \E x \in S : \A y \in S : ~(y < x)
  BY <1>1 DEF OpToRel
<1>3. \E z \in S : \A y \in S : z <= y
  BY <1>2
<1> QED BY <1>3 DEF Min

LEMMA LeadBound ==
  ASSUME NEW E, NEW q \in Seq(E), NEW purposes
  PROVE  Lead(q, purposes) \in 0 .. Len(q)
<1> DEFINE others == {i \in DOMAIN q : q[i].purpose \notin purposes}
<1>1. CASE others = {}
  BY <1>1 DEF Lead
<1>2. CASE others # {}
  <2>1. others \in SUBSET Nat /\ others \subseteq 1 .. Len(q)
    OBVIOUS
  <2>2. Min(others) \in others
    BY <1>2, <2>1, MinNat
  <2>3. Min(others) - 1 \in 0 .. Len(q)
    BY <2>1, <2>2
  <2>4. Lead(q, purposes) = Min(others) - 1
    BY <1>2 DEF Lead
  <2> QED BY <2>3, <2>4
<1> QED BY <1>1, <1>2

LEMMA TakeType ==
  ASSUME NEW q \in Seq(QueueEntry), NEW n \in 0 .. Len(q)
  PROVE  /\ Take(q, n).left \in Seq(QueueEntry)
         /\ Take(q, n).woken \subseteq Thread \cup {Promise}
<1>1. SubSeq(q, n + 1, Len(q)) \in Seq(QueueEntry)
  BY SubSeqProperties
<1>2. \A i \in 1 .. n : q[i] \in QueueEntry
  OBVIOUS
<1> QED BY <1>1, <1>2 DEF Take, QueueEntry

\* Nobody leaves.
LEMMA TakeNone ==
  ASSUME NEW q \in Seq(QueueEntry)
  PROVE  Take(q, 0).left = q /\ Take(q, 0).woken = {}
<1>1. SubSeq(q, 1, Len(q)) = q
  BY SubSeqProperties
<1> QED BY <1>1 DEF Take

\* wake_list_next takes threads off the queue and turns what is left.
LEMMA WakeType ==
  ASSUME NEW q \in Seq(QueueEntry)
  PROVE  /\ WakeListNext(q).left \in Seq(QueueEntry)
         /\ WakeListNext(q).woken \subseteq Thread \cup {Promise}
<1> DEFINE n      == Lead(q, {"FREE", "READ"})
           isSafe == n = Len(q) \/ \E i \in 1 .. n : q[i].purpose = "READ"
           k      == Lead(q, {"FREE"})
           turned == SubSeq(q, k + 1, Len(q)) \o SubSeq(q, 1, k)
<1>1. n \in 0 .. Len(q) /\ k \in 0 .. Len(q)
  BY LeadBound
<1>2. /\ SubSeq(q, k + 1, Len(q)) \in Seq(QueueEntry) /\ SubSeq(q, 1, k) \in Seq(QueueEntry)
      /\ Len(SubSeq(q, k + 1, Len(q))) = Len(q) - k /\ Len(SubSeq(q, 1, k)) = k
  <2> HIDE DEF k
  <2> QED BY <1>1, SubSeqProperties
<1>3. turned \in Seq(QueueEntry) /\ Len(turned) = Len(q)
  <2>1. ASSUME NEW a \in Seq(QueueEntry), NEW b \in Seq(QueueEntry)
        PROVE  a \o b \in Seq(QueueEntry) /\ Len(a \o b) = Len(a) + Len(b)
    BY <2>1, ConcatProperties
  <2>2. Len(q) \in Nat /\ k \in Nat
    BY <1>1
  <2> HIDE DEF k
  <2>3. Len(q) - k + k = Len(q)
    BY <2>2
  <2> QED BY <1>2, <2>1, <2>3
<1>4. WakeListNext(q) \in {Take(q, 0), Take(q, n), Take(turned, Lead(turned, {"READ", "FREE"})),
                           Take(turned, 1), Take(turned, Lead(turned, {"REBAL"}))}
      /\ (WakeListNext(q) = Take(turned, 1) => q # <<>> \/ WakeListNext(q) = Take(q, 0))
  BY DEF WakeListNext
<1> HIDE DEF turned, n, k
<1>5. Lead(turned, {"READ", "FREE"}) \in 0 .. Len(turned) /\ Lead(turned, {"REBAL"}) \in 0 .. Len(turned)
  BY <1>3, LeadBound
<1>6. q # <<>> => 1 \in 0 .. Len(turned)
  BY <1>3
<1> QED BY <1>1, <1>3, <1>4, <1>5, <1>6, TakeType

\* A sleeper is added at the end or in front; promises stay.
LEMMA Longer ==
  ASSUME NEW q \in Seq(QueueEntry), NEW e \in QueueEntry
  PROVE  /\ Append(q, e) \in Seq(QueueEntry) /\ <<e>> \o q \in Seq(QueueEntry)
         /\ HasPromise(q) => HasPromise(Append(q, e)) /\ HasPromise(<<e>> \o q)
         /\ e.who = Promise => HasPromise(<<e>> \o q)
<1>1. /\ Append(q, e) \in Seq(QueueEntry) /\ DOMAIN Append(q, e) = 1 .. (Len(q) + 1)
      /\ \A i \in 1 .. Len(q) : Append(q, e)[i] = q[i]
  BY AppendProperties
<1>2. <<e>> \in Seq(QueueEntry) /\ Len(<<e>>) = 1 /\ <<e>>[1] = e
  OBVIOUS
<1>3. /\ <<e>> \o q \in Seq(QueueEntry) /\ Len(<<e>> \o q) = 1 + Len(q)
      /\ \A i \in 1 .. (1 + Len(q)) : (<<e>> \o q)[i] = IF i <= 1 THEN <<e>>[i] ELSE q[i - 1]
  BY <1>2, ConcatProperties
<1>4. DOMAIN q = 1 .. Len(q) /\ Len(q) \in Nat /\ DOMAIN (<<e>> \o q) = 1 .. (1 + Len(q))
  BY <1>3
<1>5. ASSUME HasPromise(q) PROVE HasPromise(Append(q, e)) /\ HasPromise(<<e>> \o q)
  <2>1. PICK i \in 1 .. Len(q) : q[i].who = Promise
    BY <1>4, <1>5 DEF HasPromise
  <2>2. i \in 1 .. (Len(q) + 1) /\ Append(q, e)[i].who = Promise
    BY <1>1, <1>4, <2>1
  <2>3. i + 1 \in 1 .. (1 + Len(q)) /\ (<<e>> \o q)[i + 1].who = Promise
    <3>1. i \in Nat /\ i >= 1 /\ i <= Len(q) /\ i + 1 - 1 = i /\ ~(i + 1 <= 1)
      BY <1>4, <2>1
    <3>2. i + 1 \in 1 .. (1 + Len(q))
      BY <1>4, <3>1
    <3>3. (<<e>> \o q)[i + 1] = q[i]
      BY <1>3, <3>1, <3>2
    <3> QED BY <2>1, <3>2, <3>3
  <2> QED BY <1>1, <1>4, <2>2, <2>3 DEF HasPromise
<1>6. ASSUME e.who = Promise PROVE HasPromise(<<e>> \o q)
  <2>1. 1 \in 1 .. (1 + Len(q)) /\ (<<e>> \o q)[1] = e
    BY <1>2, <1>3, <1>4
  <2> QED BY <1>4, <1>6, <2>1 DEF HasPromise
<1> QED BY <1>1, <1>3, <1>5, <1>6

----------------------------------------------------------------------------
(* What steps have in common. *)

LEMMA Roles ==
  /\ Reader \subseteq Thread /\ Writer \subseteq Thread /\ Optimist \subseteq Thread /\ Crawler \subseteq Thread
  /\ Service \subseteq Crawler /\ Merger \subseteq Crawler
  /\ \A t \in Reader : t \notin Writer \cup Optimist \cup Crawler
  /\ \A t \in Writer : t \notin Reader \cup Optimist \cup Crawler
  /\ \A t \in Optimist : t \notin Reader \cup Writer \cup Crawler
  /\ \A t \in Crawler : t \notin Reader \cup Writer \cup Optimist
  /\ \A t \in Service : t \notin Merger
  /\ None \notin Crawler /\ Promise \notin Thread
BY RolesAssumption DEF Thread, Crawler

\* Only thread t moves.
Alone(t) == \A u \in Thread \ {t} : pc'[u] = pc[u] /\ at'[u] = at[u]

\* A promise stays in the queue of a segment that a crawler has.
KeepsPromises ==
  \A s \in Segment : latch[s].rebalancer /\ HasPromise(queue[s]) => HasPromise(queue'[s])

\* A thread that is in no segment, and does not crawl, goes on to where neither is the case.
LEMMA Quiet ==
  ASSUME Inv, NEW t \in Thread, Alone(t), KeepsPromises,
         UNCHANGED <<latch, owner, leaf, crawler, holds>>,
         pc[t] \notin {"writing"} \cup Crawling, pc'[t] \notin {"writing"} \cup Crawling
  PROVE  WordInv' /\ OwnerInv' /\ CrawlerInv' /\ DeletedInv'
<1>1. \A s : Writing(s)' = Writing(s) /\ Latches(s)' = Latches(s)
  BY DEF Alone, Writing, Latches
<1>2. \A u \in Crawler : pc'[u] \in Crawling => pc'[u] = pc[u]
  BY Roles DEF Alone
<1>3. \A u \in Crawler : pc[u] \in Crawling => pc'[u] = pc[u]
  BY Roles DEF Alone
<1>4. WordInv'
  <2>1. ASSUME NEW s \in Segment PROVE WordOf(s)'
    <3>1. WordOf(s)
      BY DEF Inv, WordInv
    <3> HIDE DEF Writing, Latches
    <3> QED BY <1>1, <3>1 DEF WordOf
  <2> QED BY <2>1 DEF WordInv
<1>5. OwnerInv'
  BY DEF Inv, OwnerInv, OwnerOf, KeepsPromises, Window
<1>6. CrawlerInv'
  <2>1. ASSUME NEW c \in Crawler PROVE CrawlerOf(c)'
    <3>1. CrawlerOf(c)
      BY DEF Inv, CrawlerInv
    <3>2. CASE pc'[c] = pc[c]
      BY <3>1, <3>2 DEF CrawlerOf, Window
    <3>3. CASE pc'[c] # pc[c]
      BY <1>2, <1>3, <3>1, <3>3 DEF CrawlerOf, Window, Crawling
    <3> QED BY <3>2, <3>3
  <2> QED BY <2>1 DEF CrawlerInv
<1>7. DeletedInv'
  <2>1. \A s \in Segment : owner[s] # None => owner[s] \in Crawler
    BY DEF Inv, Types
  <2>2. \A c \in Crawler : pc[c] = "spread" => pc'[c] = "spread"
    BY <1>3 DEF Crawling
  <2> QED BY <2>1, <2>2 DEF Inv, DeletedInv
<1> QED BY <1>4, <1>5, <1>6, <1>7

\* A segment that nobody may read optimistically stays so, or its version grows.
VersionsGrow ==
  \A s \in Segment :
    /\ latch'[s].version >= latch[s].version
    /\ latch[s].writer \/ latch[s].rebalancer =>
         latch'[s].writer \/ latch'[s].rebalancer \/ latch'[s].version > latch[s].version

\* Steps by others than the optimistic readers; what changes under them is in the hands of someone.
LEMMA Watched ==
  ASSUME Inv, Types', VersionsGrow, NEW t \in Thread \ Optimist, Alone(t), version' = version,
         \A u \in torn' \ torn : pc[u] = "reading" /\ (latch'[at[u]].writer \/ latch'[at[u]].rebalancer)
  PROVE  OptimistInv'
<1>1. ASSUME NEW u \in Optimist PROVE OptimistOf(u)'
  <2>1. OptimistOf(u) /\ pc'[u] = pc[u] /\ at'[u] = at[u]
    BY <1>1, Roles DEF Inv, OptimistInv, Alone
  <2>2. PICK s \in Segment : s = at[u]
    BY <1>1, Roles DEF Inv, Types
  <2>3. version[u] \in Nat /\ latch[s].version \in Nat /\ latch'[s].version \in Nat
    BY <1>1, <2>2 DEF Inv, Types, SegmentWord
  <2>4. pc[u] = "reading" => version[u] <= latch'[s].version
    BY <2>1, <2>2, <2>3 DEF OptimistOf, VersionsGrow
  <2>5. ASSUME u \in torn'
        PROVE  /\ pc[u] = "reading"
               /\ version[u] < latch'[s].version \/ latch'[s].writer \/ latch'[s].rebalancer
    <3>1. CASE u \in torn
      <4>1. pc[u] = "reading" /\ (version[u] < latch[s].version \/ latch[s].writer \/ latch[s].rebalancer)
        BY <2>1, <2>2, <3>1 DEF OptimistOf
      <4>2. version[u] <= latch[s].version
        BY <2>1, <2>2, <4>1 DEF OptimistOf
      <4> QED BY <2>3, <4>1, <4>2 DEF VersionsGrow
    <3>2. CASE u \notin torn
      BY <2>2, <2>5, <3>2
    <3> QED BY <3>1, <3>2
  <2> QED BY <2>1, <2>2, <2>4, <2>5 DEF OptimistOf
<1> QED BY <1>1 DEF OptimistInv

\* Those in a segment, or with a latch on it, and the promises they owe: in a segment that a crawler has
\* nobody comes in, and who stays still finds the promise in the queue.
Occupied(s) == latch[s].writer \/ latch[s].readers # 0

OccupantsLeave ==
  \A s \in Segment :
    /\ latch'[s].rebalancer = latch[s].rebalancer /\ latch'[s].invalid = latch[s].invalid
    /\ latch[s].rebalancer /\ Occupied(s)' =>
         Occupied(s) /\ (HasPromise(queue[s]) => HasPromise(queue'[s]))

\* What a crawler has in its window.
LEMMA InWindow ==
  ASSUME Inv, NEW c \in Crawler, NEW s \in Window(c)
  PROVE  /\ s \in Segment /\ s >= crawler[c].lo /\ s <= crawler[c].hi /\ s \in Int
         /\ crawler[c].can_continue => owner[s] = c /\ latch[s].rebalancer /\ ~latch[s].invalid
<1>1. crawler[c].lo \in Nat /\ crawler[c].hi \in Int /\ crawler[c].hi < NumSegments
  BY DEF Inv, Types, WindowType, CrawlerInv, CrawlerOf
<1>2. s \in Segment /\ s >= crawler[c].lo /\ s <= crawler[c].hi /\ s \in Int
  BY <1>1, LeafAssumption DEF Window, Segment
<1>3. OwnerOf(s) /\ WordOf(s)
  BY <1>2 DEF Inv, OwnerInv, WordInv
<1> QED BY <1>2, <1>3, Roles DEF OwnerOf, WordOf

\* A thread enters or leaves a segment, which concerns no crawler's window.
LEMMA Visit ==
  ASSUME Inv, NEW t \in Thread, Alone(t), OccupantsLeave,
         UNCHANGED <<owner, leaf, crawler>>,
         pc[t] \notin Crawling, pc'[t] \notin Crawling
  PROVE  OwnerInv' /\ CrawlerInv' /\ DeletedInv'
<1>1. \A u \in Crawler : pc'[u] # pc[u] => pc[u] \notin Crawling /\ pc'[u] \notin Crawling
  BY Roles DEF Alone
<1>2. OwnerInv'
  <2>1. ASSUME NEW s \in Segment PROVE OwnerOf(s)'
    <3>1. OwnerOf(s) /\ (latch'[s].rebalancer = latch[s].rebalancer)
      BY DEF Inv, OwnerInv, OccupantsLeave
    <3>2. owner[s] # None /\ Occupied(s)' =>
            s \in crawler[owner[s]].threads2wait /\ HasPromise(queue'[s])
      BY <3>1 DEF OccupantsLeave, OwnerOf, Occupied
    <3> QED BY <3>1, <3>2 DEF OwnerOf, Occupied, Window
  <2> QED BY <2>1 DEF OwnerInv
<1>3. CrawlerInv'
  <2>1. ASSUME NEW c \in Crawler PROVE CrawlerOf(c)'
    <3>1. CrawlerOf(c)
      BY DEF Inv, CrawlerInv
    <3>2. ASSUME pc[c] = "spread", NEW s \in Window(c) PROVE ~latch'[s].writer /\ latch'[s].readers = 0
      <4>1. s \in Segment
        BY InWindow
      <4>2. latch[s].rebalancer
        BY <3>1, <3>2, InWindow DEF CrawlerOf
      <4>3. ~Occupied(s)
        BY <3>1, <3>2 DEF CrawlerOf, Occupied
      <4> QED BY <4>1, <4>2, <4>3 DEF OccupantsLeave, Occupied
    <3>3. \A s \in 0 .. (crawler[c].lo - 1) : latch[s].invalid /\ crawler[c].hi = NumSegments - 1
                                              /\ crawler[c].lo <= crawler[c].hi => latch'[s].invalid
      <4>1. crawler[c].lo \in Nat
        BY DEF Inv, Types, WindowType
      <4>2. NumSegments \in Nat
        BY LeafAssumption
      <4> QED BY <4>1, <4>2 DEF OccupantsLeave, Segment
    <3>4. CASE pc'[c] = pc[c]
      BY <3>1, <3>2, <3>3, <3>4 DEF CrawlerOf, Window
    <3>5. CASE pc'[c] # pc[c]
      BY <1>1, <3>1, <3>5 DEF CrawlerOf, Window, Crawling
    <3> QED BY <3>4, <3>5
  <2> QED BY <2>1 DEF CrawlerInv
<1>4. DeletedInv'
  <2>1. \A s \in Segment : owner[s] # None => owner[s] \in Crawler
    BY DEF Inv, Types
  <2>2. \A c \in Crawler : pc[c] = "spread" => pc'[c] = "spread"
    BY <1>1 DEF Crawling
  <2> QED BY <2>1, <2>2 DEF Inv, DeletedInv, OccupantsLeave
<1> QED BY <1>2, <1>3, <1>4

----------------------------------------------------------------------------
(* The latches of readers. *)

LEMMA LatchAdded ==
  ASSUME Types, NEW t \in Reader, NEW s \in Segment, holds' = [holds EXCEPT ![t] = <<s>> \o @]
  PROVE  /\ holds' \in [Reader -> Seq(Segment)]
         /\ Latches(s)' = Latches(s) \cup {<<t, Len(holds[t]) + 1>>}
         /\ <<t, Len(holds[t]) + 1>> \notin Latches(s)
         /\ \A r : r # s => Latches(r)' = Latches(r)
<1> DEFINE h == holds[t]
           n == Len(holds[t])
<1>1. h \in Seq(Segment) /\ n \in Nat
  BY DEF Types
<1>2. <<s>> \in Seq(Segment) /\ Len(<<s>>) = 1 /\ <<s>>[1] = s
  OBVIOUS
<1>3. /\ <<s>> \o h \in Seq(Segment) /\ Len(<<s>> \o h) = 1 + n
      /\ \A i \in 1 .. (1 + n) : (<<s>> \o h)[i] = IF i <= 1 THEN s ELSE h[i - 1]
  <2> HIDE DEF h
  <2>1. h \in Seq(Segment) /\ n = Len(h)
    BY <1>1 DEF h
  <2> QED BY <1>2, <2>1, ConcatProperties
<1>4. holds'[t] = <<s>> \o h /\ \A u \in Reader : u # t => holds'[u] = holds[u]
  BY DEF Types
<1>5. holds' \in [Reader -> Seq(Segment)]
  BY <1>3 DEF Types
<1>6. Len(holds'[t]) = n + 1 /\ holds'[t][1] = s /\ \A i \in 1 .. n : holds'[t][n + 2 - i] = h[n + 1 - i]
  <2>1. 1 \in 1 .. (1 + n)
    BY <1>1
  <2>2. ASSUME NEW i \in 1 .. n PROVE (<<s>> \o h)[n + 2 - i] = h[n + 1 - i]
    <3> DEFINE j == n + 2 - i
    <3>1. j \in 1 .. (1 + n) /\ ~(j <= 1) /\ j - 1 = n + 1 - i
      <4>1. n \in Nat
        BY <1>1
      <4> HIDE DEF n
      <4> QED BY <4>1
    <3>2. (<<s>> \o h)[j] = h[j - 1]
      <4> HIDE DEF n, h, j
      <4> QED BY <1>3, <3>1
    <3>3. h[j - 1] = h[n + 1 - i]
      <4> HIDE DEF n, h, j
      <4> QED BY <3>1
    <3> QED BY <3>2, <3>3
  <2>3. (<<s>> \o h)[1] = s /\ Len(<<s>> \o h) = n + 1
    <3> HIDE DEF n, h
    <3> QED BY <1>1, <1>3, <2>1
  <2> HIDE DEF n, h
  <2> QED BY <1>4, <2>2, <2>3
<1>7. ASSUME NEW r, NEW i \in Nat
      PROVE  <<t, i>> \in Latches(r)' <=> (<<t, i>> \in Latches(r) \/ (r = s /\ i = n + 1))
  <2>1. CASE i \in 1 .. n
    <3>1. n + 1 + 1 - i = n + 2 - i /\ i \in 1 .. (n + 1) /\ i # n + 1
      BY <1>1, <2>1
    <3> HIDE DEF n
    <3>2. holds'[t][Len(holds'[t]) + 1 - i] = h[n + 1 - i]
      BY <1>6, <2>1, <3>1
    <3> QED BY <1>6, <2>1, <3>1, <3>2 DEF Latches, n, h
  <2>2. CASE i = n + 1
    <3>1. n + 1 + 1 - i = 1 /\ i \in 1 .. (n + 1) /\ i \notin 1 .. n
      BY <1>1, <2>2
    <3> HIDE DEF n
    <3>2. holds'[t][Len(holds'[t]) + 1 - i] = s
      BY <1>6, <3>1
    <3> QED BY <1>6, <2>2, <3>1, <3>2 DEF Latches, n, h
  <2>3. CASE i \notin 1 .. n /\ i # n + 1
    <3>1. i \notin 1 .. (n + 1)
      BY <1>1, <2>3
    <3> HIDE DEF n
    <3> QED BY <1>6, <2>3, <3>1 DEF Latches, n
  <2> QED BY <2>1, <2>2, <2>3
<1>8. ASSUME NEW r, NEW u \in Reader, u # t, NEW i \in Nat
      PROVE  <<u, i>> \in Latches(r)' <=> <<u, i>> \in Latches(r)
  BY <1>4, <1>8 DEF Latches
<1>9. \A r : Latches(r) \subseteq Reader \X Nat /\ Latches(r)' \subseteq Reader \X Nat
  BY DEF Latches
<1>10. <<t, n + 1>> \notin Latches(s)
  <2>1. n + 1 \notin 1 .. n
    BY <1>1
  <2> HIDE DEF n
  <2> QED BY <2>1 DEF Latches, n
<1>11. n + 1 \in Nat
  BY <1>1
<1>12. ASSUME NEW r PROVE Latches(r)' = Latches(r) \cup (IF r = s THEN {<<t, n + 1>>} ELSE {})
  <2>1. \A u \in Reader, i \in Nat :
          <<u, i>> \in Latches(r)' <=> (<<u, i>> \in Latches(r) \/ (r = s /\ u = t /\ i = n + 1))
    BY <1>7, <1>8
  <2> HIDE DEF n, Latches
  <2> QED BY <1>9, <1>11, <2>1
<1> QED BY <1>5, <1>10, <1>12

LEMMA LatchRemoved ==
  ASSUME Types, NEW t \in Reader, holds[t] # <<>>, holds' = [holds EXCEPT ![t] = Tail(@)],
         NEW s, s = Head(holds[t])
  PROVE  /\ holds' \in [Reader -> Seq(Segment)] /\ s \in Segment
         /\ Latches(s)' = Latches(s) \ {<<t, Len(holds[t])>>}
         /\ <<t, Len(holds[t])>> \in Latches(s)
         /\ \A r : r # s => Latches(r)' = Latches(r)
<1> DEFINE h == holds[t]
           n == Len(holds[t])
<1>1. h \in Seq(Segment) /\ n \in Nat /\ n >= 1 /\ s = h[1] /\ s \in Segment
  BY DEF Types
<1>2. /\ Tail(h) \in Seq(Segment) /\ Len(Tail(h)) = n - 1
      /\ \A i \in 1 .. (n - 1) : Tail(h)[i] = h[i + 1]
  <2> HIDE DEF h
  <2>1. h \in Seq(Segment) /\ n = Len(h) /\ h # <<>>
    BY <1>1 DEF h
  <2> QED BY <2>1, HeadTailProperties
<1>3. holds'[t] = Tail(h) /\ \A u \in Reader : u # t => holds'[u] = holds[u]
  BY DEF Types
<1>4. holds' \in [Reader -> Seq(Segment)]
  BY <1>2 DEF Types
<1>5. Len(holds'[t]) = n - 1 /\ \A i \in 1 .. (n - 1) : holds'[t][n - i] = h[n + 1 - i]
  <2>1. ASSUME NEW i \in 1 .. (n - 1) PROVE n - i \in 1 .. (n - 1) /\ n - i + 1 = n + 1 - i
    BY <1>1
  <2> HIDE DEF n, h
  <2> QED BY <1>2, <1>3, <2>1
<1>6. ASSUME NEW r, NEW i \in Nat
      PROVE  <<t, i>> \in Latches(r)' <=> (<<t, i>> \in Latches(r) /\ i # n)
  <2>1. CASE i \in 1 .. (n - 1)
    <3>1. n - 1 + 1 - i = n - i /\ i \in 1 .. n /\ i # n
      BY <1>1, <2>1
    <3> HIDE DEF n
    <3>2. holds'[t][Len(holds'[t]) + 1 - i] = h[n + 1 - i]
      BY <1>5, <2>1, <3>1
    <3> QED BY <1>5, <2>1, <3>1, <3>2 DEF Latches, n, h
  <2>2. CASE i \notin 1 .. (n - 1)
    <3>1. i \in 1 .. n => i = n
      BY <1>1, <2>2
    <3> HIDE DEF n
    <3> QED BY <1>5, <2>2, <3>1 DEF Latches, n
  <2> QED BY <2>1, <2>2
<1>7. ASSUME NEW r, NEW u \in Reader, u # t, NEW i \in Nat
      PROVE  <<u, i>> \in Latches(r)' <=> <<u, i>> \in Latches(r)
  BY <1>3, <1>7 DEF Latches
<1>8. \A r : Latches(r) \subseteq Reader \X Nat /\ Latches(r)' \subseteq Reader \X Nat
  BY DEF Latches
<1>9. <<t, n>> \in Latches(s) /\ \A r : <<t, n>> \in Latches(r) => r = s
  <2>1. n \in 1 .. n /\ n + 1 - n = 1
    BY <1>1
  <2> HIDE DEF n
  <2> QED BY <1>1, <2>1 DEF Latches, n
<1>10. ASSUME NEW r PROVE Latches(r)' = Latches(r) \ {<<t, n>>}
  <2>1. \A u \in Reader, i \in Nat :
          <<u, i>> \in Latches(r)' <=> (<<u, i>> \in Latches(r) /\ ~(u = t /\ i = n))
    BY <1>6, <1>7
  <2> HIDE DEF n, Latches
  <2>2. n \in Nat
    BY <1>1
  <2>3. ASSUME NEW p \in Reader \X Nat
        PROVE  p \in Latches(r)' <=> (p \in Latches(r) /\ p # <<t, n>>)
    BY <2>1
  <2> QED BY <1>8, <2>3
<1>11. \A r : r # s => <<t, n>> \notin Latches(r)
  BY <1>9
<1>12. \A r : r # s => Latches(r)' = Latches(r)
  <2> HIDE DEF n, Latches
  <2> QED BY <1>10, <1>11
<1>13. Latches(s)' = Latches(s) \ {<<t, n>>}
  BY <1>10
<1> QED BY <1>1, <1>4, <1>9, <1>12, <1>13

----------------------------------------------------------------------------
(* Readers. *)

Places == {"idle", "asleep", "retry", "reading", "writing"} \cup Crawling

LEMMA MoveType ==
  ASSUME Types, NEW t \in Thread, NEW p \in Places, NEW s,
         \/ Goto(t, p, s) /\ s \in Segment
         \/ Return(t) /\ s = 0 /\ p = "idle"
         \/ pc' = [pc EXCEPT ![t] = p] /\ UNCHANGED at /\ s = at[t]
         \/ UNCHANGED <<pc, at>> /\ s = at[t] /\ p = pc[t]
  PROVE  /\ pc' \in [Thread -> Places] /\ at' \in [Thread -> Segment]
         /\ Alone(t) /\ pc'[t] = p /\ at'[t] = s
<1>1. 0 \in Segment
  BY LeafAssumption DEF Segment
<1>2. pc \in [Thread -> Places] /\ at \in [Thread -> Segment]
  BY DEF Types, Places
<1> HIDE DEF Places, Segment, Types
<1> QED BY <1>1, <1>2 DEF Goto, Return, Alone

LEMMA SameVersions ==
  ASSUME Types, \A s \in Segment : /\ latch'[s].version = latch[s].version
                                   /\ latch[s].writer => latch'[s].writer
                                   /\ latch[s].rebalancer => latch'[s].rebalancer
  PROVE  VersionsGrow
<1>1. \A s \in Segment : latch[s].version \in Nat
  BY DEF Types, SegmentWord
<1> HIDE DEF Types
<1> QED BY <1>1 DEF VersionsGrow

\* The version of a segment is a number.
LEMMA WordType ==
  ASSUME Types, NEW s \in Segment
  PROVE  /\ latch[s] \in SegmentWord /\ latch[s].version \in Nat /\ latch[s].readers \in Nat
         /\ queue[s] \in Seq(QueueEntry)
BY DEF Types, SegmentWord

\* A step of an optimistic reader, which is not reading then, or has seen the version there is.
LEMMA OptimistMoves ==
  ASSUME Inv, Types', NEW t \in Optimist, Alone(t), UNCHANGED latch,
         \A u \in Optimist \ {t} : version'[u] = version[u],
         torn' \subseteq torn, t \notin torn',
         pc'[t] = "reading" => version'[t] = latch[at'[t]].version
  PROVE  OptimistInv'
<1>1. ASSUME NEW u \in Optimist \ {t} PROVE OptimistOf(u)'
  <2>1. pc'[u] = pc[u] /\ at'[u] = at[u]
    BY Roles DEF Alone
  <2> QED BY <2>1 DEF Inv, OptimistInv, OptimistOf
<1>2. OptimistOf(t)'
  <2>1. at'[t] \in Segment
    BY Roles DEF Types
  <2>2. latch'[at'[t]].version \in Nat
    BY <2>1 DEF Types, SegmentWord
  <2> QED BY <2>2 DEF OptimistOf
<1> QED BY <1>1, <1>2 DEF OptimistInv

\* A thread that sleeps or gives up: the queues of segments grow, and nothing else changes but the thread.
LEMMA TurnedAway ==
  ASSUME Inv, NEW t \in Thread, NEW s \in Segment, pc[t] \notin {"reading", "writing"} \cup Crawling,
         (Abort(t, s) /\ UNCHANGED holds) \/
           (/\ \/ \E p \in {"READ", "WRITE", "FREE"} : Sleep(t, s, Append(queue[s], Entry(p, t)), "asleep")
               \/ Sleep(t, s, <<Entry("REBAL", t)>> \o queue[s], "asleep")
            /\ UNCHANGED <<holds, torn>>),
         UNCHANGED <<requested, owner, leaf, crawler, version>>, scheduled' \subseteq Segment
  PROVE  Inv'
<1>1. Alone(t) /\ UNCHANGED <<latch, holds, torn>> /\ pc'[t] \notin {"writing"} \cup Crawling
  BY DEF Inv, Types, Abort, Sleep, Return, Alone, Crawling
<1>2. \A r \in Segment : queue[r] \in Seq(QueueEntry)
  BY DEF Inv, Types
<1>3. \A p \in {"READ", "WRITE", "FREE", "REBAL"} : Entry(p, t) \in QueueEntry
  BY DEF Entry, QueueEntry
<1>4. queue' \in [Segment -> Seq(QueueEntry)] /\ KeepsPromises
  <2>1. CASE UNCHANGED queue
    BY <2>1 DEF Inv, Types, KeepsPromises
  <2>2. CASE \E q : /\ queue' = [queue EXCEPT ![s] = q]
                    /\ \E p \in {"READ", "WRITE", "FREE", "REBAL"} :
                         q \in {Append(queue[s], Entry(p, t)), <<Entry(p, t)>> \o queue[s]}
    <3>1. PICK q : /\ queue' = [queue EXCEPT ![s] = q]
                   /\ \E p \in {"READ", "WRITE", "FREE", "REBAL"} :
                        q \in {Append(queue[s], Entry(p, t)), <<Entry(p, t)>> \o queue[s]}
      BY <2>2
    <3>2. q \in Seq(QueueEntry) /\ (HasPromise(queue[s]) => HasPromise(q))
      BY <1>2, <1>3, <3>1, Longer
    <3>3. queue \in [Segment -> Seq(QueueEntry)]
      BY DEF Inv, Types
    <3> QED BY <3>1, <3>2, <3>3 DEF KeepsPromises
  <2> QED BY <2>1, <2>2 DEF Abort, Sleep
<1>5. Types'
  <2>1. pc' \in [Thread -> Places] /\ at' \in [Thread -> Segment]
    <3>1. Return(t) \/ Goto(t, "asleep", s)
      BY DEF Abort, Sleep, Goto
    <3> QED BY <3>1, MoveType DEF Inv, Places
  <2>2. woken' \subseteq Thread
    BY DEF Abort, Sleep, Inv, Types
  <2> QED BY <1>1, <1>4, <2>1, <2>2 DEF Inv, Types, Places
<1>6. WordInv' /\ OwnerInv' /\ CrawlerInv' /\ DeletedInv'
  BY <1>1, <1>4, Quiet
<1>7. OptimistInv'
  <2>1. CASE t \notin Optimist
    <3>1. VersionsGrow
      BY <1>1, SameVersions DEF Inv
    <3> QED BY <1>1, <1>5, <2>1, <3>1, Watched
  <2>2. CASE t \in Optimist
    <3>1. OptimistOf(t) /\ pc[t] # "reading"
      BY <2>2 DEF Inv, OptimistInv
    <3>2. t \notin torn' /\ pc'[t] # "reading"
      <4>1. pc'[t] \in {"idle", "asleep"}
        BY DEF Abort, Sleep, Return, Inv, Types
      <4> QED BY <1>1, <3>1, <4>1 DEF OptimistOf
    <3> QED BY <1>1, <1>5, <2>2, <3>2, OptimistMoves
  <2> QED BY <2>1, <2>2
<1> QED BY <1>5, <1>6, <1>7 DEF Inv

LEMMA ReaderEnterKeeps ==
  ASSUME Inv, NEW t \in Reader, NEW s \in Segment, ReaderEnter(t, s)
  PROVE  Inv'
<1>1. /\ t \in Thread \ Optimist /\ pc[t] \notin {"reading", "writing"} \cup Crawling
      /\ UNCHANGED <<requested, owner, scheduled, leaf, crawler, version>>
  BY Roles DEF ReaderEnter, Turn, Starts, Resumes, Crawling, crawlVars
<1>2. CASE Abort(t, s)
  <2>1. UNCHANGED <<holds, torn>>
    BY <1>2 DEF Abort
  <2> QED BY <1>1, <1>2, <2>1, TurnedAway DEF Inv, Types
<1>3. CASE /\ Sleep(t, s, Append(queue[s], Entry("READ", t)), "asleep")
           /\ UNCHANGED holds
  <2>1. UNCHANGED torn
    BY DEF ReaderEnter
  <2> QED BY <1>1, <1>3, <2>1, TurnedAway DEF Inv, Types
<1>4. CASE /\ ~latch[s].invalid /\ ~ReaderBlocked(t, s)
           /\ Enters(t, s)
           /\ holds' = [holds EXCEPT ![t] = <<s>> \o @]
           /\ Return(t)
  <2>1. Alone(t) /\ UNCHANGED <<queue, torn>> /\ pc'[t] = "idle"
    BY <1>1, <1>4 DEF Inv, Types, Enters, Return, Alone, ReaderEnter
  <2>2. /\ holds' \in [Reader -> Seq(Segment)]
        /\ Latches(s)' = Latches(s) \cup {<<t, Len(holds[t]) + 1>>}
        /\ <<t, Len(holds[t]) + 1>> \notin Latches(s)
        /\ \A r : r # s => Latches(r)' = Latches(r)
    BY <1>4, LatchAdded DEF Inv
  <2>3. /\ ~latch[s].writer /\ ~latch[s].rebalancer
        /\ latch'[s] = [latch[s] EXCEPT !.readers = @ + 1]
        /\ \A r \in Segment : r # s => latch'[r] = latch[r]
    <3>1. latch \in [Segment -> SegmentWord] /\ t \in Reader
      BY DEF Inv, Types
    <3>2. latch' = [latch EXCEPT ![s].readers = @ + 1]
      BY <1>4 DEF Enters
    <3>3. ~latch[s].writer /\ ~latch[s].rebalancer
      BY <1>4 DEF ReaderBlocked
    <3> HIDE DEF Segment, SegmentWord
    <3> QED BY <3>1, <3>2, <3>3, Zenon
  <2>4. latch[s] \in SegmentWord /\ latch'[s] \in SegmentWord /\ latch'[s].writer = latch[s].writer
        /\ latch'[s].readers = latch[s].readers + 1 /\ latch'[s].rebalancer = latch[s].rebalancer
        /\ latch'[s].invalid = latch[s].invalid /\ latch'[s].version = latch[s].version
    <3>1. latch[s] \in SegmentWord
      BY WordType DEF Inv
    <3> QED BY <2>3, <3>1 DEF SegmentWord
  <2>5. latch' \in [Segment -> SegmentWord]
    BY <1>4, <2>4 DEF Enters, Inv, Types
  <2>6. Types'
    <3>1. pc' \in [Thread -> Places] /\ at' \in [Thread -> Segment]
      BY <1>1, <1>4, MoveType DEF Inv, Places
    <3>2. woken' \subseteq Thread
      BY <1>4 DEF Enters, Inv, Types
    <3> QED BY <1>1, <2>1, <2>2, <2>5, <3>1, <3>2 DEF Inv, Types, Places
  <2>7. \A r \in Segment : Writing(r)' = Writing(r)
    BY <1>1, <2>1 DEF Writing, Alone
  <2>8. WordInv'
    <3>1. ASSUME NEW r \in Segment PROVE WordOf(r)'
      <4>1. WordOf(r)
        BY DEF Inv, WordInv
      <4> HIDE DEF Latches, Writing
      <4>2. CASE r # s
        BY <2>2, <2>3, <2>7, <4>1, <4>2 DEF WordOf
      <4>3. CASE r = s
        <5>1. /\ IsFiniteSet(Latches(s) \cup {<<t, Len(holds[t]) + 1>>})
              /\ Cardinality(Latches(s) \cup {<<t, Len(holds[t]) + 1>>}) = Cardinality(Latches(s)) + 1
          <6>1. IsFiniteSet(Latches(s)) /\ <<t, Len(holds[t]) + 1>> \notin Latches(s)
            BY <2>2, <4>1, <4>3 DEF WordOf
          <6> QED BY <6>1, FS_AddElement
        <5>2. IsFiniteSet(Latches(s)') /\ Cardinality(Latches(s)') = latch'[s].readers
          BY <2>2, <2>4, <4>1, <4>3, <5>1 DEF WordOf
        <5> QED BY <2>3, <2>4, <2>7, <4>1, <4>3, <5>2 DEF WordOf
      <4> QED BY <4>2, <4>3
    <3> QED BY <3>1 DEF WordInv
  <2>9. OccupantsLeave
    BY <2>1, <2>3, <2>4 DEF OccupantsLeave, Occupied
  <2>10. pc[t] \notin Crawling /\ pc'[t] \notin Crawling
    BY <1>1, <2>1 DEF Crawling
  <2>11. OwnerInv' /\ CrawlerInv' /\ DeletedInv'
    BY <1>1, <2>1, <2>9, <2>10, Visit
  <2>12. OptimistInv'
    <3>1. VersionsGrow
      BY <2>3, <2>4, SameVersions DEF Inv
    <3> QED BY <1>1, <2>1, <2>6, <3>1, Watched
  <2> QED BY <2>6, <2>8, <2>11, <2>12 DEF Inv
<1> QED BY <1>2, <1>3, <1>4 DEF ReaderEnter

\* Whoever the leaving thread wakes, the queue and the set of those who are awake keep their types.
LEMMA HandType ==
  ASSUME Types, NEW s \in Segment, NEW word \in SegmentWord, NEW list, NEW self,
         list.left \in Seq(QueueEntry), list.woken \subseteq Thread \cup {Promise},
         Hand(s, word, list, self)
  PROVE  /\ latch' \in [Segment -> SegmentWord] /\ queue' \in [Segment -> Seq(QueueEntry)]
         /\ woken' \subseteq Thread
         /\ latch'[s] = word /\ queue'[s] = list.left
         /\ \A r \in Segment : r # s => latch'[r] = latch[r] /\ queue'[r] = queue[r]
BY DEF Types, Hand

LEMMA ReaderExitKeeps ==
  ASSUME Inv, NEW t \in Reader, ReaderExit(t)
  PROVE  Inv'
<1>1. PICK s : s = Head(holds[t])
  OBVIOUS
<1>2. /\ t \in Thread \ Optimist /\ pc[t] = "idle" /\ holds[t] # <<>>
      /\ UNCHANGED <<requested, owner, scheduled, leaf, crawler, pc, at, version, torn>>
      /\ holds' = [holds EXCEPT ![t] = Tail(@)]
  BY Roles DEF ReaderExit, crawlVars
<1>3. Alone(t)
  BY <1>2 DEF Alone
<1>4. /\ holds' \in [Reader -> Seq(Segment)] /\ s \in Segment
      /\ Latches(s)' = Latches(s) \ {<<t, Len(holds[t])>>}
      /\ <<t, Len(holds[t])>> \in Latches(s)
      /\ \A r : r # s => Latches(r)' = Latches(r)
  BY <1>1, <1>2, LatchRemoved DEF Inv
<1>5. WordOf(s) /\ latch[s] \in SegmentWord /\ queue[s] \in Seq(QueueEntry)
  BY <1>4 DEF Inv, WordInv, Types
<1>6. /\ IsFiniteSet(Latches(s) \ {<<t, Len(holds[t])>>})
      /\ Cardinality(Latches(s) \ {<<t, Len(holds[t])>>}) = latch[s].readers - 1
      /\ latch[s].readers \in Nat \ {0}
  <2>1. IsFiniteSet(Latches(s)) /\ Cardinality(Latches(s)) = latch[s].readers /\ latch[s].readers \in Nat
    BY <1>5 DEF WordOf, SegmentWord
  <2> HIDE DEF Latches
  <2>2. /\ IsFiniteSet(Latches(s) \ {<<t, Len(holds[t])>>})
        /\ Cardinality(Latches(s) \ {<<t, Len(holds[t])>>}) = Cardinality(Latches(s)) - 1
    BY <1>4, <2>1, FS_RemoveElement
  <2>3. Latches(s) # {}
    BY <1>4
  <2>4. Cardinality(Latches(s)) # 0
    BY <2>1, <2>3, FS_EmptySet
  <2> QED BY <2>1, <2>2, <2>4
<1> DEFINE word == [latch[s] EXCEPT !.readers = @ - 1]
           list == IF word.readers = 0 THEN WakeListNext(queue[s]) ELSE Take(queue[s], 0)
<1>7. Hand(s, word, list, t)
  BY <1>1 DEF ReaderExit
<1>8. /\ word \in SegmentWord /\ word.readers = latch[s].readers - 1 /\ word.writer = latch[s].writer
      /\ word.rebalancer = latch[s].rebalancer /\ word.invalid = latch[s].invalid
      /\ word.version = latch[s].version
  BY <1>5, <1>6 DEF SegmentWord
<1>9. /\ list.left \in Seq(QueueEntry) /\ list.woken \subseteq Thread \cup {Promise}
      /\ word.readers # 0 => list.left = queue[s]
  <2> HIDE DEF word
  <2> QED BY <1>5, WakeType, TakeNone
<1> HIDE DEF word, list
<1>10. /\ latch' \in [Segment -> SegmentWord] /\ queue' \in [Segment -> Seq(QueueEntry)]
       /\ woken' \subseteq Thread
       /\ latch'[s] = word /\ queue'[s] = list.left
       /\ \A r \in Segment : r # s => latch'[r] = latch[r] /\ queue'[r] = queue[r]
  BY <1>4, <1>7, <1>8, <1>9, HandType DEF Inv
<1>11. Types'
  BY <1>2, <1>4, <1>10 DEF Inv, Types
<1>12. WordInv'
  <2>1. ASSUME NEW r \in Segment PROVE WordOf(r)'
    <3>1. WordOf(r) /\ Writing(r)' = Writing(r)
      BY <1>2 DEF Inv, WordInv, Writing
    <3> HIDE DEF Latches, Writing
    <3>2. CASE r # s
      BY <1>4, <1>10, <3>1, <3>2 DEF WordOf
    <3>3. CASE r = s
      <4>1. IsFiniteSet(Latches(s)') /\ Cardinality(Latches(s)') = latch'[s].readers
        BY <1>4, <1>6, <1>8, <1>10
      <4> QED BY <1>6, <1>8, <1>10, <3>1, <3>3, <4>1 DEF WordOf
    <3> QED BY <3>2, <3>3
  <2> QED BY <2>1 DEF WordInv
<1>13. OccupantsLeave
  <2>1. latch[s].readers # 0 /\ ~latch[s].writer
    BY <1>5, <1>6 DEF WordOf
  <2>2. word.readers = 0 => ~Occupied(s)'
    BY <1>4, <1>8, <1>10, <2>1 DEF Occupied
  <2> QED BY <1>8, <1>9, <1>10, <2>1, <2>2 DEF OccupantsLeave, Occupied
<1>14. OwnerInv' /\ CrawlerInv' /\ DeletedInv'
  <2>1. pc[t] \notin Crawling /\ pc'[t] \notin Crawling
    BY <1>2 DEF Crawling
  <2> QED BY <1>2, <1>3, <1>13, <2>1, Visit
<1>15. OptimistInv'
  <2>1. VersionsGrow
    BY <1>4, <1>8, <1>10, SameVersions DEF Inv
  <2> QED BY <1>2, <1>3, <1>11, <2>1, Watched
<1> QED BY <1>11, <1>12, <1>14, <1>15 DEF Inv

----------------------------------------------------------------------------
(* Optimistic readers. *)

LEMMA OptimisticEnterKeeps ==
  ASSUME Inv, NEW t \in Optimist, NEW s \in Segment, OptimisticEnter(t, s)
  PROVE  Inv'
<1>1. /\ t \in Thread /\ pc[t] \notin {"reading", "writing"} \cup Crawling
      /\ UNCHANGED <<requested, owner, scheduled, leaf, crawler, holds>>
  BY Roles DEF OptimisticEnter, Turn, Starts, Resumes, Crawling, crawlVars
<1>2. CASE Abort(t, s)
  <2>1. UNCHANGED <<version, torn>>
    BY <1>2 DEF Abort
  <2> QED BY <1>1, <1>2, <2>1, TurnedAway DEF Inv, Types
<1>3. CASE /\ Sleep(t, s, Append(queue[s], Entry("FREE", t)), "asleep")
           /\ UNCHANGED <<version, torn>>
  BY <1>1, <1>3, TurnedAway DEF Inv, Types
<1>4. CASE /\ version' = [version EXCEPT ![t] = latch[s].version]
           /\ Goto(t, "reading", s)
           /\ woken' = woken \ {t}
           /\ UNCHANGED <<latch, queue, torn>>
  <2>1. /\ pc' \in [Thread -> Places] /\ at' \in [Thread -> Segment]
        /\ Alone(t) /\ pc'[t] = "reading" /\ at'[t] = s
    BY <1>1, <1>4, MoveType DEF Inv, Places
  <2>2. /\ version' \in [Optimist -> Nat] /\ version'[t] = latch[s].version
        /\ \A u \in Optimist \ {t} : version'[u] = version[u]
    <3>1. latch[s].version \in Nat
      BY WordType DEF Inv
    <3> QED BY <1>4, <3>1 DEF Inv, Types
  <2>3. Types'
    BY <1>1, <1>4, <2>1, <2>2 DEF Inv, Types, Places
  <2>4. WordInv' /\ OwnerInv' /\ CrawlerInv' /\ DeletedInv'
    <3>1. KeepsPromises
      BY <1>4 DEF KeepsPromises
    <3>2. pc'[t] \notin {"writing"} \cup Crawling
      BY <2>1 DEF Crawling
    <3> QED BY <1>1, <1>4, <2>1, <3>1, <3>2, Quiet
  <2>5. OptimistInv'
    <3>1. t \notin torn'
      BY <1>1, <1>4 DEF Inv, OptimistInv, OptimistOf
    <3> QED BY <1>4, <2>1, <2>2, <2>3, <3>1, OptimistMoves
  <2> QED BY <2>3, <2>4, <2>5 DEF Inv
<1> QED BY <1>2, <1>3, <1>4 DEF OptimisticEnter

LEMMA ValidateKeeps ==
  ASSUME Inv, NEW t \in Optimist, Validate(t)
  PROVE  Inv'
<1>1. /\ t \in Thread /\ pc[t] = "reading" /\ at[t] \in Segment
      /\ UNCHANGED <<latch, queue, requested, owner, scheduled, leaf, crawler, holds, woken>>
      /\ version' = [version EXCEPT ![t] = 0]
  BY Roles DEF Validate, segmentVars, crawlVars, Inv, Types
<1>2. /\ pc' \in [Thread -> Places] /\ at' \in [Thread -> Segment]
      /\ Alone(t) /\ pc'[t] \in {"idle", "retry"}
  BY <1>1, MoveType DEF Inv, Places, Validate
<1>3. torn' \subseteq torn /\ t \notin torn'
  <2>1. CASE HasOptimisticVersion(t)
    <3>1. t \notin torn
      <4>1. version[t] \in Nat
        BY DEF Inv, Types
      <4> QED BY <2>1, <4>1 DEF HasOptimisticVersion, Inv, OptimistInv, OptimistOf
    <3> QED BY <2>1, <3>1 DEF Validate
  <2>2. CASE ~HasOptimisticVersion(t)
    BY <2>2 DEF Validate
  <2> QED BY <2>1, <2>2
<1>4. /\ version' \in [Optimist -> Nat] /\ \A u \in Optimist \ {t} : version'[u] = version[u]
  BY <1>1 DEF Inv, Types
<1>5. Types'
  BY <1>1, <1>2, <1>3, <1>4 DEF Inv, Types, Places
<1>6. WordInv' /\ OwnerInv' /\ CrawlerInv' /\ DeletedInv'
  <2>1. KeepsPromises
    BY <1>1 DEF KeepsPromises
  <2>2. pc'[t] \notin {"writing"} \cup Crawling /\ pc[t] \notin {"writing"} \cup Crawling
    BY <1>1, <1>2 DEF Crawling
  <2> QED BY <1>1, <1>2, <2>1, <2>2, Quiet
<1>7. OptimistInv'
  BY <1>1, <1>2, <1>3, <1>4, <1>5, OptimistMoves
<1> QED BY <1>5, <1>6, <1>7 DEF Inv

----------------------------------------------------------------------------
(* Writers. *)

\* A writer enters a segment that nobody is in.
LEMMA WriterComes ==
  ASSUME Inv, NEW t \in Writer \cup Merger, NEW s \in Segment, pc[t] \notin {"reading", "writing"} \cup Crawling,
         ~WriterBlocked(t, s), Enters(t, s), Change({s}), Goto(t, "writing", s),
         UNCHANGED <<requested, owner, scheduled, leaf, crawler, holds, version>>
  PROVE  Inv'
<1>1. t \in Thread \ Optimist /\ t \notin Reader
  BY Roles
<1>2. /\ pc' \in [Thread -> Places] /\ at' \in [Thread -> Segment]
      /\ Alone(t) /\ pc'[t] = "writing" /\ at'[t] = s
  BY <1>1, MoveType DEF Inv, Places
<1>3. Idle(latch[s]) /\ UNCHANGED queue /\ woken' \subseteq Thread
  BY DEF WriterBlocked, Enters, Inv, Types
<1>4. /\ latch' \in [Segment -> SegmentWord] /\ latch'[s] = [latch[s] EXCEPT !.writer = TRUE]
      /\ \A r \in Segment : r # s => latch'[r] = latch[r]
  <2>1. latch' = [latch EXCEPT ![s].writer = TRUE]
    BY <1>1 DEF Enters
  <2>2. latch \in [Segment -> SegmentWord]
    BY DEF Inv, Types
  <2> QED BY <2>1, <2>2 DEF SegmentWord
<1>5. /\ latch'[s].writer = TRUE /\ latch'[s].readers = latch[s].readers
      /\ latch'[s].rebalancer = latch[s].rebalancer
      /\ latch'[s].invalid = latch[s].invalid /\ latch'[s].version = latch[s].version
  BY <1>4, WordType DEF SegmentWord, Inv
<1>6. torn' \subseteq Optimist /\ \A u \in torn' \ torn : pc[u] = "reading" /\ at[u] = s
  BY DEF Change, Inv, Types
<1>7. Types'
  BY <1>2, <1>3, <1>4, <1>6 DEF Inv, Types, Places
<1>8. WordInv'
  <2>1. ASSUME NEW r \in Segment PROVE WordOf(r)'
    <3>1. WordOf(r) /\ Latches(r)' = Latches(r)
      BY DEF Inv, WordInv, Latches
    <3>2. CASE r # s
      <4>1. Writing(r)' = Writing(r)
        BY <1>2, <3>2 DEF Writing, Alone
      <4> HIDE DEF Writing, Latches
      <4> QED BY <1>4, <3>1, <3>2, <4>1 DEF WordOf
    <3>3. CASE r = s
      <4>1. Writing(s) = {}
        BY <1>3, <3>1, <3>3 DEF WordOf, Idle
      <4>2. Writing(s)' = {t}
        BY <1>1, <1>2, <4>1 DEF Writing, Alone
      <4> HIDE DEF Writing, Latches
      <4> QED BY <1>3, <1>5, <3>1, <3>3, <4>2 DEF WordOf, Idle
    <3> QED BY <3>2, <3>3
  <2> QED BY <2>1 DEF WordInv
<1>9. OwnerInv' /\ CrawlerInv' /\ DeletedInv'
  <2>1. OccupantsLeave
    BY <1>3, <1>4, <1>5 DEF OccupantsLeave, Occupied, Idle
  <2>2. pc[t] \notin Crawling /\ pc'[t] \notin Crawling
    BY <1>2 DEF Crawling
  <2> QED BY <1>1, <1>2, <2>1, <2>2, Visit
<1>10. OptimistInv'
  <2>1. VersionsGrow
    BY <1>4, <1>5, SameVersions DEF Inv
  <2> QED BY <1>1, <1>2, <1>5, <1>6, <1>7, <2>1, Watched
<1> QED BY <1>7, <1>8, <1>9, <1>10 DEF Inv

LEMMA WriterEnterKeeps ==
  ASSUME Inv, NEW t \in Writer, NEW s \in Segment, WriterEnter(t, s)
  PROVE  Inv'
<1>1. /\ t \in Thread /\ pc[t] \notin {"reading", "writing"} \cup Crawling
      /\ UNCHANGED <<requested, owner, scheduled, leaf, crawler, holds, version>>
  BY Roles DEF WriterEnter, Turn, Starts, Resumes, Crawling, crawlVars
<1>2. CASE Abort(t, s)
  BY <1>1, <1>2, TurnedAway DEF Inv, Types
<1>3. CASE WriterQueues(t, s) /\ UNCHANGED torn
  BY <1>1, <1>3, TurnedAway DEF Inv, Types, WriterQueues
<1>4. CASE ~WriterBlocked(t, s) /\ Enters(t, s) /\ Change({s}) /\ Goto(t, "writing", s)
  BY <1>1, <1>4, WriterComes
<1> QED BY <1>2, <1>3, <1>4 DEF WriterEnter

LEMMA BumpedWord ==
  ASSUME NEW word \in SegmentWord
  PROVE  /\ Bumped(word) \in SegmentWord /\ Bumped(word).version = word.version + 1
         /\ Bumped(word).writer = word.writer /\ Bumped(word).readers = word.readers
         /\ Bumped(word).rebalancer = word.rebalancer /\ Bumped(word).invalid = word.invalid
BY DEF Bumped, SegmentWord

LEMMA WriterExitKeeps ==
  ASSUME Inv, NEW t \in Writer \cup Merger, WriterExit(t)
  PROVE  Inv'
<1>1. PICK s \in Segment : s = at[t]
  BY Roles DEF Inv, Types
<1>2. /\ t \in Thread \ Optimist /\ pc[t] = "writing"
      /\ UNCHANGED <<owner, scheduled, leaf, crawler, holds, version, torn>>
  BY Roles DEF WriterExit, crawlVars
<1>3. /\ pc' \in [Thread -> Places] /\ at' \in [Thread -> Segment]
      /\ Alone(t) /\ pc'[t] = "idle"
  BY <1>2, MoveType DEF Inv, Places, WriterExit
<1>4. WordOf(s) /\ latch[s] \in SegmentWord /\ queue[s] \in Seq(QueueEntry)
  BY DEF Inv, WordInv, Types
<1>5. latch[s].writer /\ latch[s].readers = 0 /\ Writing(s) = {t}
  BY <1>1, <1>2, <1>4 DEF WordOf, Writing
<1> DEFINE word == Bumped([latch[s] EXCEPT !.writer = FALSE])
           list == WakeListNext(queue[s])
<1>6. Hand(s, word, list, t)
  BY <1>1 DEF WriterExit
<1>7. /\ word \in SegmentWord /\ ~word.writer /\ word.readers = latch[s].readers
      /\ word.rebalancer = latch[s].rebalancer /\ word.invalid = latch[s].invalid
      /\ word.version = latch[s].version + 1
  <2> DEFINE left == [latch[s] EXCEPT !.writer = FALSE]
  <2>1. /\ left \in SegmentWord /\ ~left.writer /\ left.readers = latch[s].readers
        /\ left.rebalancer = latch[s].rebalancer /\ left.invalid = latch[s].invalid
        /\ left.version = latch[s].version
    BY <1>4 DEF SegmentWord
  <2>2. word = Bumped(left)
    OBVIOUS
  <2> HIDE DEF left, word
  <2> QED BY <2>1, <2>2, BumpedWord
<1>8. list.left \in Seq(QueueEntry) /\ list.woken \subseteq Thread \cup {Promise}
  BY <1>4, WakeType
<1> HIDE DEF word, list
<1>9. /\ latch' \in [Segment -> SegmentWord] /\ queue' \in [Segment -> Seq(QueueEntry)]
      /\ woken' \subseteq Thread /\ latch'[s] = word
      /\ \A r \in Segment : r # s => latch'[r] = latch[r] /\ queue'[r] = queue[r]
  BY <1>6, <1>7, <1>8, HandType DEF Inv
<1>10. requested' \subseteq Segment
  BY DEF WriterExit, Inv, Types
<1>11. Types'
  BY <1>2, <1>3, <1>9, <1>10 DEF Inv, Types, Places
<1>12. WordInv'
  <2>1. ASSUME NEW r \in Segment PROVE WordOf(r)'
    <3>1. WordOf(r) /\ Latches(r)' = Latches(r)
      BY <1>2 DEF Inv, WordInv, Latches
    <3>2. CASE r # s
      <4>1. Writing(r)' = Writing(r)
        BY <1>1, <1>2, <1>3, <3>2 DEF Writing, Alone
      <4> HIDE DEF Writing, Latches
      <4> QED BY <1>9, <3>1, <3>2, <4>1 DEF WordOf
    <3>3. CASE r = s
      <4>1. Writing(s)' = {}
        BY <1>2, <1>3, <1>5 DEF Writing, Alone
      <4> HIDE DEF Writing, Latches
      <4> QED BY <1>7, <1>9, <3>1, <3>3, <4>1 DEF WordOf
    <3> QED BY <3>2, <3>3
  <2> QED BY <2>1 DEF WordInv
<1>13. OwnerInv' /\ CrawlerInv' /\ DeletedInv'
  <2>1. OccupantsLeave
    BY <1>5, <1>7, <1>9 DEF OccupantsLeave, Occupied
  <2>2. pc[t] \notin Crawling /\ pc'[t] \notin Crawling
    BY <1>2, <1>3 DEF Crawling
  <2> QED BY <1>2, <1>3, <2>1, <2>2, Visit
<1>14. OptimistInv'
  <2>1. VersionsGrow
    <3>1. ASSUME NEW r \in Segment
          PROVE  /\ latch'[r].version >= latch[r].version
                 /\ latch[r].writer \/ latch[r].rebalancer =>
                      latch'[r].writer \/ latch'[r].rebalancer \/ latch'[r].version > latch[r].version
      <4>1. latch[r].version \in Nat
        BY WordType DEF Inv
      <4>2. CASE r = s
        BY <1>7, <1>9, <4>1, <4>2
      <4>3. CASE r # s
        BY <1>9, <4>1, <4>3
      <4> QED BY <4>2, <4>3
    <3> QED BY <3>1 DEF VersionsGrow
  <2> QED BY <1>2, <1>3, <1>11, <2>1, Watched
<1> QED BY <1>11, <1>12, <1>13, <1>14 DEF Inv

LEMMA RequestKeeps ==
  ASSUME Inv, NEW t \in Thread, RequestAsyncRebalance(t)
  PROVE  Inv'
<1>1. /\ UNCHANGED <<latch, queue, owner, leaf, crawler, pc, at, holds, version, woken, torn>>
      /\ at[t] \in Segment /\ requested' \subseteq Segment /\ scheduled' \subseteq Segment
  BY DEF RequestAsyncRebalance, crawlVars, Inv, Types
<1>2. Types'
  BY <1>1 DEF Inv, Types
<1>3. \A s : Writing(s)' = Writing(s) /\ Latches(s)' = Latches(s)
  BY <1>1 DEF Writing, Latches
<1>4. WordInv'
  <2>1. ASSUME NEW s \in Segment PROVE WordOf(s)'
    <3>1. WordOf(s)
      BY DEF Inv, WordInv
    <3> HIDE DEF Writing, Latches
    <3> QED BY <1>1, <1>3, <3>1 DEF WordOf
  <2> QED BY <2>1 DEF WordInv
<1>5. OwnerInv' /\ DeletedInv'
  BY <1>1 DEF Inv, OwnerInv, OwnerOf, Window, DeletedInv
<1>6. CrawlerInv'
  BY <1>1 DEF Inv, CrawlerInv, CrawlerOf, Window
<1>7. OptimistInv'
  BY <1>1 DEF Inv, OptimistInv, OptimistOf
<1> QED BY <1>2, <1>4, <1>5, <1>6, <1>7 DEF Inv

\* A crawler that was woken hands its turn on.
LEMMA TurnPassed ==
  ASSUME Inv, NEW t \in Crawler, NEW s \in Segment, pc[t] \notin {"reading", "writing"} \cup Crawling,
         PassTurn(t, s), Return(t),
         UNCHANGED <<requested, owner, leaf, crawler, holds, version, torn>>, scheduled' \subseteq Segment
  PROVE  Inv'
<1>1. t \in Thread \ Optimist
  BY Roles
<1>2. /\ pc' \in [Thread -> Places] /\ at' \in [Thread -> Segment]
      /\ Alone(t) /\ pc'[t] = "idle"
  BY <1>1, MoveType DEF Inv, Places
<1> DEFINE list == IF pc[t] = "asleep" /\ Idle(latch[s]) THEN WakeListNext(queue[s]) ELSE Take(queue[s], 0)
<1>3. Hand(s, latch[s], list, t)
  BY DEF PassTurn
<1>4. latch[s] \in SegmentWord /\ queue[s] \in Seq(QueueEntry)
  BY WordType DEF Inv
<1>5. /\ list.left \in Seq(QueueEntry) /\ list.woken \subseteq Thread \cup {Promise}
      /\ latch[s].rebalancer => list.left = queue[s]
  BY <1>4, WakeType, TakeNone DEF Idle
<1> HIDE DEF list
<1>6. /\ queue' \in [Segment -> Seq(QueueEntry)]
      /\ woken' \subseteq Thread /\ latch'[s] = latch[s] /\ queue'[s] = list.left
      /\ \A r \in Segment : r # s => latch'[r] = latch[r] /\ queue'[r] = queue[r]
      /\ latch' \in [Segment -> SegmentWord] /\ latch \in [Segment -> SegmentWord]
  BY <1>3, <1>4, <1>5, HandType DEF Inv, Types
<1>7. UNCHANGED latch
  <2>1. \A r \in Segment : latch'[r] = latch[r]
    BY <1>6
  <2> QED BY <1>6, <2>1
<1>8. KeepsPromises
  BY <1>5, <1>6 DEF KeepsPromises
<1>9. Types'
  BY <1>2, <1>6 DEF Inv, Types, Places
<1>10. WordInv' /\ OwnerInv' /\ CrawlerInv' /\ DeletedInv'
  <2>1. pc'[t] \notin {"writing"} \cup Crawling
    BY <1>2 DEF Crawling
  <2> QED BY <1>1, <1>2, <1>7, <1>8, <2>1, Quiet
<1>11. OptimistInv'
  <2>1. VersionsGrow
    BY <1>7, SameVersions DEF Inv
  <2> QED BY <1>1, <1>2, <1>9, <2>1, Watched
<1> QED BY <1>9, <1>10, <1>11 DEF Inv

LEMMA PruneKeeps ==
  ASSUME Inv, NEW t \in Merger, NEW s \in Segment, Prune(t, s)
  PROVE  Inv'
<1>1. /\ t \in Thread /\ t \in Crawler /\ pc[t] \notin {"reading", "writing"} \cup Crawling
      /\ UNCHANGED <<requested, owner, scheduled, leaf, crawler, holds, version>>
  BY Roles DEF Prune, Turn, Starts, Resumes, Crawling, crawlVars
<1>2. CASE Abort(t, s)
  BY <1>1, <1>2, TurnedAway DEF Inv, Types
<1>3. CASE PassTurn(t, s) /\ Return(t) /\ UNCHANGED torn
  BY <1>1, <1>3, TurnPassed DEF Inv, Types
<1>4. CASE WriterQueues(t, s) /\ UNCHANGED torn
  BY <1>1, <1>4, TurnedAway DEF Inv, Types, WriterQueues
<1>5. CASE ~WriterBlocked(t, s) /\ Enters(t, s) /\ Change({s}) /\ Goto(t, "writing", s)
  BY <1>1, <1>5, WriterComes
<1> QED BY <1>2, <1>3, <1>4, <1>5 DEF Prune

----------------------------------------------------------------------------
(* Crawlers. *)

LEMMA NoWindowType ==
  /\ NoWindow \in WindowType /\ NoWindow.lo .. NoWindow.hi = {} /\ NoWindow.can_continue
  /\ NoWindow.hi < NumSegments /\ NoWindow.lo = 0 /\ NoWindow.hi = -1
  /\ 0 \in Segment /\ 2 \in 1 .. NumSegments /\ NumSegments \in 1 .. NumSegments
<1>1. 0 \in Segment /\ 2 \in 1 .. NumSegments /\ NumSegments \in 1 .. NumSegments
  BY LeafAssumption DEF Segment
<1>2. 0 .. -1 = {} /\ -1 < NumSegments /\ -1 \in Int /\ 0 \in Nat
  BY LeafAssumption
<1> HIDE DEF Segment
<1> QED BY <1>1, <1>2 DEF NoWindow, WindowType

LEMMA LeaveLeafType ==
  ASSUME Types, NEW c, LeaveLeaf(c)
  PROVE  /\ leaf' \in [active : Crawler \cup {None}, queue : Seq(Crawler)] /\ leaf'.active = None
         /\ woken' \subseteq Thread
<1> DEFINE n == Min({1, Len(leaf.queue)})
<1>1. leaf.queue \in Seq(Crawler) /\ Len(leaf.queue) \in Nat
  BY DEF Types
<1>2. n \in {1, Len(leaf.queue)} /\ n <= Len(leaf.queue)
  <2>1. {1, Len(leaf.queue)} \in SUBSET Nat /\ {1, Len(leaf.queue)} # {}
    BY <1>1
  <2> QED BY <2>1, MinNat
<1>3. LeaveLeaf(c) <=>
        /\ leaf' = [active |-> None, queue |-> SubSeq(leaf.queue, n + 1, Len(leaf.queue))]
        /\ woken' = (woken \ {c}) \cup {leaf.queue[i] : i \in 1 .. n}
  BY DEF LeaveLeaf
<1> HIDE DEF n
<1>4. SubSeq(leaf.queue, n + 1, Len(leaf.queue)) \in Seq(Crawler)
  BY <1>1, <1>2, SubSeqProperties
<1>5. \A i \in 1 .. n : leaf.queue[i] \in Thread
  BY <1>1, <1>2, Roles
<1>6. woken \subseteq Thread
  BY DEF Types
<1>7. woken' \subseteq Thread
  <2>1. \A x \in woken' : x \in woken \/ \E i \in 1 .. n : x = leaf.queue[i]
    BY <1>3
  <2> QED BY <1>5, <1>6, <2>1
<1> DEFINE q == SubSeq(leaf.queue, n + 1, Len(leaf.queue))
<1>8. q \in Seq(Crawler) /\ leaf' = [active |-> None, queue |-> q]
  BY <1>3, <1>4
<1> HIDE DEF q
<1> QED BY <1>7, <1>8

\* The fields of a window.
LEMMA WindowUpdates ==
  ASSUME NEW w \in WindowType
  PROVE  /\ \A x \in Segment :
              /\ [w EXCEPT !.seg = x] \in WindowType
              /\ [w EXCEPT !.seg = x].lo = w.lo /\ [w EXCEPT !.seg = x].hi = w.hi
              /\ [w EXCEPT !.seg = x].can_continue = w.can_continue
         /\ \A x \in Nat :
              /\ [w EXCEPT !.lo = x] \in WindowType
              /\ [w EXCEPT !.lo = x].lo = x /\ [w EXCEPT !.lo = x].hi = w.hi
              /\ [w EXCEPT !.lo = x].can_continue = w.can_continue
              /\ [w EXCEPT !.lo = x].can_be_stopped = w.can_be_stopped
              /\ [w EXCEPT !.lo = x].removes = w.removes
              /\ [w EXCEPT !.lo = x].threads2wait = w.threads2wait
         /\ \A x \in Int :
              /\ [w EXCEPT !.hi = x] \in WindowType
              /\ [w EXCEPT !.hi = x].hi = x /\ [w EXCEPT !.hi = x].lo = w.lo
              /\ [w EXCEPT !.hi = x].can_continue = w.can_continue
              /\ [w EXCEPT !.hi = x].removes = w.removes
              /\ [w EXCEPT !.hi = x].threads2wait = w.threads2wait
         /\ \A x \in BOOLEAN :
              /\ [w EXCEPT !.can_be_stopped = x] \in WindowType
              /\ [w EXCEPT !.can_be_stopped = x].lo = w.lo /\ [w EXCEPT !.can_be_stopped = x].hi = w.hi
              /\ [w EXCEPT !.can_be_stopped = x].can_continue = w.can_continue
              /\ [w EXCEPT !.can_be_stopped = x].threads2wait = w.threads2wait
              /\ [w EXCEPT !.can_be_stopped = x].can_be_stopped = x
<1>1. ASSUME NEW x \in Segment
      PROVE  /\ [w EXCEPT !.seg = x] \in WindowType
             /\ [w EXCEPT !.seg = x].lo = w.lo /\ [w EXCEPT !.seg = x].hi = w.hi
             /\ [w EXCEPT !.seg = x].can_continue = w.can_continue
  BY DEF WindowType
<1>2. ASSUME NEW x \in Nat
      PROVE  /\ [w EXCEPT !.lo = x] \in WindowType
             /\ [w EXCEPT !.lo = x].lo = x /\ [w EXCEPT !.lo = x].hi = w.hi
             /\ [w EXCEPT !.lo = x].can_continue = w.can_continue
             /\ [w EXCEPT !.lo = x].can_be_stopped = w.can_be_stopped
             /\ [w EXCEPT !.lo = x].removes = w.removes
             /\ [w EXCEPT !.lo = x].threads2wait = w.threads2wait
  BY DEF WindowType
<1>3. ASSUME NEW x \in Int
      PROVE  /\ [w EXCEPT !.hi = x] \in WindowType
             /\ [w EXCEPT !.hi = x].hi = x /\ [w EXCEPT !.hi = x].lo = w.lo
             /\ [w EXCEPT !.hi = x].can_continue = w.can_continue
             /\ [w EXCEPT !.hi = x].removes = w.removes
             /\ [w EXCEPT !.hi = x].threads2wait = w.threads2wait
  BY DEF WindowType
<1>4. ASSUME NEW x \in BOOLEAN
      PROVE  /\ [w EXCEPT !.can_be_stopped = x] \in WindowType
             /\ [w EXCEPT !.can_be_stopped = x].lo = w.lo /\ [w EXCEPT !.can_be_stopped = x].hi = w.hi
             /\ [w EXCEPT !.can_be_stopped = x].can_continue = w.can_continue
             /\ [w EXCEPT !.can_be_stopped = x].threads2wait = w.threads2wait
             /\ [w EXCEPT !.can_be_stopped = x].can_be_stopped = x
  BY DEF WindowType
<1> QED BY <1>1, <1>2, <1>3, <1>4

\* What a crawler's step leaves alone: who is in the segments, which of them are deleted, and the
\* windows of the others.
LEMMA CrawlerMoves ==
  ASSUME Inv, NEW c \in Crawler, Alone(c), UNCHANGED holds,
         pc[c] # "writing", pc'[c] # "writing",
         \A s \in Segment : /\ latch'[s].writer = latch[s].writer /\ latch'[s].readers = latch[s].readers
                            /\ latch[s].invalid => latch'[s].invalid
                            /\ latch'[s].invalid => ~latch'[s].rebalancer
  PROVE  /\ WordInv'
         /\ \A d \in Crawler \ {c} :
              /\ crawler'[d] = crawler[d]
              /\ leaf'.active = leaf.active \/ leaf.active \in {c, None}
              => CrawlerOf(d)'
<1>1. WordInv'
  <2>1. ASSUME NEW s \in Segment PROVE WordOf(s)'
    <3>1. WordOf(s) /\ Writing(s)' = Writing(s) /\ Latches(s)' = Latches(s)
      BY DEF Inv, WordInv, Writing, Latches, Alone
    <3> HIDE DEF Writing, Latches
    <3> QED BY <3>1 DEF WordOf
  <2> QED BY <2>1 DEF WordInv
<1>2. ASSUME NEW d \in Crawler \ {c}, crawler'[d] = crawler[d],
             leaf'.active = leaf.active \/ leaf.active \in {c, None}
      PROVE  CrawlerOf(d)'
  <2>1. CrawlerOf(d) /\ pc'[d] = pc[d] /\ d # None
    BY Roles DEF Inv, CrawlerInv, Alone
  <2>2. pc[d] = "crawl" => leaf'.active = d
    BY <1>2, <2>1 DEF CrawlerOf
  <2>3. \A s \in Window(d) : latch'[s].writer = latch[s].writer /\ latch'[s].readers = latch[s].readers
    BY InWindow
  <2>4. \A s \in 0 .. (crawler[d].lo - 1) :
          latch[s].invalid /\ crawler[d].hi = NumSegments - 1 /\ crawler[d].lo <= crawler[d].hi =>
            latch'[s].invalid
    <3>1. crawler[d].lo \in Nat /\ NumSegments \in Nat
      BY LeafAssumption DEF Inv, Types, WindowType
    <3> QED BY <3>1 DEF Segment
  <2> QED BY <1>2, <2>1, <2>2, <2>3, <2>4 DEF CrawlerOf, Window
<1> QED BY <1>1, <1>2

\* Before a crawler moves elements, what it does to owners is none of the deleted leaf's business.
LEMMA StaysDeleted ==
  ASSUME Inv, NEW c \in Crawler, Alone(c), pc[c] # "spread",
         \A s \in Segment : /\ latch'[s].invalid = latch[s].invalid
                            /\ owner'[s] = owner[s] \/ owner[s] = None \/ pc[owner[s]] # "spread",
         \A d \in Crawler \ {c} : crawler'[d].removes = crawler[d].removes
  PROVE  DeletedInv'
<1>1. ASSUME NEW s \in Segment, owner[s] # None, pc[owner[s]] = "spread", crawler[owner[s]].removes
      PROVE  owner'[s] = owner[s] /\ pc'[owner[s]] = "spread" /\ crawler'[owner[s]].removes
  <2>1. owner[s] \in Crawler \ {c} /\ owner[s] \in Thread \ {c}
    BY <1>1, Roles DEF Inv, Types
  <2> QED BY <1>1, <2>1 DEF Alone
<1> QED BY <1>1 DEF Inv, DeletedInv

LEMMA AsyncRebalancerEnterKeeps ==
  ASSUME Inv, NEW c \in Service, NEW s \in Segment, AsyncRebalancerEnter(c, s)
  PROVE  Inv'
<1>1. /\ c \in Thread \ Optimist /\ c \in Crawler /\ pc[c] \notin {"reading", "writing"} \cup Crawling
      /\ UNCHANGED <<requested, leaf, holds, version, torn>> /\ scheduled' \subseteq Segment
  <2>1. /\ c \in Thread \ Optimist /\ c \in Crawler /\ pc[c] \notin {"reading", "writing"} \cup Crawling
        /\ UNCHANGED <<requested, leaf, holds, version, torn>>
    BY Roles DEF AsyncRebalancerEnter, Turn, Starts, Resumes, Crawling
  <2>2. scheduled' \subseteq Segment
    BY DEF AsyncRebalancerEnter, Inv, Types
  <2> QED BY <2>1, <2>2
<1>2. CASE Abort(c, s) /\ UNCHANGED <<owner, crawler>>
  BY <1>1, <1>2, TurnedAway
<1>3. CASE PassTurn(c, s) /\ Return(c) /\ UNCHANGED <<owner, crawler>>
  BY <1>1, <1>3, TurnPassed
<1>4. CASE Sleep(c, s, <<Entry("REBAL", c)>> \o queue[s], "asleep") /\ UNCHANGED <<owner, crawler>>
  BY <1>1, <1>4, TurnedAway
<1>5. CASE /\ ~latch[s].invalid /\ ~latch[s].rebalancer /\ Idle(latch[s])
           /\ latch' = [latch EXCEPT ![s].rebalancer = TRUE]
           /\ owner' = [owner EXCEPT ![s] = c]
           /\ crawler' = [crawler EXCEPT ![c] = [NoWindow EXCEPT !.seg = s, !.lo = s, !.hi = s,
                                                                 !.can_be_stopped = TRUE]]
           /\ Goto(c, "leaf", 0)
           /\ woken' = woken \ {c}
           /\ UNCHANGED queue
  <2>1. /\ pc' \in [Thread -> Places] /\ at' \in [Thread -> Segment]
        /\ Alone(c) /\ pc'[c] = "leaf"
    BY <1>1, <1>5, NoWindowType, MoveType DEF Inv, Places, Crawling
  <2>2. /\ latch' \in [Segment -> SegmentWord] /\ latch'[s].rebalancer
        /\ latch'[s].writer = latch[s].writer /\ latch'[s].readers = latch[s].readers
        /\ latch'[s].invalid = latch[s].invalid /\ latch'[s].version = latch[s].version
        /\ \A r \in Segment : r # s => latch'[r] = latch[r]
    <3>1. latch \in [Segment -> SegmentWord] /\ latch[s] \in SegmentWord
      BY DEF Inv, Types
    <3> QED BY <1>5, <3>1 DEF SegmentWord
  <2>3. owner' \in [Segment -> Crawler \cup {None}] /\ owner'[s] = c
        /\ \A r \in Segment : r # s => owner'[r] = owner[r]
    BY <1>1, <1>5 DEF Inv, Types
  <2> DEFINE w == [NoWindow EXCEPT !.seg = s, !.lo = s, !.hi = s, !.can_be_stopped = TRUE]
  <2>4. s \in Nat /\ s < NumSegments
    BY LeafAssumption DEF Segment
  <2>5. /\ w \in WindowType /\ w.lo = s /\ w.hi = s /\ w.can_continue
    <3> DEFINE w1 == [NoWindow EXCEPT !.seg = s]
               w2 == [w1 EXCEPT !.lo = s]
               w3 == [w2 EXCEPT !.hi = s]
    <3>1. w1 \in WindowType /\ w1.can_continue
      BY NoWindowType, WindowUpdates
    <3> HIDE DEF w1
    <3>2. w2 \in WindowType /\ w2.lo = s /\ w2.can_continue
      BY <2>4, <3>1, WindowUpdates
    <3> HIDE DEF w2
    <3>3. w3 \in WindowType /\ w3.lo = s /\ w3.hi = s /\ w3.can_continue
      BY <2>4, <3>2, WindowUpdates
    <3>4. w = [w3 EXCEPT !.can_be_stopped = TRUE]
      BY DEF w1, w2
    <3> HIDE DEF w3, w
    <3>5. /\ [w3 EXCEPT !.can_be_stopped = TRUE] \in WindowType
          /\ [w3 EXCEPT !.can_be_stopped = TRUE].lo = w3.lo
          /\ [w3 EXCEPT !.can_be_stopped = TRUE].hi = w3.hi
          /\ [w3 EXCEPT !.can_be_stopped = TRUE].can_continue = w3.can_continue
      BY <3>3, WindowUpdates
    <3> QED BY <3>3, <3>4, <3>5
  <2> HIDE DEF w
  <2>6. /\ crawler' \in [Crawler -> WindowType] /\ crawler'[c] = w
        /\ \A d \in Crawler \ {c} : crawler'[d] = crawler[d]
    <3>1. crawler' = [crawler EXCEPT ![c] = w]
      BY <1>5 DEF w
    <3> QED BY <1>1, <2>5, <3>1 DEF Inv, Types
  <2>7. crawler[c] = NoWindow /\ Window(c) = {}
    BY <1>1, NoWindowType DEF Inv, CrawlerInv, CrawlerOf, Window
  <2>8. Types'
    BY <1>1, <1>5, <2>1, <2>2, <2>3, <2>6 DEF Inv, Types, Places
  <2>9. \A r \in Segment : WordOf(r) /\ OwnerOf(r)
    BY DEF Inv, WordInv, OwnerInv
  <2>10. /\ WordInv' /\ \A d \in Crawler \ {c} : CrawlerOf(d)'
    <3>1. \A r \in Segment : /\ latch'[r].writer = latch[r].writer /\ latch'[r].readers = latch[r].readers
                             /\ latch[r].invalid => latch'[r].invalid
                             /\ latch'[r].invalid => ~latch'[r].rebalancer
      BY <1>5, <2>2, <2>9 DEF WordOf
    <3> QED BY <1>1, <2>1, <2>6, <3>1, CrawlerMoves
  <2>11. OwnerInv'
    <3>1. ASSUME NEW r \in Segment PROVE OwnerOf(r)'
      <4>1. s .. s = {s} /\ Window(c)' = {s} /\ \A d \in Crawler \ {c} : Window(d)' = Window(d)
        BY <2>4, <2>5, <2>6 DEF Window
      <4>2. CASE r # s
        <5>1. owner[r] # c
          BY <1>1, <2>7, <2>9 DEF OwnerOf
        <5>2. \A d \in Crawler : owner'[r] = d <=> crawler'[d].can_continue /\ r \in Window(d)'
          BY <2>3, <2>6, <2>9, <4>1, <4>2, <5>1 DEF OwnerOf
        <5>3. owner[r] # None => owner[r] \in Crawler \ {c}
          BY <5>1 DEF Inv, Types
        <5>4. owner[r] # None /\ ~(~latch[r].writer /\ latch[r].readers = 0) =>
                r \in crawler'[owner[r]].threads2wait /\ HasPromise(queue[r])
          BY <2>6, <2>9, <5>3 DEF OwnerOf
        <5>5. /\ latch'[r] = latch[r] /\ owner'[r] = owner[r] /\ queue' = queue
              /\ (latch[r].rebalancer <=> owner[r] # None)
          BY <1>5, <2>2, <2>3, <2>9, <4>2 DEF OwnerOf
        <5>6. /\ latch'[r].rebalancer <=> owner'[r] # None
              /\ owner'[r] # None /\ ~(~latch'[r].writer /\ latch'[r].readers = 0) =>
                   r \in crawler'[owner'[r]].threads2wait /\ HasPromise(queue'[r])
          BY <5>4, <5>5
        <5> QED BY <5>2, <5>6 DEF OwnerOf, Window
      <4>3. CASE r = s
        <5>1. owner[s] = None
          BY <1>5, <2>9 DEF OwnerOf
        <5>2. \A d \in Crawler \ {c} : ~(crawler[d].can_continue /\ s \in Window(d))
          BY <2>9, <5>1, Roles DEF OwnerOf
        <5>3. ASSUME NEW d \in Crawler
              PROVE  owner'[s] = d <=> crawler'[d].can_continue /\ s \in Window(d)'
          <6>1. CASE d = c
            BY <2>3, <2>5, <2>6, <4>1, <6>1
          <6>2. CASE d # c
            BY <2>3, <2>6, <4>1, <5>2, <6>2
          <6> QED BY <6>1, <6>2
        <5>4. latch'[s].rebalancer /\ owner'[s] # None /\ ~latch'[s].writer /\ latch'[s].readers = 0
          BY <1>1, <1>5, <2>2, <2>3, Roles DEF Idle
        <5> QED BY <4>3, <5>3, <5>4 DEF OwnerOf
      <4> QED BY <4>2, <4>3
    <3> QED BY <3>1 DEF OwnerInv
  <2>12. CrawlerOf(c)'
    BY <2>1, <2>4, <2>5, <2>6 DEF CrawlerOf, Crawling
  <2>13. DeletedInv'
    <3>1. \A r \in Segment : /\ latch'[r].invalid = latch[r].invalid
                             /\ owner'[r] = owner[r] \/ owner[r] = None \/ pc[owner[r]] # "spread"
      BY <1>5, <2>2, <2>3, <2>9 DEF OwnerOf
    <3>2. pc[c] # "spread"
      BY <1>1 DEF Crawling
    <3> QED BY <1>1, <2>1, <2>6, <3>1, <3>2, StaysDeleted
  <2>14. OptimistInv'
    <3>1. VersionsGrow
      BY <1>5, <2>2, SameVersions DEF Inv
    <3> QED BY <1>1, <2>1, <2>8, <3>1, Watched
  <2> QED BY <2>8, <2>10, <2>11, <2>12, <2>13, <2>14 DEF Inv, CrawlerInv
<1> QED BY <1>2, <1>3, <1>4, <1>5 DEF AsyncRebalancerEnter

\* A step after which each crawler has the segments it had.
LEMMA OwnersStay ==
  ASSUME Inv, NEW c \in Crawler, UNCHANGED <<latch, owner>>, KeepsPromises,
         \A d \in Crawler \ {c} : crawler'[d] = crawler[d],
         \A s \in Segment : /\ crawler'[c].can_continue /\ s \in Window(c)' <=>
                                 crawler[c].can_continue /\ s \in Window(c)
                            /\ crawler[c].can_continue /\ s \in Window(c) /\ Occupied(s)
                                 /\ s \in crawler[c].threads2wait =>
                                 s \in crawler'[c].threads2wait
  PROVE  OwnerInv'
<1>1. ASSUME NEW s \in Segment PROVE OwnerOf(s)'
  <2>1. OwnerOf(s)
    BY DEF Inv, OwnerInv
  <2>2. ASSUME NEW d \in Crawler PROVE owner'[s] = d <=> crawler'[d].can_continue /\ s \in Window(d)'
    <3>1. CASE d = c
      BY <2>1, <3>1 DEF OwnerOf
    <3>2. CASE d # c
      BY <2>1, <3>2 DEF OwnerOf, Window
    <3> QED BY <3>1, <3>2
  <2>3. ASSUME owner[s] # None, Occupied(s), s \in crawler[owner[s]].threads2wait
        PROVE  s \in crawler'[owner[s]].threads2wait
    <3>1. owner[s] \in Crawler
      BY <2>3 DEF Inv, Types
    <3>2. CASE owner[s] = c
      BY <2>1, <2>3, <3>1, <3>2 DEF OwnerOf
    <3>3. CASE owner[s] # c
      BY <2>3, <3>1, <3>3
    <3> QED BY <3>2, <3>3
  <2>4. /\ latch'[s].rebalancer <=> owner'[s] # None
        /\ owner'[s] # None /\ ~(~latch'[s].writer /\ latch'[s].readers = 0) =>
             s \in crawler'[owner'[s]].threads2wait /\ HasPromise(queue'[s])
    BY <2>1, <2>3 DEF OwnerOf, KeepsPromises, Occupied
  <2> QED BY <2>2, <2>4 DEF OwnerOf
<1> QED BY <1>1 DEF OwnerInv

\* ... and nothing but the crawler's own record and place, and the leaf, changes.
LEMMA CrawlerAlone ==
  ASSUME Inv, Types', NEW c \in Crawler, Alone(c),
         UNCHANGED <<latch, owner, holds, version>>, KeepsPromises,
         \A t \in torn' \ torn : pc[t] = "reading" /\ latch[at[t]].rebalancer,
         pc[c] \notin {"writing", "spread"}, pc'[c] # "writing",
         leaf'.active = leaf.active \/ leaf.active \in {c, None},
         \A d \in Crawler \ {c} : crawler'[d] = crawler[d],
         \A s \in Segment : /\ crawler'[c].can_continue /\ s \in Window(c)' <=>
                                 crawler[c].can_continue /\ s \in Window(c)
                            /\ crawler[c].can_continue /\ s \in Window(c) /\ Occupied(s)
                                 /\ s \in crawler[c].threads2wait =>
                                 s \in crawler'[c].threads2wait,
         CrawlerOf(c)'
  PROVE  Inv'
<1>1. OwnerInv'
  BY OwnersStay
<1>2. \A s \in Segment : latch[s].invalid => ~latch[s].rebalancer
  BY DEF Inv, WordInv, WordOf
<1>3. WordInv' /\ \A d \in Crawler \ {c} : CrawlerOf(d)'
  BY <1>2, CrawlerMoves
<1>4. DeletedInv'
  BY StaysDeleted
<1>5. OptimistInv'
  <2>1. VersionsGrow
    BY SameVersions DEF Inv
  <2> QED BY <2>1, Roles, Watched
<1> QED BY <1>1, <1>3, <1>4, <1>5 DEF Inv, CrawlerInv

LEMMA SameQueues == UNCHANGED queue => KeepsPromises
BY DEF KeepsPromises

LEMMA Lock2MergeKeeps ==
  ASSUME Inv, NEW c \in Merger, Lock2Merge(c)
  PROVE  Inv'
<1>1. /\ c \in Thread /\ c \in Crawler /\ c \notin Service /\ pc[c] = "idle"
      /\ UNCHANGED <<latch, queue, requested, scheduled, owner, leaf, at, holds, version, woken, torn>>
  BY Roles DEF Lock2Merge, Starts, segmentVars
<1>2. /\ pc' \in [Thread -> Places] /\ at' \in [Thread -> Segment]
      /\ Alone(c) /\ pc'[c] = "leaf"
  BY <1>1, MoveType DEF Inv, Places, Crawling, Lock2Merge
<1> DEFINE w == [NoWindow EXCEPT !.len = NumSegments]
<1>3. w \in WindowType /\ w.lo = 0 /\ w.hi = -1 /\ w.can_continue
  BY NoWindowType DEF NoWindow, WindowType
<1>4. crawler' = [crawler EXCEPT ![c] = w]
  BY DEF Lock2Merge
<1> HIDE DEF w
<1>5. /\ crawler' \in [Crawler -> WindowType] /\ crawler'[c] = w
      /\ \A d \in Crawler \ {c} : crawler'[d] = crawler[d]
  BY <1>1, <1>3, <1>4 DEF Inv, Types
<1>6. Types'
  BY <1>1, <1>2, <1>5 DEF Inv, Types, Places
<1>7. Window(c) = {} /\ Window(c)' = {}
  <2>1. crawler[c] = NoWindow
    BY <1>1 DEF Inv, CrawlerInv, CrawlerOf, Crawling
  <2> QED BY <1>3, <1>5, <2>1, NoWindowType DEF Window
<1>8. CrawlerOf(c)'
  <2>1. 0 <= -1 \/ (0 = 0 /\ -1 = -1)
    OBVIOUS
  <2>2. -1 < NumSegments
    BY LeafAssumption
  <2> QED BY <1>1, <1>2, <1>3, <1>5, <2>1, <2>2 DEF CrawlerOf, Crawling
<1> QED BY <1>1, <1>2, <1>5, <1>6, <1>7, <1>8, CrawlerAlone, SameQueues

LEMMA LeafXlockKeeps ==
  ASSUME Inv, NEW c \in Crawler, LeafXlock(c)
  PROVE  Inv'
<1>1. /\ c \in Thread /\ pc[c] \in {"leaf", "leafqueue", "behind"}
      /\ UNCHANGED <<latch, queue, requested, scheduled, owner, holds, version, torn>>
  BY Roles DEF LeafXlock, segmentVars
<1>2. CrawlerOf(c)
  BY DEF Inv, CrawlerInv
<1>3. CASE /\ leaf' = [leaf EXCEPT !.queue = Append(@, c)]
           /\ Goto(c, "leafqueue", 0)
           /\ UNCHANGED crawler
           /\ woken' = woken \ {c}
  <2>1. /\ pc' \in [Thread -> Places] /\ at' \in [Thread -> Segment]
        /\ Alone(c) /\ pc'[c] = "leafqueue"
    BY <1>1, <1>3, NoWindowType, MoveType DEF Inv, Places, Crawling
  <2>2. leaf' \in [active : Crawler \cup {None}, queue : Seq(Crawler)] /\ leaf'.active = leaf.active
    <3>1. leaf \in [active : Crawler \cup {None}, queue : Seq(Crawler)]
      BY DEF Inv, Types
    <3>2. Append(leaf.queue, c) \in Seq(Crawler)
      BY <3>1, AppendProperties
    <3> QED BY <1>3, <3>1, <3>2
  <2>3. Types'
    BY <1>1, <1>3, <2>1, <2>2 DEF Inv, Types, Places
  <2>4. CrawlerOf(c)'
    BY <1>1, <1>2, <1>3, <2>1 DEF CrawlerOf, Window, Crawling
  <2>5. Window(c)' = Window(c)
    BY <1>3 DEF Window
  <2> QED BY <1>1, <1>3, <2>1, <2>2, <2>3, <2>4, <2>5, CrawlerAlone, SameQueues
<1>4. CASE /\ leaf.active = None /\ ~crawler[c].can_continue
           /\ LeaveLeaf(c)
           /\ Return(c)
           /\ crawler' = [crawler EXCEPT ![c] = NoWindow]
  <2>1. /\ pc' \in [Thread -> Places] /\ at' \in [Thread -> Segment]
        /\ Alone(c) /\ pc'[c] = "idle"
    BY <1>1, <1>4, MoveType DEF Inv, Places
  <2>2. /\ leaf' \in [active : Crawler \cup {None}, queue : Seq(Crawler)] /\ leaf'.active = None
        /\ woken' \subseteq Thread
    BY <1>4, LeaveLeafType DEF Inv
  <2>3. /\ crawler' \in [Crawler -> WindowType] /\ crawler'[c] = NoWindow
        /\ \A d \in Crawler \ {c} : crawler'[d] = crawler[d]
    BY <1>4, NoWindowType DEF Inv, Types
  <2>4. Types'
    BY <1>1, <2>1, <2>2, <2>3 DEF Inv, Types, Places
  <2>5. Window(c)' = {}
    BY <2>3, NoWindowType DEF Window
  <2>6. CrawlerOf(c)'
    BY <2>1, <2>3, NoWindowType DEF CrawlerOf, Crawling
  <2> QED BY <1>1, <1>4, <2>1, <2>2, <2>3, <2>4, <2>5, <2>6, CrawlerAlone, SameQueues
<1>5. CASE /\ leaf.active = None /\ crawler[c].can_continue
           /\ leaf' = [leaf EXCEPT !.active = c]
           /\ Goto(c, "crawl", 0)
           /\ UNCHANGED crawler
           /\ woken' = woken \ {c}
  <2>1. /\ pc' \in [Thread -> Places] /\ at' \in [Thread -> Segment]
        /\ Alone(c) /\ pc'[c] = "crawl"
    BY <1>1, <1>5, NoWindowType, MoveType DEF Inv, Places, Crawling
  <2>2. leaf' \in [active : Crawler \cup {None}, queue : Seq(Crawler)] /\ leaf'.active = c
    BY <1>5 DEF Inv, Types
  <2>3. Types'
    BY <1>1, <1>5, <2>1, <2>2 DEF Inv, Types, Places
  <2>4. CrawlerOf(c)'
    BY <1>1, <1>2, <1>5, <2>1, <2>2 DEF CrawlerOf, Window, Crawling
  <2>5. Window(c)' = Window(c)
    BY <1>5 DEF Window
  <2> QED BY <1>1, <1>5, <2>1, <2>3, <2>4, <2>5, CrawlerAlone, SameQueues
<1> QED BY <1>3, <1>4, <1>5 DEF LeafXlock

\* The segment a crawler takes next is beside its window, and a crawler that takes none has one already.
LEMMA NextType ==
  ASSUME Inv, NEW c \in Crawler, pc[c] = "crawl"
  PROVE  /\ \A s \in NextSegments(c) :
              /\ s \in Segment /\ s \notin Window(c)
              /\ s = crawler[c].hi + 1 \/ (s = crawler[c].lo - 1 /\ crawler[c].lo <= crawler[c].hi)
         /\ NextSegments(c) = {} => crawler[c].lo <= crawler[c].hi
<1> DEFINE lo == crawler[c].lo
           hi == crawler[c].hi
           seg == crawler[c].seg
           len == crawler[c].len
           start == WindowStart(seg, len)
<1>1. NumSegments \in Nat /\ 2 <= NumSegments
  BY LeafAssumption
<1>2. lo \in Nat /\ hi \in Int /\ seg \in Segment /\ len \in 1 .. NumSegments
  BY DEF Inv, Types, WindowType
<1>3. hi < NumSegments /\ (lo <= hi \/ (lo = 0 /\ hi = -1))
  BY DEF Inv, CrawlerInv, CrawlerOf
<1>4. start \in Nat /\ start + len <= NumSegments
  <2> HIDE DEF seg, len
  <2>1. seg \in Nat /\ len \in Nat /\ len >= 1 /\ len <= NumSegments
    BY <1>1, <1>2 DEF Segment
  <2>2. seg \div len \in Nat
    BY <2>1
  <2>3. (seg \div len) * len \in Nat
    BY <2>1, <2>2
  <2> DEFINE x == (seg \div len) * len
  <2>4. start = IF x + len >= NumSegments THEN NumSegments - len ELSE x
    BY DEF WindowStart
  <2> HIDE DEF x, start
  <2>5. x \in Nat
    BY <2>3 DEF x
  <2> QED BY <1>1, <2>1, <2>4, <2>5
<1>5. NextSegments(c) = IF hi + 1 < start + len THEN {hi + 1} ELSE IF lo - 1 >= start THEN {lo - 1} ELSE {}
  BY DEF NextSegments
<1>6. Window(c) = lo .. hi
  BY DEF Window
<1>7. len \in Nat /\ len >= 1
  BY <1>1, <1>2
<1> HIDE DEF lo, hi, seg, len, start
<1>8. ASSUME NEW s \in NextSegments(c)
      PROVE  /\ s \in 0 .. NumSegments - 1 /\ s \notin lo .. hi
             /\ s = hi + 1 \/ (s = lo - 1 /\ lo <= hi)
  <2>1. CASE hi + 1 < start + len /\ s = hi + 1
    BY <1>1, <1>2, <1>3, <1>4, <1>7, <2>1
  <2>2. CASE lo - 1 >= start /\ s = lo - 1
    BY <1>1, <1>2, <1>3, <1>4, <1>7, <2>2
  <2> QED BY <1>5, <2>1, <2>2
<1>9. NextSegments(c) = {} => lo <= hi
  <2>1. CASE hi + 1 < start + len
    BY <1>5, <2>1
  <2>2. CASE ~(hi + 1 < start + len)
    BY <1>1, <1>2, <1>3, <1>4, <1>7, <2>2
  <2> QED BY <2>1, <2>2
<1> QED BY <1>6, <1>8, <1>9 DEF lo, hi, Segment

\* A window with a stretch of segments added beside it.
LEMMA WidenedBy ==
  ASSUME Types, NEW c \in Crawler, NEW a \in Nat, NEW b \in Nat, a <= b, b < NumSegments,
         crawler[c].hi < NumSegments,
         \/ crawler[c].lo <= crawler[c].hi /\ (a = crawler[c].hi + 1 \/ b = crawler[c].lo - 1)
         \/ crawler[c].lo = 0 /\ crawler[c].hi = -1 /\ a = 0
  PROVE  /\ Widened(c, a, b) \in WindowType
         /\ Widened(c, a, b).lo .. Widened(c, a, b).hi = Window(c) \cup (a .. b)
         /\ Widened(c, a, b).lo <= Widened(c, a, b).hi /\ Widened(c, a, b).hi < NumSegments
         /\ Widened(c, a, b).can_continue = crawler[c].can_continue
         /\ Widened(c, a, b).threads2wait = crawler[c].threads2wait
<1> DEFINE w == crawler[c]
           L == IF b < w.lo THEN a ELSE w.lo
           H == IF a > w.hi THEN b ELSE w.hi
           w1 == [w EXCEPT !.lo = L]
           w2 == [w1 EXCEPT !.hi = H]
<1>1. w \in WindowType /\ w.lo \in Nat /\ w.hi \in Int
  BY DEF Types, WindowType
<1>2. Widened(c, a, b) = w2
  BY DEF Widened
<1>3. Window(c) = w.lo .. w.hi
  BY DEF Window
<1>4. \/ w.lo <= w.hi /\ (a = w.hi + 1 \/ b = w.lo - 1)
      \/ w.lo = 0 /\ w.hi = -1 /\ a = 0
  OBVIOUS
<1>5. w.hi < NumSegments /\ NumSegments \in Nat
  BY LeafAssumption
<1> HIDE DEF w
<1>6. L \in Nat /\ H \in Int /\ L <= H /\ H < NumSegments
  BY <1>1, <1>4, <1>5
<1>7. L .. H = (w.lo .. w.hi) \cup (a .. b)
  <2>1. ASSUME NEW x \in Int PROVE x \in L .. H <=> x \in w.lo .. w.hi \/ x \in a .. b
    BY <1>1, <1>4
  <2>2. L .. H \subseteq Int /\ w.lo .. w.hi \subseteq Int /\ a .. b \subseteq Int
    BY <1>1, <1>6
  <2> HIDE DEF L, H
  <2> QED BY <2>1, <2>2
<1> HIDE DEF L, H
<1>8. w1 \in WindowType /\ w1.lo = L /\ w1.can_continue = w.can_continue /\ w1.threads2wait = w.threads2wait
  BY <1>1, <1>6, WindowUpdates
<1> HIDE DEF w1
<1>9. /\ w2 \in WindowType /\ w2.lo = L /\ w2.hi = H /\ w2.can_continue = w.can_continue
      /\ w2.threads2wait = w.threads2wait
  BY <1>6, <1>8, WindowUpdates
<1> HIDE DEF w2
<1> QED BY <1>2, <1>3, <1>6, <1>7, <1>9 DEF w

\* The windows after a crawler took the segments of S, which were nobody's or another's.
LEMMA Taken ==
  ASSUME Inv, NEW c \in Crawler, NEW S \in SUBSET Segment,
         crawler[c].can_continue, crawler'[c].can_continue, Window(c)' = Window(c) \cup S,
         owner' = [s \in Segment |-> IF s \in S THEN c ELSE owner[s]],
         \A d \in Crawler \ {c} :
           \/ crawler'[d] = crawler[d] /\ \A s \in S : owner[s] # d
           \/ ~crawler'[d].can_continue /\ \A s \in Segment : owner[s] = d => s \in S,
         \A s \in Segment : /\ latch'[s].rebalancer <=> latch[s].rebalancer \/ s \in S
                            /\ latch'[s].writer = latch[s].writer /\ latch'[s].readers = latch[s].readers,
         KeepsPromises, crawler[c].threads2wait \subseteq crawler'[c].threads2wait,
         \A s \in S : Occupied(s) => s \in crawler'[c].threads2wait /\ HasPromise(queue'[s])
  PROVE  OwnerInv'
<1>1. ASSUME NEW s \in Segment PROVE OwnerOf(s)'
  <2>1. OwnerOf(s) /\ owner'[s] = IF s \in S THEN c ELSE owner[s]
    BY DEF Inv, OwnerInv
  <2>2. ASSUME NEW d \in Crawler PROVE owner'[s] = d <=> crawler'[d].can_continue /\ s \in Window(d)'
    <3>1. CASE d = c
      BY <2>1, <3>1 DEF OwnerOf
    <3>2. CASE d # c /\ crawler'[d] = crawler[d] /\ \A r \in S : owner[r] # d
      <4>1. Window(d)' = Window(d)
        BY <3>2 DEF Window
      <4> QED BY <2>1, <3>2, <4>1 DEF OwnerOf
    <3>3. CASE d # c /\ ~crawler'[d].can_continue /\ \A r \in Segment : owner[r] = d => r \in S
      BY <2>1, <3>3
    <3> QED BY <3>1, <3>2, <3>3
  <2>3. owner'[s] # None /\ ~(~latch'[s].writer /\ latch'[s].readers = 0) =>
          s \in crawler'[owner'[s]].threads2wait /\ HasPromise(queue'[s])
    <3>1. CASE s \in S
      BY <2>1, <3>1 DEF Occupied
    <3>2. CASE s \notin S
      <4>1. ASSUME owner[s] # None, Occupied(s)
            PROVE  s \in crawler'[owner[s]].threads2wait /\ HasPromise(queue'[s])
        <5>1. s \in crawler[owner[s]].threads2wait /\ HasPromise(queue[s]) /\ latch[s].rebalancer
          BY <2>1, <4>1 DEF OwnerOf, Occupied
        <5>2. owner[s] \in Crawler
          BY <4>1 DEF Inv, Types
        <5>3. CASE owner[s] = c
          BY <5>1, <5>3 DEF KeepsPromises
        <5>4. CASE owner[s] # c
          <6>1. crawler'[owner[s]] = crawler[owner[s]]
            BY <3>2, <5>2, <5>4
          <6> QED BY <5>1, <6>1 DEF KeepsPromises
        <5> QED BY <5>3, <5>4
      <4> QED BY <2>1, <3>2, <4>1 DEF Occupied
    <3> QED BY <3>1, <3>2
  <2>4. latch'[s].rebalancer <=> owner'[s] # None
    BY <2>1, Roles DEF OwnerOf
  <2> QED BY <2>2, <2>3, <2>4 DEF OwnerOf
<1> QED BY <1>1 DEF OwnerInv

LEMMA AcquireKeeps ==
  ASSUME Inv, NEW c \in Crawler, Crawl(c), NEW s \in NextSegments(c), AcquireSegment(c, s)
  PROVE  Inv'
<1>1. /\ c \in Thread \ Optimist /\ pc[c] = "crawl" /\ Alone(c)
      /\ UNCHANGED <<requested, scheduled, leaf, pc, at, holds, version, woken, torn>>
  BY Roles DEF Crawl, AcquireSegment, Alone
<1>2. CrawlerOf(c) /\ crawler[c].can_continue /\ leaf.active = c
  BY <1>1 DEF Inv, CrawlerInv, CrawlerOf
<1>3. /\ s \in Segment /\ s \notin Window(c)
      /\ s = crawler[c].hi + 1 \/ (s = crawler[c].lo - 1 /\ crawler[c].lo <= crawler[c].hi)
  BY <1>1, NextType
<1>4. WordOf(s) /\ OwnerOf(s) /\ ~latch[s].rebalancer /\ ~latch[s].invalid /\ owner[s] = None
  BY <1>3 DEF Inv, WordInv, OwnerInv, OwnerOf, AcquireSegment
<1>5. /\ latch' \in [Segment -> SegmentWord] /\ latch'[s].rebalancer
      /\ latch'[s].writer = latch[s].writer /\ latch'[s].readers = latch[s].readers
      /\ latch'[s].invalid = latch[s].invalid /\ latch'[s].version = latch[s].version
      /\ \A r \in Segment : r # s => latch'[r] = latch[r]
  <2>1. latch \in [Segment -> SegmentWord] /\ latch[s] \in SegmentWord
    BY <1>3 DEF Inv, Types
  <2> QED BY <1>3, <2>1 DEF SegmentWord, AcquireSegment
<1>6. owner' \in [Segment -> Crawler \cup {None}] /\ owner' = [r \in Segment |-> IF r \in {s} THEN c ELSE owner[r]]
  BY <1>3 DEF Inv, Types, AcquireSegment
<1> DEFINE w == Widened(c, s, s)
           v == [w EXCEPT !.threads2wait = crawler[c].threads2wait \cup {s}]
<1>7. /\ w \in WindowType /\ w.lo .. w.hi = Window(c) \cup {s} /\ w.lo <= w.hi /\ w.hi < NumSegments
      /\ w.can_continue /\ w.threads2wait = crawler[c].threads2wait
  <2>1. s \in Nat /\ s < NumSegments /\ s <= s /\ s .. s = {s}
    BY <1>3, LeafAssumption DEF Segment
  <2>2. crawler[c].hi < NumSegments /\ (crawler[c].lo <= crawler[c].hi \/ (crawler[c].lo = 0 /\ crawler[c].hi = -1))
    BY <1>2 DEF CrawlerOf
  <2>3. \/ crawler[c].lo <= crawler[c].hi /\ (s = crawler[c].hi + 1 \/ s = crawler[c].lo - 1)
        \/ crawler[c].lo = 0 /\ crawler[c].hi = -1 /\ s = 0
    BY <1>3, <2>1, <2>2
  <2>4. /\ Widened(c, s, s) \in WindowType
        /\ Widened(c, s, s).lo .. Widened(c, s, s).hi = Window(c) \cup (s .. s)
        /\ Widened(c, s, s).lo <= Widened(c, s, s).hi /\ Widened(c, s, s).hi < NumSegments
        /\ Widened(c, s, s).can_continue = crawler[c].can_continue
        /\ Widened(c, s, s).threads2wait = crawler[c].threads2wait
    BY <2>1, <2>2, <2>3, WidenedBy DEF Inv
  <2> QED BY <1>2, <2>1, <2>4
<1> HIDE DEF w
<1>8. /\ v \in WindowType /\ v.lo = w.lo /\ v.hi = w.hi /\ v.can_continue
      /\ v.threads2wait = crawler[c].threads2wait \cup {s}
  <2>1. crawler[c].threads2wait \cup {s} \in SUBSET Segment
    BY <1>3 DEF Inv, Types, WindowType
  <2> QED BY <1>7, <2>1 DEF WindowType
<1> HIDE DEF v
<1>9. PICK x \in {w, v} : crawler' = [crawler EXCEPT ![c] = x]
  BY DEF AcquireSegment, w, v
<1>10. x \in {w, v} /\ (Occupied(s) => x = v)
  <2>1. ASSUME Occupied(s) PROVE crawler' = [crawler EXCEPT ![c] = v]
    <3>1. ~Idle(latch[s])
      BY <2>1 DEF Occupied, Idle
    <3> QED BY <3>1 DEF AcquireSegment, w, v
  <2>2. \A y \in {w, v} : crawler' = [crawler EXCEPT ![c] = y] => crawler'[c] = y
    BY DEF Inv, Types
  <2> QED BY <1>9, <2>1, <2>2
<1>11. /\ crawler' \in [Crawler -> WindowType] /\ crawler'[c] = x
       /\ \A d \in Crawler \ {c} : crawler'[d] = crawler[d]
  BY <1>7, <1>8, <1>9 DEF Inv, Types
<1>12. /\ x.lo <= x.hi /\ x.hi < NumSegments /\ x.can_continue /\ x.lo .. x.hi = Window(c) \cup {s}
       /\ crawler[c].threads2wait \subseteq x.threads2wait /\ (Occupied(s) => s \in x.threads2wait)
  BY <1>7, <1>8, <1>10
<1>13. /\ queue' \in [Segment -> Seq(QueueEntry)] /\ KeepsPromises
       /\ Occupied(s) => HasPromise(queue'[s])
  <2>1. CASE UNCHANGED queue /\ Idle(latch[s])
    BY <2>1 DEF Inv, Types, KeepsPromises, Occupied, Idle
  <2>2. CASE queue' = [queue EXCEPT ![s] = <<Entry("REBAL", Promise)>> \o @]
    <3>1. /\ Entry("REBAL", Promise) \in QueueEntry /\ Entry("REBAL", Promise).who = Promise
      BY DEF Entry, QueueEntry
    <3>2. queue[s] \in Seq(QueueEntry)
      BY <1>3 DEF Inv, Types
    <3> DEFINE e == Entry("REBAL", Promise)
               q == <<e>> \o queue[s]
    <3> HIDE DEF e
    <3>3. q \in Seq(QueueEntry) /\ HasPromise(q)
      BY <3>1, <3>2, Longer DEF e
    <3>4. queue' = [queue EXCEPT ![s] = q]
      BY <2>2 DEF e
    <3> HIDE DEF q
    <3>5. /\ queue' \in [Segment -> Seq(QueueEntry)] /\ queue'[s] = q
          /\ \A r \in Segment : r # s => queue'[r] = queue[r]
      BY <1>3, <3>3, <3>4 DEF Inv, Types
    <3> QED BY <3>3, <3>5 DEF KeepsPromises
  <2> QED BY <2>1, <2>2 DEF AcquireSegment
<1>14. Types'
  BY <1>1, <1>5, <1>6, <1>11, <1>13 DEF Inv, Types
<1>15. WordInv' /\ \A d \in Crawler \ {c} : CrawlerOf(d)'
  <2>1. \A r \in Segment : /\ latch'[r].writer = latch[r].writer /\ latch'[r].readers = latch[r].readers
                           /\ latch[r].invalid => latch'[r].invalid
                           /\ latch'[r].invalid => ~latch'[r].rebalancer
    BY <1>4, <1>5 DEF Inv, WordInv, WordOf
  <2> QED BY <1>1, <1>11, <2>1, CrawlerMoves
<1>16. OwnerInv'
  <2>1. Window(c)' = Window(c) \cup {s}
    BY <1>11, <1>12 DEF Window
  <2>2. \A r \in Segment : /\ latch'[r].rebalancer <=> latch[r].rebalancer \/ r \in {s}
                           /\ latch'[r].writer = latch[r].writer /\ latch'[r].readers = latch[r].readers
    BY <1>5
  <2>3. {s} \in SUBSET Segment /\ \A d \in Crawler : owner[s] # d
    BY <1>3, <1>4, Roles
  <2>4. /\ crawler'[c].can_continue /\ crawler[c].threads2wait \subseteq crawler'[c].threads2wait
        /\ \A r \in {s} : Occupied(r) => r \in crawler'[c].threads2wait /\ HasPromise(queue'[r])
    BY <1>11, <1>12, <1>13
  <2>5. \A d \in Crawler \ {c} :
          \/ crawler'[d] = crawler[d] /\ \A r \in {s} : owner[r] # d
          \/ ~crawler'[d].can_continue /\ \A r \in Segment : owner[r] = d => r \in {s}
    BY <1>11, <2>3
  <2> QED BY <1>2, <1>6, <1>13, <2>1, <2>2, <2>3, <2>4, <2>5, Taken
<1>17. CrawlerOf(c)'
  BY <1>1, <1>2, <1>11, <1>12 DEF CrawlerOf, Crawling
<1>18. DeletedInv'
  <2>1. \A r \in Segment : /\ latch'[r].invalid = latch[r].invalid
                           /\ owner'[r] = owner[r] \/ owner[r] = None \/ pc[owner[r]] # "spread"
    BY <1>4, <1>5, <1>6
  <2> QED BY <1>1, <1>11, <2>1, StaysDeleted
<1>19. OptimistInv'
  <2>1. VersionsGrow
    BY <1>4, <1>5, SameVersions DEF Inv
  <2> QED BY <1>1, <1>14, <2>1, Watched
<1> QED BY <1>14, <1>15, <1>16, <1>17, <1>18, <1>19 DEF Inv, CrawlerInv

LEMMA StopKeeps ==
  ASSUME Inv, NEW c \in Crawler, Crawl(c), NEW s \in NextSegments(c), StopCrawler(c, s)
  PROVE  Inv'
<1>1. /\ c \in Thread \ Optimist /\ pc[c] = "crawl" /\ Alone(c)
      /\ UNCHANGED <<latch, queue, requested, scheduled, leaf, pc, at, holds, version, woken, torn>>
  BY Roles DEF Crawl, StopCrawler, Alone
<1>2. CrawlerOf(c) /\ crawler[c].can_continue /\ leaf.active = c
  BY <1>1 DEF Inv, CrawlerInv, CrawlerOf
<1>3. /\ s \in Segment /\ s \notin Window(c)
      /\ s = crawler[c].hi + 1 \/ (s = crawler[c].lo - 1 /\ crawler[c].lo <= crawler[c].hi)
  BY <1>1, NextType
<1>4. \A r \in Segment : OwnerOf(r)
  BY DEF Inv, OwnerInv
<1>5. PICK other \in Crawler : other = owner[s]
  <2>1. owner[s] \in Crawler \cup {None} /\ latch[s].rebalancer
    BY <1>3 DEF Inv, Types, StopCrawler
  <2> QED BY <1>3, <1>4, <2>1 DEF OwnerOf
<1> DEFINE w == crawler[other]
<1>6. /\ w.can_be_stopped /\ w.can_continue /\ s \in Window(other) /\ other # c
      /\ w \in WindowType
  BY <1>2, <1>3, <1>4, <1>5 DEF OwnerOf, StopCrawler, Inv, Types
<1>7. CrawlerOf(other) /\ pc[other] \notin {"crawl", "drain", "spread"} /\ pc[other] \in Crawling
  <2>1. CrawlerOf(other)
    BY DEF Inv, CrawlerInv
  <2>2. pc[other] \notin {"crawl", "drain", "spread"}
    BY <1>2, <1>6, <2>1 DEF CrawlerOf
  <2>3. crawler[other] # NoWindow
    BY <1>6, NoWindowType DEF Window
  <2> QED BY <2>1, <2>2, <2>3 DEF CrawlerOf
<1>8. /\ w.lo \in Nat /\ w.hi \in Nat /\ w.lo <= w.hi /\ w.hi < NumSegments
      /\ w.lo <= s /\ s <= w.hi /\ s \in Int
  <2>1. s >= w.lo /\ s <= w.hi /\ s \in Int
    BY <1>6, InWindow
  <2>2. w.lo \in Nat /\ w.hi \in Int /\ w.hi < NumSegments
    BY <1>6, <1>7 DEF WindowType, CrawlerOf
  <2> HIDE DEF w
  <2> QED BY <2>1, <2>2
<1>9. \A r \in Window(other) : r \in Segment /\ owner[r] = other /\ r \notin Window(c)
  <2>1. \A r \in Window(other) : r \in Segment /\ owner[r] = other
    BY <1>6, InWindow
  <2> QED BY <1>2, <1>4, <1>6, <2>1 DEF OwnerOf
<1>10. \/ crawler[c].lo <= crawler[c].hi /\ (w.lo = crawler[c].hi + 1 \/ w.hi = crawler[c].lo - 1)
       \/ crawler[c].lo = 0 /\ crawler[c].hi = -1 /\ w.lo = 0
  <2> DEFINE lo == crawler[c].lo
             hi == crawler[c].hi
  <2>1. lo \in Nat /\ hi \in Int /\ (lo <= hi \/ (lo = 0 /\ hi = -1))
    BY <1>2 DEF CrawlerOf, Inv, Types, WindowType
  <2>2. \A r \in w.lo .. w.hi : r \notin lo .. hi
    BY <1>9 DEF Window
  <2>3. s = hi + 1 \/ (s = lo - 1 /\ lo <= hi)
    BY <1>3
  <2>4. s \notin lo .. hi
    BY <1>3 DEF Window
  <2> HIDE DEF lo, hi, w
  <2>5. CASE lo <= hi /\ s = hi + 1
    <3>1. hi \in lo .. hi
      BY <2>1, <2>5
    <3>2. hi \notin w.lo .. w.hi
      BY <2>2, <3>1
    <3>3. w.lo = hi + 1
      BY <1>8, <2>1, <2>5, <3>2
    <3> QED BY <2>5, <3>3 DEF lo, hi
  <2>6. CASE lo <= hi /\ s = lo - 1
    <3>1. lo \in lo .. hi
      BY <2>1, <2>6
    <3>2. lo \notin w.lo .. w.hi
      BY <2>2, <3>1
    <3>3. w.hi = lo - 1
      BY <1>8, <2>1, <2>6, <3>2
    <3> QED BY <2>6, <3>3 DEF lo, hi
  <2>7. CASE lo = 0 /\ hi = -1
    <3>1. w.lo = 0
      BY <1>8, <2>3, <2>7
    <3> QED BY <2>7, <3>1 DEF lo, hi
  <2> QED BY <2>1, <2>3, <2>5, <2>6, <2>7
<1> DEFINE u == Widened(c, w.lo, w.hi)
           v == [u EXCEPT !.threads2wait = crawler[c].threads2wait \cup w.threads2wait]
           w1 == [w EXCEPT !.can_continue = FALSE]
           w2 == [w1 EXCEPT !.threads2wait = {}]
<1>11. /\ u \in WindowType /\ u.lo .. u.hi = Window(c) \cup Window(other) /\ u.lo <= u.hi /\ u.hi < NumSegments
       /\ u.can_continue
  <2>1. crawler[c].hi < NumSegments
    BY <1>2 DEF CrawlerOf
  <2>2. /\ Widened(c, w.lo, w.hi) \in WindowType
        /\ Widened(c, w.lo, w.hi).lo .. Widened(c, w.lo, w.hi).hi = Window(c) \cup (w.lo .. w.hi)
        /\ Widened(c, w.lo, w.hi).lo <= Widened(c, w.lo, w.hi).hi /\ Widened(c, w.lo, w.hi).hi < NumSegments
        /\ Widened(c, w.lo, w.hi).can_continue = crawler[c].can_continue
    <3> HIDE DEF w
    <3> QED BY <1>8, <1>10, <2>1, WidenedBy DEF Inv
  <2> QED BY <1>2, <2>2 DEF Window
<1> HIDE DEF u
<1>12. /\ v \in WindowType /\ v.lo = u.lo /\ v.hi = u.hi /\ v.can_continue
       /\ v.threads2wait = crawler[c].threads2wait \cup w.threads2wait
  <2>1. crawler[c].threads2wait \cup w.threads2wait \in SUBSET Segment
    BY <1>6 DEF Inv, Types, WindowType
  <2> HIDE DEF w
  <2> QED BY <1>11, <2>1 DEF WindowType
<1>13. w2 \in WindowType /\ w2.lo = w.lo /\ w2.hi = w.hi /\ ~w2.can_continue /\ w2.removes = w.removes
  <2>1. w1 \in WindowType /\ w1.lo = w.lo /\ w1.hi = w.hi /\ ~w1.can_continue /\ w1.removes = w.removes
    <3> HIDE DEF w
    <3> QED BY <1>6 DEF WindowType
  <2> HIDE DEF w1
  <2> QED BY <2>1 DEF WindowType
<1>14. /\ crawler' \in [Crawler -> WindowType] /\ crawler'[c] = v /\ crawler'[other] = w2
       /\ \A d \in Crawler \ {c, other} : crawler'[d] = crawler[d]
  <2>1. crawler' = [[[crawler EXCEPT ![other].can_continue = FALSE] EXCEPT ![other].threads2wait = {}]
                      EXCEPT ![c] = v]
    BY <1>5 DEF StopCrawler, u
  <2> HIDE DEF v
  <2>2. crawler \in [Crawler -> WindowType]
    BY DEF Inv, Types
  <2> DEFINE f1 == [crawler EXCEPT ![other].can_continue = FALSE]
             f2 == [f1 EXCEPT ![other].threads2wait = {}]
  <2>3. f1 = [crawler EXCEPT ![other] = w1]
    OBVIOUS
  <2> HIDE DEF f1
  <2>4. /\ f1[other] = w1 /\ \A d \in Crawler \ {other} : f1[d] = crawler[d]
        /\ DOMAIN f1 = Crawler
    <3> HIDE DEF w1
    <3> QED BY <2>2, <2>3
  <2>5. f2 = [f1 EXCEPT ![other] = w2]
    BY <2>4
  <2> HIDE DEF w1, w2, f2
  <2>6. /\ f2[other] = w2 /\ \A d \in Crawler \ {other} : f2[d] = crawler[d]
        /\ DOMAIN f2 = Crawler /\ f2 = [d \in Crawler |-> f2[d]]
    BY <2>4, <2>5
  <2>7. crawler' = [f2 EXCEPT ![c] = v]
    BY <2>1 DEF f1, f2
  <2> QED BY <1>6, <1>12, <1>13, <2>2, <2>6, <2>7
<1> HIDE DEF v, w2
<1>15. owner' = [r \in Segment |-> IF r \in Window(other) THEN c ELSE owner[r]]
  BY <1>5 DEF StopCrawler, Window
<1>16. Types'
  <2>1. owner' \in [Segment -> Crawler \cup {None}]
    BY <1>15 DEF Inv, Types
  <2> QED BY <1>1, <1>14, <2>1 DEF Inv, Types
<1>17. KeepsPromises
  BY <1>1 DEF KeepsPromises
<1>18. OwnerInv'
  <2>1. Window(c)' = Window(c) \cup Window(other) /\ Window(other) \in SUBSET Segment
    BY <1>9, <1>11, <1>12, <1>14 DEF Window
  <2>2. \A d \in Crawler \ {c} :
          \/ crawler'[d] = crawler[d] /\ \A r \in Window(other) : owner[r] # d
          \/ ~crawler'[d].can_continue /\ \A r \in Segment : owner[r] = d => r \in Window(other)
    <3>1. \A r \in Segment : owner[r] = other => r \in Window(other)
      BY <1>4 DEF OwnerOf
    <3>2. ~crawler'[other].can_continue
      BY <1>13, <1>14
    <3> HIDE DEF w
    <3> QED BY <1>9, <1>14, <3>1, <3>2
  <2>3. \A r \in Segment : /\ latch'[r].rebalancer <=> latch[r].rebalancer \/ r \in Window(other)
                           /\ latch'[r].writer = latch[r].writer /\ latch'[r].readers = latch[r].readers
    BY <1>1, <1>6, InWindow
  <2>4. crawler'[c].can_continue /\ crawler[c].threads2wait \subseteq crawler'[c].threads2wait
    BY <1>12, <1>14
  <2>5. ASSUME NEW r \in Window(other), Occupied(r)
        PROVE  r \in crawler'[c].threads2wait /\ HasPromise(queue'[r])
    <3>1. OwnerOf(r) /\ owner[r] = other /\ other # None
      BY <1>4, <1>9, <2>5, Roles
    <3>2. r \in crawler[other].threads2wait /\ HasPromise(queue[r])
      BY <2>5, <3>1 DEF OwnerOf, Occupied
    <3> QED BY <1>1, <1>12, <1>14, <3>2
  <2> QED BY <1>2, <1>15, <1>17, <2>1, <2>2, <2>3, <2>4, <2>5, Taken
<1>19. WordInv' /\ \A d \in Crawler \ {c, other} : CrawlerOf(d)'
  <2>1. \A r \in Segment : /\ latch'[r].writer = latch[r].writer /\ latch'[r].readers = latch[r].readers
                           /\ latch[r].invalid => latch'[r].invalid
                           /\ latch'[r].invalid => ~latch'[r].rebalancer
    BY <1>1 DEF Inv, WordInv, WordOf
  <2> QED BY <1>1, <1>14, <2>1, CrawlerMoves
<1>20. CrawlerOf(c)'
  BY <1>1, <1>2, <1>11, <1>12, <1>14 DEF CrawlerOf, Crawling
<1>21. CrawlerOf(other)'
  <2>1. crawler'[other].lo = w.lo /\ crawler'[other].hi = w.hi
    BY <1>13, <1>14
  <2> HIDE DEF w
  <2> QED BY <1>1, <1>7, <1>8, <2>1 DEF CrawlerOf
<1>22. DeletedInv'
  <2>1. \A r \in Segment : owner'[r] = owner[r] \/ owner[r] = None \/ pc[owner[r]] # "spread"
    BY <1>7, <1>9, <1>15
  <2>2. \A d \in Crawler \ {c} : crawler'[d].removes = crawler[d].removes
    BY <1>13, <1>14
  <2> QED BY <1>1, <2>1, <2>2, StaysDeleted
<1>23. OptimistInv'
  <2>1. VersionsGrow
    BY <1>1, SameVersions DEF Inv
  <2> QED BY <1>1, <1>16, <2>1, Watched
<1> QED BY <1>16, <1>18, <1>19, <1>20, <1>21, <1>22, <1>23 DEF Inv, CrawlerInv

LEMMA WaitKeeps ==
  ASSUME Inv, NEW c \in Crawler, Crawl(c), NEW s \in NextSegments(c), WaitForCrawler(c, s)
  PROVE  Inv'
<1>1. /\ c \in Thread \ Optimist /\ pc[c] = "crawl" /\ s \in Segment
      /\ UNCHANGED <<latch, requested, scheduled, owner, crawler, holds, version, torn>>
  BY Roles, NextType DEF Crawl, WaitForCrawler
<1>2. /\ pc' \in [Thread -> Places] /\ at' \in [Thread -> Segment]
      /\ Alone(c) /\ pc'[c] = "behind"
  BY <1>1, MoveType DEF Inv, Places, Crawling, WaitForCrawler
<1>3. /\ leaf' \in [active : Crawler \cup {None}, queue : Seq(Crawler)] /\ leaf'.active = None
      /\ woken' \subseteq Thread
  BY LeaveLeafType DEF Inv, WaitForCrawler
<1>4. queue' \in [Segment -> Seq(QueueEntry)] /\ KeepsPromises
  <2>1. Entry("REBAL", c) \in QueueEntry
    BY <1>1 DEF Entry, QueueEntry
  <2> DEFINE e == Entry("REBAL", c)
             q == <<e>> \o queue[s]
  <2>2. queue[s] \in Seq(QueueEntry) /\ queue' = [queue EXCEPT ![s] = q]
    BY <1>1 DEF Inv, Types, WaitForCrawler
  <2> HIDE DEF e
  <2>3. q \in Seq(QueueEntry) /\ (HasPromise(queue[s]) => HasPromise(q))
    BY <2>1, <2>2, Longer DEF e
  <2> HIDE DEF q
  <2> QED BY <1>1, <2>2, <2>3 DEF Inv, Types, KeepsPromises
<1>5. Types'
  BY <1>1, <1>2, <1>3, <1>4 DEF Inv, Types, Places
<1>6. leaf.active = c /\ CrawlerOf(c)
  BY <1>1 DEF Inv, CrawlerInv, CrawlerOf
<1>7. CrawlerOf(c)'
  BY <1>1, <1>2, <1>6 DEF CrawlerOf, Crawling
<1>8. Window(c)' = Window(c)
  BY <1>1 DEF Window
<1> QED BY <1>1, <1>2, <1>4, <1>5, <1>6, <1>7, <1>8, CrawlerAlone

LEMMA CrawlKeeps ==
  ASSUME Inv, NEW c \in Crawler, Crawl(c)
  PROVE  Inv'
<1>1. PICK s \in NextSegments(c) :
        AcquireSegment(c, s) \/ StopCrawler(c, s) \/ WaitForCrawler(c, s) \/ FindDeleted(c, s)
  BY DEF Crawl
<1>2. CASE FindDeleted(c, s)
  <2>1. /\ pc[c] = "crawl" /\ Alone(c) /\ c \in Thread
        /\ UNCHANGED <<latch, queue, requested, scheduled, owner, leaf, crawler, pc, at>>
        /\ UNCHANGED <<holds, version, woken, torn>>
    BY <1>2, Roles DEF Crawl, FindDeleted, Alone
  <2>2. Types'
    BY <2>1 DEF Inv, Types
  <2>3. CrawlerOf(c)' /\ Window(c)' = Window(c)
    BY <2>1 DEF Inv, CrawlerInv, CrawlerOf, Window
  <2> QED BY <2>1, <2>2, <2>3, CrawlerAlone, SameQueues
<1> QED BY <1>1, <1>2, AcquireKeeps, StopKeeps, WaitKeeps

LEMMA DecideKeeps ==
  ASSUME Inv, NEW c \in Crawler, Decide(c)
  PROVE  Inv'
<1> DEFINE w == crawler[c]
           length == w.hi - w.lo + 1
<1>1. /\ c \in Thread \ Optimist /\ pc[c] = "crawl"
      /\ UNCHANGED <<latch, queue, requested, scheduled, owner, at, holds, version, torn>>
  BY Roles DEF Decide, segmentVars
<1>2. /\ CrawlerOf(c) /\ w.can_continue /\ leaf.active = c
      /\ w \in WindowType /\ w.lo \in Nat /\ w.hi \in Int /\ w.lo <= w.hi /\ w.hi < NumSegments
  <2>1. CrawlerOf(c) /\ w.can_continue /\ leaf.active = c /\ w.hi < NumSegments
    BY <1>1 DEF Inv, CrawlerInv, CrawlerOf
  <2>2. w \in WindowType /\ w.lo \in Nat /\ w.hi \in Int
    BY DEF Inv, Types, WindowType
  <2> QED BY <1>1, <2>1, <2>2, NextType DEF Decide
<1>3. CASE /\ crawler' = [crawler EXCEPT ![c].len = Min({2 * length, NumSegments})]
           /\ UNCHANGED <<leaf, pc, woken>>
  <2>1. Min({2 * length, NumSegments}) \in 1 .. NumSegments
    <3>1. NumSegments \in Nat /\ 1 <= NumSegments
      BY LeafAssumption
    <3>2. 2 * length \in Nat /\ 1 <= 2 * length
      <4> HIDE DEF w
      <4> QED BY <1>2
    <3> DEFINE S == {2 * length, NumSegments}
    <3>3. S \in SUBSET Nat /\ S # {}
      BY <3>1, <3>2
    <3> HIDE DEF length
    <3>4. Min(S) \in S /\ Min(S) <= NumSegments
      BY <3>3, MinNat
    <3> QED BY <3>1, <3>2, <3>4
  <2> DEFINE v == [w EXCEPT !.len = Min({2 * length, NumSegments})]
  <2>2. /\ v \in WindowType /\ v.lo = w.lo /\ v.hi = w.hi /\ v.can_continue = w.can_continue
        /\ v.threads2wait = w.threads2wait
    <3> DEFINE n == Min({2 * length, NumSegments})
    <3> HIDE DEF n, w
    <3> QED BY <1>2, <2>1 DEF WindowType, n
  <2>3. crawler' = [crawler EXCEPT ![c] = v]
    BY <1>3
  <2> HIDE DEF v, w
  <2>4. /\ crawler' \in [Crawler -> WindowType] /\ crawler'[c] = v
        /\ \A d \in Crawler \ {c} : crawler'[d] = crawler[d]
    BY <2>2, <2>3 DEF Inv, Types
  <2>5. Types' /\ Alone(c)
    BY <1>1, <1>3, <2>4 DEF Inv, Types, Alone
  <2>6. CrawlerOf(c)'
    BY <1>1, <1>2, <1>3, <2>2, <2>4 DEF CrawlerOf, Crawling
  <2>7. Window(c)' = Window(c)
    BY <2>2, <2>4 DEF Window, w
  <2> QED BY <1>1, <1>3, <2>2, <2>4, <2>5, <2>6, <2>7, CrawlerAlone, SameQueues DEF w
<1>4. CASE /\ \E removes \in {FALSE, length = NumSegments} :
                crawler' = [crawler EXCEPT ![c].can_be_stopped = FALSE, ![c].removes = removes]
           /\ LeaveLeaf(c)
           /\ pc' = [pc EXCEPT ![c] = "drain"]
  <2>1. PICK removes \in {FALSE, length = NumSegments} :
          crawler' = [crawler EXCEPT ![c].can_be_stopped = FALSE, ![c].removes = removes]
    BY <1>4
  <2> DEFINE w1 == [w EXCEPT !.can_be_stopped = FALSE]
             v == [w1 EXCEPT !.removes = removes]
  <2>2. /\ w1 \in WindowType /\ w1.lo = w.lo /\ w1.hi = w.hi /\ w1.can_continue = w.can_continue
        /\ w1.threads2wait = w.threads2wait /\ w1.can_be_stopped = FALSE
    <3> HIDE DEF w
    <3> QED BY <1>2, WindowUpdates
  <2>3. removes \in BOOLEAN /\ (removes => length = NumSegments)
    BY <2>1
  <2>4. crawler' = [crawler EXCEPT ![c] = v]
    <3> DEFINE f == [crawler EXCEPT ![c].can_be_stopped = FALSE]
    <3>1. f = [crawler EXCEPT ![c] = w1]
      OBVIOUS
    <3>2. crawler' = [f EXCEPT ![c].removes = removes]
      BY <2>1
    <3> HIDE DEF f, w1
    <3>3. crawler \in [Crawler -> WindowType]
      BY DEF Inv, Types
    <3> QED BY <3>1, <3>2, <3>3
  <2> HIDE DEF w1
  <2>5. /\ v \in WindowType /\ v.lo = w.lo /\ v.hi = w.hi /\ v.can_continue = w.can_continue
        /\ v.threads2wait = w.threads2wait /\ v.can_be_stopped = FALSE /\ v.removes = removes
    <3> HIDE DEF w, length
    <3> QED BY <2>2, <2>3 DEF WindowType
  <2> HIDE DEF v
  <2>6. /\ crawler' \in [Crawler -> WindowType] /\ crawler'[c] = v
        /\ \A d \in Crawler \ {c} : crawler'[d] = crawler[d]
    BY <2>4, <2>5 DEF Inv, Types
  <2>7. /\ pc' \in [Thread -> Places] /\ at' \in [Thread -> Segment]
        /\ Alone(c) /\ pc'[c] = "drain"
    BY <1>1, <1>4, MoveType DEF Inv, Places, Crawling
  <2>8. /\ leaf' \in [active : Crawler \cup {None}, queue : Seq(Crawler)]
        /\ woken' \subseteq Thread
    BY <1>4, LeaveLeafType DEF Inv
  <2>9. Types'
    BY <1>1, <2>6, <2>7, <2>8 DEF Inv, Types, Places
  <2>10. removes => w.hi = NumSegments - 1 /\ w.lo = 0
    <3>1. NumSegments \in Nat
      BY LeafAssumption
    <3>2. removes => w.hi - w.lo + 1 = NumSegments
      BY <2>3
    <3> HIDE DEF w
    <3> QED BY <1>2, <3>1, <3>2
  <2>11. 0 .. (0 - 1) = {}
    OBVIOUS
  <2>12. CrawlerOf(c)'
    <3>1. v.removes => v.hi = NumSegments - 1 /\ 0 .. (v.lo - 1) = {}
      BY <2>5, <2>10, <2>11
    <3> HIDE DEF w, length
    <3> QED BY <1>2, <2>5, <2>6, <2>7, <3>1 DEF CrawlerOf, Crawling
  <2>13. Window(c)' = Window(c)
    BY <2>5, <2>6 DEF Window
  <2> QED BY <1>1, <1>2, <2>5, <2>6, <2>7, <2>9, <2>12, <2>13, CrawlerAlone, SameQueues
<1> QED BY <1>3, <1>4 DEF Decide

\* Once the promises are kept, the window is empty of others.
LEMMA DrainedKeeps ==
  ASSUME Inv, NEW c \in Crawler, Drained(c)
  PROVE  Inv'
<1>1. /\ c \in Thread \ Optimist /\ pc[c] = "drain"
      /\ UNCHANGED <<latch, queue, requested, scheduled, owner, leaf, at, holds, version, woken>>
  BY Roles DEF Drained, segmentVars
<1>2. CrawlerOf(c) /\ crawler[c].can_continue
  BY <1>1 DEF Inv, CrawlerInv, CrawlerOf
<1>3. ASSUME NEW s \in Window(c)
      PROVE  s \in Segment /\ latch[s].rebalancer /\ ~Occupied(s) /\ ~latch[s].writer /\ latch[s].readers = 0
  <2>1. s \in Segment /\ owner[s] = c /\ latch[s].rebalancer
    BY <1>2, InWindow
  <2>2. OwnerOf(s) /\ c # None
    BY <2>1, Roles DEF Inv, OwnerInv
  <2>3. s \in crawler[c].threads2wait => ~HasPromise(queue[s])
    BY DEF Drained, HasPromise
  <2> QED BY <2>1, <2>2, <2>3 DEF OwnerOf, Occupied
<1>4. /\ pc' \in [Thread -> Places] /\ at' \in [Thread -> Segment]
      /\ Alone(c) /\ pc'[c] = "spread"
  BY <1>1, MoveType DEF Inv, Places, Crawling, Drained
<1> DEFINE w == crawler[c]
           v == [w EXCEPT !.threads2wait = {}]
<1>5. /\ v \in WindowType /\ v.lo = w.lo /\ v.hi = w.hi /\ v.can_continue = w.can_continue
      /\ v.can_be_stopped = w.can_be_stopped /\ v.removes = w.removes
  <2>1. w \in WindowType
    BY DEF Inv, Types
  <2> HIDE DEF w
  <2> QED BY <2>1 DEF WindowType
<1>6. crawler' = [crawler EXCEPT ![c] = v]
  BY DEF Drained
<1> HIDE DEF v
<1>7. /\ crawler' \in [Crawler -> WindowType] /\ crawler'[c] = v
      /\ \A d \in Crawler \ {c} : crawler'[d] = crawler[d]
  BY <1>5, <1>6 DEF Inv, Types
<1>8. /\ torn' \subseteq Optimist
      /\ \A t \in torn' \ torn : pc[t] = "reading" /\ latch[at[t]].rebalancer
  <2>1. torn' = torn \cup {t \in Optimist : pc[t] = "reading" /\ at[t] \in Window(c)}
    BY DEF Drained, Change, Window
  <2>2. torn \subseteq Optimist
    BY DEF Inv, Types
  <2> QED BY <1>3, <2>1, <2>2
<1>9. Types'
  BY <1>1, <1>4, <1>7, <1>8 DEF Inv, Types, Places
<1>10. Window(c)' = Window(c)
  BY <1>5, <1>7 DEF Window
<1>11. CrawlerOf(c)'
  <2>1. \A s \in Window(c)' : ~latch'[s].writer /\ latch'[s].readers = 0
    BY <1>1, <1>3, <1>10
  <2> QED BY <1>1, <1>2, <1>4, <1>5, <1>7, <2>1 DEF CrawlerOf, Crawling
<1>12. \A s \in Segment : /\ crawler'[c].can_continue /\ s \in Window(c)' <=>
                               crawler[c].can_continue /\ s \in Window(c)
                          /\ crawler[c].can_continue /\ s \in Window(c) /\ Occupied(s)
                               /\ s \in crawler[c].threads2wait => s \in crawler'[c].threads2wait
  BY <1>2, <1>3, <1>5, <1>7, <1>10
<1> QED BY <1>1, <1>4, <1>7, <1>8, <1>9, <1>11, <1>12, CrawlerAlone, SameQueues

\* The window's segments are released from the left.
LEMMA ExitKeeps ==
  ASSUME Inv, NEW c \in Crawler, AsyncRebalancerExit(c)
  PROVE  Inv'
<1> DEFINE w == crawler[c]
<1>1. PICK s : s = w.lo
  OBVIOUS
<1>2. /\ c \in Thread \ Optimist /\ pc[c] = "spread"
      /\ UNCHANGED <<scheduled, leaf, at, holds, version, torn>>
  BY Roles DEF AsyncRebalancerExit
<1>3. /\ CrawlerOf(c) /\ w.can_continue /\ w.lo <= w.hi /\ w \in WindowType
      /\ w.lo \in Nat /\ w.hi \in Int /\ w.hi < NumSegments /\ w.removes \in BOOLEAN
  <2>1. CrawlerOf(c) /\ w \in WindowType
    BY DEF Inv, CrawlerInv, Types
  <2> QED BY <1>2, <2>1 DEF CrawlerOf, WindowType
<1>4. /\ s \in Nat /\ s \in Segment /\ s \in Window(c) /\ s <= w.hi
      /\ owner[s] = c /\ latch[s].rebalancer /\ ~latch[s].invalid
  <2>1. s \in Window(c) /\ s \in Nat /\ s <= w.hi
    BY <1>1, <1>3 DEF Window
  <2> QED BY <1>3, <2>1, InWindow
<1>5. \A r \in Window(c) : /\ r \in Segment /\ owner[r] = c /\ ~Occupied(r)
                           /\ ~latch[r].writer /\ latch[r].readers = 0 /\ r \in Int /\ s <= r /\ r <= w.hi
  <2>1. \A r \in Window(c) : /\ r \in Segment /\ owner[r] = c /\ r \in Int /\ s <= r /\ r <= w.hi
    BY <1>1, <1>3, InWindow
  <2> QED BY <1>2, <1>3, <2>1 DEF CrawlerOf, Occupied
<1> DEFINE bumped == Bumped(latch[s])
           word == [bumped EXCEPT !.rebalancer = FALSE, !.invalid = w.removes]
           list == Take(queue[s], Len(queue[s]))
<1>6. latch[s] \in SegmentWord /\ queue[s] \in Seq(QueueEntry) /\ latch[s].version \in Nat
  BY <1>4, WordType DEF Inv
<1>7. /\ word \in SegmentWord /\ word.writer = latch[s].writer /\ word.readers = latch[s].readers
      /\ ~word.rebalancer /\ word.invalid = w.removes /\ word.version = latch[s].version + 1
  <2>1. /\ bumped \in SegmentWord /\ bumped.version = latch[s].version + 1
        /\ bumped.writer = latch[s].writer /\ bumped.readers = latch[s].readers
    BY <1>6, BumpedWord
  <2> HIDE DEF bumped, w
  <2> QED BY <1>3, <2>1 DEF SegmentWord
<1>8. list.left \in Seq(QueueEntry) /\ list.woken \subseteq Thread \cup {Promise}
  <2>1. Len(queue[s]) \in 0 .. Len(queue[s])
    BY <1>6
  <2> QED BY <1>6, <2>1, TakeType
<1>9. Hand(s, word, list, c)
  BY <1>1 DEF AsyncRebalancerExit
<1> HIDE DEF bumped, word, list
<1>10. /\ latch' \in [Segment -> SegmentWord] /\ queue' \in [Segment -> Seq(QueueEntry)]
       /\ woken' \subseteq Thread /\ latch'[s] = word
       /\ \A r \in Segment : r # s => latch'[r] = latch[r] /\ queue'[r] = queue[r]
  BY <1>4, <1>7, <1>8, <1>9, HandType DEF Inv
<1>11. /\ owner' \in [Segment -> Crawler \cup {None}] /\ owner'[s] = None
       /\ \A r \in Segment : r # s => owner'[r] = owner[r]
  <2>1. owner' = [owner EXCEPT ![s] = None]
    BY <1>1 DEF AsyncRebalancerExit
  <2> QED BY <1>4, <2>1 DEF Inv, Types
<1> DEFINE v == IF s < w.hi THEN [w EXCEPT !.lo = s + 1] ELSE NoWindow
<1>12. /\ crawler' = [crawler EXCEPT ![c] = v]
       /\ IF s < w.hi THEN UNCHANGED pc ELSE pc' = [pc EXCEPT ![c] = "idle"]
  BY <1>1 DEF AsyncRebalancerExit
<1>13. /\ v \in WindowType /\ v.can_continue
       /\ s < w.hi => v.lo = s + 1 /\ v.hi = w.hi /\ v.removes = w.removes
                      /\ v.can_be_stopped = w.can_be_stopped
  <2> HIDE DEF w
  <2> DEFINE n == s + 1
  <2>1. n \in Nat
    BY <1>4
  <2> HIDE DEF n
  <2>2. /\ [w EXCEPT !.lo = n] \in WindowType /\ [w EXCEPT !.lo = n].lo = n
        /\ [w EXCEPT !.lo = n].hi = w.hi /\ [w EXCEPT !.lo = n].can_continue = w.can_continue
        /\ [w EXCEPT !.lo = n].removes = w.removes
        /\ [w EXCEPT !.lo = n].can_be_stopped = w.can_be_stopped
    <3>1. w \in WindowType
      BY <1>3
    <3>2. \A x \in Nat : /\ [w EXCEPT !.lo = x] \in WindowType
                         /\ [w EXCEPT !.lo = x].lo = x /\ [w EXCEPT !.lo = x].hi = w.hi
                         /\ [w EXCEPT !.lo = x].can_continue = w.can_continue
                         /\ [w EXCEPT !.lo = x].can_be_stopped = w.can_be_stopped
                         /\ [w EXCEPT !.lo = x].removes = w.removes
      BY <3>1, WindowUpdates
    <3> QED BY <2>1, <3>2, Zenon
  <2> QED BY <1>3, <2>2, NoWindowType DEF n
<1> HIDE DEF v
<1>14. /\ crawler' \in [Crawler -> WindowType] /\ crawler'[c] = v
       /\ \A d \in Crawler \ {c} : crawler'[d] = crawler[d]
  BY <1>12, <1>13 DEF Inv, Types
<1>15. v.lo .. v.hi = Window(c) \ {s}
  <2>1. Window(c) = s .. w.hi
    BY <1>1 DEF Window
  <2> HIDE DEF w
  <2>2. CASE s < w.hi
    <3>1. s + 1 .. w.hi = (s .. w.hi) \ {s}
      BY <1>3, <1>4
    <3> QED BY <1>13, <2>1, <2>2, <3>1
  <2>3. CASE ~(s < w.hi)
    <3>1. s .. w.hi = {s}
      BY <1>3, <1>4, <2>3
    <3>2. v = NoWindow
      BY <2>3 DEF v
    <3>3. (s .. w.hi) \ {s} = {}
      BY <3>1
    <3> QED BY <2>1, <3>2, <3>3, NoWindowType
  <2> QED BY <2>2, <2>3
<1>16. Window(c)' = Window(c) \ {s}
  BY <1>14, <1>15 DEF Window
<1>17. /\ pc' \in [Thread -> Places] /\ Alone(c) /\ pc'[c] = IF s < w.hi THEN "spread" ELSE "idle"
  <2>1. pc' \in [Thread -> Places] /\ pc'[c] = IF s < w.hi THEN "spread" ELSE "idle"
    BY <1>2, <1>12 DEF Inv, Types, Places
  <2>2. Alone(c)
    BY <1>2, <1>12 DEF Alone, Inv, Types
  <2> QED BY <2>1, <2>2
<1>18. Types'
  <2>1. requested' \subseteq Segment
    BY DEF AsyncRebalancerExit, Inv, Types
  <2> QED BY <1>2, <1>10, <1>11, <1>14, <1>17, <2>1 DEF Inv, Types, Places
<1>19. WordInv' /\ \A d \in Crawler \ {c} : CrawlerOf(d)'
  <2>1. \A r \in Segment : /\ latch'[r].writer = latch[r].writer /\ latch'[r].readers = latch[r].readers
                           /\ latch[r].invalid => latch'[r].invalid
                           /\ latch'[r].invalid => ~latch'[r].rebalancer
    BY <1>4, <1>7, <1>10 DEF Inv, WordInv, WordOf
  <2>2. pc[c] # "writing" /\ pc'[c] # "writing"
    BY <1>2, <1>17
  <2> QED BY <1>2, <1>14, <1>17, <2>1, <2>2, CrawlerMoves
<1>20. OwnerInv'
  <2>1. ASSUME NEW r \in Segment PROVE OwnerOf(r)'
    <3>1. OwnerOf(r) /\ OwnerOf(s)
      BY <1>4 DEF Inv, OwnerInv
    <3>2. ASSUME NEW d \in Crawler PROVE owner'[r] = d <=> crawler'[d].can_continue /\ r \in Window(d)'
      <4>1. CASE d = c
        BY <1>3, <1>11, <1>13, <1>14, <1>16, <3>1, <4>1, Roles DEF OwnerOf
      <4>2. CASE d # c
        <5>1. Window(d)' = Window(d) /\ crawler'[d] = crawler[d]
          BY <1>14, <4>2 DEF Window
        <5> QED BY <1>4, <1>11, <3>1, <4>2, <5>1, Roles DEF OwnerOf
      <4> QED BY <4>1, <4>2
    <3>3. /\ latch'[r].rebalancer <=> owner'[r] # None
          /\ owner'[r] # None /\ ~(~latch'[r].writer /\ latch'[r].readers = 0) =>
               r \in crawler'[owner'[r]].threads2wait /\ HasPromise(queue'[r])
      <4>1. CASE r = s
        BY <1>7, <1>10, <1>11, <4>1
      <4>2. CASE r # s /\ owner[r] = c
        <5>1. r \in Window(c)
          BY <3>1, <4>2 DEF OwnerOf
        <5> QED BY <1>5, <1>10, <1>11, <3>1, <4>2, <5>1 DEF OwnerOf
      <4>3. CASE r # s /\ owner[r] # c
        <5>1. owner[r] # None => crawler'[owner[r]] = crawler[owner[r]]
          BY <1>14, <4>3 DEF Inv, Types
        <5> QED BY <1>10, <1>11, <3>1, <4>3, <5>1 DEF OwnerOf
      <4> QED BY <4>1, <4>2, <4>3
    <3> QED BY <3>2, <3>3 DEF OwnerOf
  <2> QED BY <2>1 DEF OwnerInv
<1>21. w.removes => w.hi = NumSegments - 1 /\ \A r \in 0 .. (s - 1) : latch[r].invalid
  BY <1>1, <1>2, <1>3 DEF CrawlerOf
<1>22. w.removes => \A r \in 0 .. s : latch'[r].invalid
  <2>1. ASSUME w.removes, NEW r \in 0 .. s PROVE latch'[r].invalid
    <3>1. r \in Int /\ 0 <= r /\ r <= s
      BY <1>4
    <3>2. CASE r = s
      BY <1>7, <1>10, <2>1, <3>2
    <3>3. CASE r # s
      <4>1. r \in 0 .. (s - 1)
        BY <1>4, <3>1, <3>3
      <4>2. r \in Segment
        BY <1>4, <3>1, LeafAssumption DEF Segment
      <4> QED BY <1>10, <1>21, <2>1, <3>3, <4>1, <4>2
    <3> QED BY <3>2, <3>3
  <2> QED BY <2>1
<1>23. CrawlerOf(c)'
  <2>1. CASE s < w.hi
    <3>1. \A r \in Window(c)' : ~latch'[r].writer /\ latch'[r].readers = 0
      BY <1>5, <1>10, <1>16
    <3>2. s + 1 - 1 = s /\ s + 1 <= w.hi
      BY <1>3, <1>4, <2>1
    <3>3. v.removes => v.hi = NumSegments - 1 /\ \A r \in 0 .. (v.lo - 1) : latch'[r].invalid
      <4>1. v.removes = w.removes /\ v.hi = w.hi /\ v.lo - 1 = s
        <5> HIDE DEF w
        <5>1. v.removes = w.removes /\ v.hi = w.hi /\ v.lo = s + 1
          BY <1>13, <2>1
        <5>2. \A x : x = s + 1 => x - 1 = s
          BY <1>4
        <5> QED BY <5>1, <5>2
      <4> QED BY <1>21, <1>22, <4>1
    <3>4. ~w.can_be_stopped
      BY <1>2, <1>3 DEF CrawlerOf
    <3> HIDE DEF w
    <3> QED BY <1>3, <1>13, <1>14, <1>17, <2>1, <3>1, <3>2, <3>3, <3>4 DEF CrawlerOf, Crawling
  <2>2. CASE ~(s < w.hi)
    <3>1. v = NoWindow
      BY <2>2 DEF v
    <3> QED BY <1>14, <1>17, <2>2, <3>1, NoWindowType DEF CrawlerOf, Crawling
  <2> QED BY <2>1, <2>2
<1>24. DeletedInv'
  <2>1. CASE w.removes
    <3>1. ASSUME NEW r \in Segment
          PROVE  latch'[r].invalid \/ (owner'[r] # None /\ pc'[owner'[r]] = "spread" /\ crawler'[owner'[r]].removes)
      <4>1. r \in Int /\ 0 <= r /\ r <= NumSegments - 1
        BY LeafAssumption DEF Segment
      <4>2. CASE r <= s
        <5>1. r \in 0 .. s
          BY <1>4, <4>1, <4>2
        <5> QED BY <1>22, <2>1, <5>1
      <4>3. CASE r > s
        <5>1. w.hi = NumSegments - 1
          BY <1>21, <2>1
        <5>2. r \in w.lo .. w.hi /\ r # s /\ s < w.hi
          <6> HIDE DEF w
          <6> QED BY <1>1, <1>3, <1>4, <4>1, <4>3, <5>1
        <5>3. r \in Window(c)
          BY <5>2 DEF Window
        <5>4. owner'[r] = c
          BY <1>5, <1>11, <5>2, <5>3
        <5> QED BY <1>13, <1>14, <1>17, <2>1, <5>2, <5>4, Roles
      <4> QED BY <1>4, <4>1, <4>2, <4>3
    <3> QED BY <3>1 DEF DeletedInv
  <2>2. CASE ~w.removes
    <3>1. ~latch'[s].invalid
      BY <1>7, <1>10, <2>2
    <3>2. \A r \in Segment : latch[r].invalid => FALSE
      BY <1>4, <2>2 DEF Inv, DeletedInv
    <3>3. \A r \in Segment : ~latch'[r].invalid
      BY <1>10, <3>1, <3>2
    <3> QED BY <3>3 DEF DeletedInv
  <2> QED BY <2>1, <2>2
<1>25. OptimistInv'
  <2>1. VersionsGrow
    <3>1. ASSUME NEW r \in Segment
          PROVE  /\ latch'[r].version >= latch[r].version
                 /\ latch[r].writer \/ latch[r].rebalancer =>
                      latch'[r].writer \/ latch'[r].rebalancer \/ latch'[r].version > latch[r].version
      <4>1. latch[r].version \in Nat
        BY WordType DEF Inv
      <4>2. CASE r = s
        BY <1>7, <1>10, <4>1, <4>2
      <4>3. CASE r # s
        BY <1>10, <4>1, <4>3
      <4> QED BY <4>2, <4>3
    <3> QED BY <3>1 DEF VersionsGrow
  <2> QED BY <1>2, <1>17, <1>18, <2>1, Watched
<1> QED BY <1>18, <1>19, <1>20, <1>23, <1>24, <1>25 DEF Inv, CrawlerInv

----------------------------------------------------------------------------
(* The theorems. *)

LEMMA InitInv == Init => Inv
<1> SUFFICES ASSUME Init PROVE Inv
  OBVIOUS
<1>1. \A s : Latches(s) = {} /\ Writing(s) = {}
  <2>1. \A t \in Reader : holds[t] = <<>> /\ Len(holds[t]) = 0 /\ 1 .. 0 = {}
    BY DEF Init
  <2>2. \A t \in Thread : pc[t] # "writing"
    BY DEF Init
  <2> QED BY <2>1, <2>2 DEF Latches, Writing
<1>2. /\ \A s \in Segment : latch[s] = [writer |-> FALSE, rebalancer |-> FALSE, readers |-> 0,
                                        version |-> 0, invalid |-> FALSE]
      /\ \A s \in Segment : owner[s] = None
      /\ \A c \in Crawler : crawler[c] = NoWindow
      /\ \A t \in Thread : pc[t] = "idle"
  BY DEF Init
<1>3. Types
  <2>1. [writer |-> FALSE, rebalancer |-> FALSE, readers |-> 0, version |-> 0, invalid |-> FALSE] \in SegmentWord
    BY DEF SegmentWord
  <2>2. latch \in [Segment -> SegmentWord]
    BY <2>1 DEF Init
  <2>3. crawler \in [Crawler -> WindowType]
    BY NoWindowType DEF Init
  <2>4. requested \subseteq Segment /\ scheduled \subseteq Segment
    BY LeafAssumption DEF Init
  <2>5. leaf \in [active : Crawler \cup {None}, queue : Seq(Crawler)]
    BY DEF Init
  <2>6. 0 \in Segment
    BY NoWindowType
  <2> HIDE DEF Segment
  <2> QED BY <2>2, <2>3, <2>4, <2>5, <2>6 DEF Init, Types
<1>4. WordInv
  <2>1. IsFiniteSet({}) /\ Cardinality({}) = 0
    BY FS_EmptySet
  <2>2. ASSUME NEW s \in Segment PROVE WordOf(s)
    <3> HIDE DEF Latches, Writing
    <3> QED BY <1>1, <1>2, <2>1 DEF WordOf
  <2> QED BY <2>2 DEF WordInv
<1>5. OwnerInv
  BY <1>2, NoWindowType, Roles DEF OwnerInv, OwnerOf, Window
<1>6. CrawlerInv
  BY <1>2, NoWindowType, Roles DEF CrawlerInv, CrawlerOf, Crawling
<1>7. DeletedInv
  BY <1>2 DEF DeletedInv
<1>8. OptimistInv
  BY Roles DEF Init, OptimistInv, OptimistOf
<1> QED BY <1>3, <1>4, <1>5, <1>6, <1>7, <1>8 DEF Inv

LEMMA NextInv == Inv /\ [Next]_vars => Inv'
<1> SUFFICES ASSUME Inv, [Next]_vars PROVE Inv'
  OBVIOUS
<1>1. CASE UNCHANGED vars
  <2>1. UNCHANGED <<latch, queue, requested, owner, scheduled, leaf, crawler, pc, at, holds, version, woken, torn>>
    BY <1>1 DEF vars, segmentVars, crawlVars
  <2>2. Types' /\ OwnerInv' /\ DeletedInv'
    BY <2>1 DEF Inv, Types, OwnerInv, OwnerOf, Window, DeletedInv
  <2>3. CrawlerInv' /\ OptimistInv'
    BY <2>1 DEF Inv, CrawlerInv, CrawlerOf, Window, OptimistInv, OptimistOf
  <2>4. WordInv'
    <3>1. \A s : Writing(s)' = Writing(s) /\ Latches(s)' = Latches(s)
      BY <2>1 DEF Writing, Latches
    <3> HIDE DEF Writing, Latches
    <3> QED BY <2>1, <3>1 DEF Inv, WordInv, WordOf
  <2> QED BY <2>2, <2>3, <2>4 DEF Inv
<1>2. CASE Next
  <2>1. PICK t \in Thread :
          Call(t) \/ Inside(t) \/ RequestAsyncRebalance(t) \/ (t \in Merger /\ Lock2Merge(t))
    BY <1>2 DEF Next
  <2>2. CASE Call(t)
    <3>1. PICK s \in Target[t] :
            \/ t \in Reader   /\ ReaderEnter(t, s)
            \/ t \in Writer   /\ WriterEnter(t, s)
            \/ t \in Optimist /\ OptimisticEnter(t, s)
            \/ t \in Service  /\ AsyncRebalancerEnter(t, s)
            \/ t \in Merger   /\ Prune(t, s)
      BY <2>2 DEF Call
    <3>2. s \in Segment
      BY <3>1, CallAssumption
    <3> QED BY <3>1, <3>2, ReaderEnterKeeps, WriterEnterKeeps, OptimisticEnterKeeps,
               AsyncRebalancerEnterKeeps, PruneKeeps
  <2>3. CASE Inside(t)
    BY <2>3, ReaderExitKeeps, ValidateKeeps, WriterExitKeeps, LeafXlockKeeps, CrawlKeeps, DecideKeeps,
       DrainedKeeps, ExitKeeps DEF Inside
  <2>4. CASE RequestAsyncRebalance(t)
    BY <2>4, RequestKeeps
  <2>5. CASE t \in Merger /\ Lock2Merge(t)
    BY <2>5, Lock2MergeKeeps
  <2> QED BY <2>1, <2>2, <2>3, <2>4, <2>5
<1> QED BY <1>1, <1>2

\* The parts of Inv hold in every reachable state, however many threads scan, update, rebalance and merge
\* (segment.cpp, crawler.cpp).
THEOREM Invariance == Spec => []Inv
<1>1. Init => Inv
  BY InitInv
<1>2. Inv /\ [Next]_vars => Inv'
  BY NextInv
<1> QED BY <1>1, <1>2, PTL DEF Spec

\* The variables keep their types; a crawler's window is one stretch of segments that it owns, and a service
\* thread never meets a deleted segment (crawler.cpp 319-327).
THEOREM Typing == Spec => []TypeOK
<1>1. Inv => TypeOK
  <2> SUFFICES ASSUME Inv PROVE TypeOK
    OBVIOUS
  <2>1. \A s \in Segment : queue[s] \in
          Seq([purpose : {"READ", "WRITE", "FREE", "REBAL"}, who : Thread \cup {Promise}])
    BY DEF Inv, Types, QueueEntry
  <2>2. ASSUME NEW c \in Crawler, crawler[c].can_continue, NEW s \in crawler[c].lo .. crawler[c].hi
        PROVE  owner[s] = c /\ latch[s].rebalancer
    BY <2>2, InWindow DEF Window
  <2>3. ASSUME NEW c \in Service, pc[c] = "crawl", NEW s \in NextSegments(c)
        PROVE  ~latch[s].invalid
    <3>1. c \in Crawler
      BY Roles
    <3>2. CrawlerOf(c)
      BY <3>1 DEF Inv, CrawlerInv
    <3>3. crawler[c].can_continue /\ crawler[c].lo <= crawler[c].hi
      BY <2>3, <3>2 DEF CrawlerOf, Crawling
    <3>4. crawler[c].lo \in Window(c)
      <4>1. crawler[c].lo \in Nat /\ crawler[c].hi \in Int
        BY <3>1 DEF Inv, Types, WindowType
      <4> QED BY <3>3, <4>1 DEF Window
    <3>5. PICK r \in Segment : owner[r] = c /\ latch[r].rebalancer /\ ~latch[r].invalid
      BY <3>1, <3>3, <3>4, InWindow
    <3>6. s \in Segment
      BY <2>3, <3>1, NextType
    <3> QED BY <2>3, <3>5, <3>6 DEF Inv, DeletedInv
  <2>4. /\ latch \in [Segment -> [writer : BOOLEAN, rebalancer : BOOLEAN, readers : Nat,
                                  version : Nat, invalid : BOOLEAN]]
        /\ requested \subseteq Segment /\ scheduled \subseteq Segment
        /\ owner \in [Segment -> Crawler \cup {None}]
        /\ leaf.active \in Crawler \cup {None} /\ leaf.queue \in Seq(Crawler)
        /\ at \in [Thread -> Segment] /\ holds \in [Reader -> Seq(Segment)]
        /\ woken \subseteq Thread
    BY DEF Inv, Types, SegmentWord
  <2>5. pc \in [Thread -> {"idle", "asleep", "retry", "reading", "writing", "leaf", "leafqueue",
                           "behind", "crawl", "drain", "spread"}]
    BY DEF Inv, Types, Crawling
  <2> HIDE DEF Segment, NextSegments
  <2> QED BY <2>1, <2>2, <2>3, <2>4, <2>5 DEF TypeOK
<1> QED BY <1>1, Invariance, PTL

\* Who writes in a segment, or moves its elements, is alone in it, whatever crawlers take over from each other;
\* and what an optimistic reader validates nobody has changed (segment.cpp, crawler.cpp 275-345).
THEOREM Access == Spec => []SoleAccess
<1>1. Inv => SoleAccess
  <2> SUFFICES ASSUME Inv PROVE SoleAccess
    OBVIOUS
  <2>1. ASSUME NEW s \in Segment, Writing(s) \cup Moving(s) # {}
        PROVE  Cardinality(Writing(s) \cup Moving(s)) = 1 /\ Reading(s) = {}
    <3>1. WordOf(s) /\ latch[s].readers \in Nat
      BY WordType DEF Inv, WordInv
    <3>2. \A c \in Moving(s) : /\ c \in Crawler /\ owner[s] = c
                               /\ ~latch[s].writer /\ latch[s].readers = 0
      <4>1. ASSUME NEW c \in Moving(s)
            PROVE  /\ c \in Crawler /\ owner[s] = c
                   /\ ~latch[s].writer /\ latch[s].readers = 0
        <5>1. c \in Crawler /\ pc[c] = "spread" /\ s \in Window(c)
          BY DEF Moving, Window
        <5>2. CrawlerOf(c)
          BY <5>1 DEF Inv, CrawlerInv
        <5>3. crawler[c].can_continue /\ ~latch[s].writer /\ latch[s].readers = 0
          BY <5>1, <5>2 DEF CrawlerOf
        <5> QED BY <5>1, <5>3, InWindow
      <4> QED BY <4>1
    <3>3. latch[s].readers = 0
      BY <2>1, <3>1, <3>2 DEF WordOf
    <3>4. PICK t : Writing(s) \cup Moving(s) = {t}
      <4>1. \A t, u \in Writing(s) \cup Moving(s) : t = u
        <5> HIDE DEF Writing, Moving
        <5> QED BY <3>1, <3>2 DEF WordOf
      <4> HIDE DEF Writing, Moving
      <4>2. PICK t : t \in Writing(s) \cup Moving(s)
        BY <2>1
      <4> QED BY <4>1, <4>2
    <3>5. Cardinality(Writing(s) \cup Moving(s)) = 1
      BY <3>4, FS_Singleton
    <3>6. Latches(s) = {}
      <4>1. IsFiniteSet(Latches(s)) /\ Cardinality(Latches(s)) = 0
        BY <3>1, <3>3 DEF WordOf
      <4> HIDE DEF Latches
      <4> QED BY <4>1, FS_EmptySet
    <3>7. Reading(s) = {}
      <4>1. ASSUME NEW r \in Reader, NEW i \in DOMAIN holds[r], holds[r][i] = s PROVE FALSE
        <5> DEFINE n == Len(holds[r])
                   p == n + 1 - i
        <5>1. n \in Nat /\ i \in 1 .. n
          BY DEF Inv, Types
        <5>2. p \in 1 .. n /\ p \in Nat /\ n + 1 - p = i
          <6> HIDE DEF n
          <6> QED BY <5>1
        <5> HIDE DEF p
        <5>3. <<r, p>> \in Latches(s)
          BY <4>1, <5>2 DEF Latches, n
        <5> QED BY <3>6, <5>3
      <4> QED BY <4>1 DEF Reading
    <3> QED BY <3>5, <3>7
  <2>2. \A t \in torn : pc[t] = "reading"
    BY DEF Inv, Types, OptimistInv, OptimistOf
  <2> HIDE DEF Writing, Moving, Reading
  <2> QED BY <2>1, <2>2 DEF SoleAccess
<1> QED BY <1>1, Invariance, PTL

=============================================================================
