--------------------------- MODULE TeseoSegments ---------------------------
(***************************************************************************)
(* The latches of the segments of one leaf of Teseo (segment.cpp), and the *)
(* crawlers that widen a window of segments to rebalance it or take the    *)
(* whole leaf to merge it (crawler.cpp).                                   *)
(*                                                                         *)
(* A latch is a word and a queue of sleepers.  Whoever changes both holds  *)
(* the word's MASK_XLOCK, for which the others spin, so each such change   *)
(* is one step here, as is each compare-and-swap of the word alone; a      *)
(* thread wakes those it took off the queue with that step.  A promise is  *)
(* a thread in `woken', or, for a crawler that waits for the occupants of  *)
(* the segments it took, the entry `Promise' in their queues.              *)
(*                                                                         *)
(* Left open: the order of segments a thread enters (its keys decide), how *)
(* dense a window is, whether a segment is dirty, and m_time_last_rebal.   *)
(***************************************************************************)
EXTENDS Integers, Sequences, FiniteSets, FiniteSetsExt

CONSTANTS Reader,          \* threads that scan under a latch
          Writer,          \* threads that update
          Optimist,        \* threads that read without a latch and validate
          Service,         \* threads that serve requests to rebalance
          Merger,          \* the thread that prunes and merges
          NumSegments,     \* segments of the leaf
          Full,            \* segments with a request to rebalance at the start
          MaxNest,         \* latches a reader may hold at once: 1 without nested iterators
          MaxCalls,        \* bound: calls of each thread
          Target,          \* bound: the segments each thread enters
          None, Promise

Crawler == Service \cup Merger
Thread  == Reader \cup Writer \cup Optimist \cup Crawler
Segment == 0 .. NumSegments - 1

ASSUME LeafAssumption == NumSegments \in Nat \ {0, 1} /\ Full \subseteq Segment
ASSUME CallAssumption ==
  /\ MaxCalls \in [Thread -> Nat] /\ MaxNest \in Nat \ {0}
  /\ Target \in [Thread -> SUBSET Segment]
\* A thread has one role here.
ASSUME RolesAssumption ==
  /\ (Reader \cap Writer) \cup ((Reader \cup Writer) \cap Optimist) = {}
  /\ ((Reader \cup Writer \cup Optimist) \cap Crawler) \cup (Service \cap Merger) = {}
  /\ None \notin Thread /\ Promise \notin Thread

VARIABLES latch,           \* m_latch of each segment
          queue,           \* m_queue of each segment
          requested,       \* the segments with FLAG_REBAL_REQUESTED
          scheduled,       \* the segments a service thread has yet to look at
          owner,           \* m_crawler of each segment
          leaf,            \* m_active (who set it) and m_queue of the leaf
          crawler,         \* each crawler's window and state
          pc, at,          \* where each thread is, and in which segment
          holds,           \* the latches each reader holds, the last one first
          version,         \* m_version of each optimistic reader
          woken,           \* threads whose promise is kept
          calls,           \* calls each thread has made
          terminated,      \* an exception nobody catches has ended the process
          torn             \* history: optimistic readers whose segment changed as they read

segmentVars == <<latch, queue, requested, owner>>
crawlVars   == <<leaf, crawler>>
vars == <<segmentVars, scheduled, crawlVars, pc, at, holds, version, woken, calls, terminated, torn>>

NoWindow == [seg |-> 0, lo |-> 0, hi |-> -1, len |-> 2, can_continue |-> TRUE,
             can_be_stopped |-> FALSE, threads2wait |-> {}, removes |-> FALSE]

Init ==
  /\ latch = [s \in Segment |-> [writer |-> FALSE, rebalancer |-> FALSE,
                                 readers |-> 0, version |-> 0, invalid |-> FALSE]]
  /\ queue = [s \in Segment |-> <<>>]
  /\ requested = Full /\ scheduled = Full
  /\ owner = [s \in Segment |-> None]
  /\ leaf = [active |-> None, queue |-> <<>>]
  /\ crawler = [c \in Crawler |-> NoWindow]
  /\ pc = [t \in Thread |-> "idle"]
  /\ at = [t \in Thread |-> 0]
  /\ holds = [t \in Reader |-> <<>>]
  /\ version = [t \in Optimist |-> 0]
  /\ woken = {} /\ torn = {}
  /\ calls = [t \in Thread |-> 0]
  /\ terminated = FALSE

-----------------------------------------------------------------------------
(* The queue of a latch. *)

Entry(purpose, who) == [purpose |-> purpose, who |-> who]

\* How many entries at the front have one of these purposes.
Lead(q, purposes) ==
  LET others == {i \in DOMAIN q : q[i].purpose \notin purposes}
  IN  IF others = {} THEN Len(q) ELSE Min(others) - 1

Take(q, n) == [woken |-> {q[i].who : i \in 1..n}, left |-> SubSeq(q, n + 1, Len(q))]

\* A slip: one rebalancer is woken, as one writer is.
WakeListOneRebalancer(q) ==
  LET n      == Lead(q, {"FREE", "READ"})
      isSafe == n = Len(q) \/ \E i \in 1..n : q[i].purpose = "READ"
      k      == Lead(q, {"FREE"})
      turned == SubSeq(q, k + 1, Len(q)) \o SubSeq(q, 1, k)
  IN  IF q = <<>> THEN Take(q, 0)
      ELSE IF k > 0 /\ isSafe THEN Take(q, n)
      ELSE IF turned[1].purpose = "READ" THEN Take(turned, Lead(turned, {"READ", "FREE"}))
      ELSE Take(turned, 1)

\* wake_list_next.  Optimistic readers wake nobody when they leave, so they go with readers that
\* do, or when no one else is left, and else to the end of the queue.
WakeListNext(q) ==
  LET n      == Lead(q, {"FREE", "READ"})
      isSafe == n = Len(q) \/ \E i \in 1..n : q[i].purpose = "READ"
      k      == Lead(q, {"FREE"})
      turned == SubSeq(q, k + 1, Len(q)) \o SubSeq(q, 1, k)
  IN  IF q = <<>> THEN Take(q, 0)
      ELSE IF k > 0 /\ isSafe THEN Take(q, n)
      ELSE IF turned[1].purpose = "READ" THEN Take(turned, Lead(turned, {"READ", "FREE"}))
      ELSE IF turned[1].purpose = "WRITE" THEN Take(turned, 1)
      ELSE Take(turned, Lead(turned, {"REBAL"}))

\* MASK_WAIT is set and cleared with the queue, under MASK_XLOCK.
Waits(s) == queue[s] # <<>>

\* Segment s gets the word `word' as those of `list' leave its queue.
Hand(s, word, list, self) ==
  /\ latch' = [latch EXCEPT ![s] = word]
  /\ queue' = [queue EXCEPT ![s] = list.left]
  /\ woken' = (woken \ {self}) \cup (list.woken \ {Promise})

\* Thread t goes to sleep in segment s with the queue q.
Sleep(t, s, q, place) ==
  /\ queue' = [queue EXCEPT ![s] = q]
  /\ pc' = [pc EXCEPT ![t] = place]
  /\ at' = [at EXCEPT ![t] = s]
  /\ woken' = woken \ {t}
  /\ UNCHANGED latch

\* (Where a thread was is of no use once its call is over.)
Return(t) == pc' = [pc EXCEPT ![t] = "idle"] /\ at' = [at EXCEPT ![t] = 0]
Goto(t, place, s) == pc' = [pc EXCEPT ![t] = place] /\ at' = [at EXCEPT ![t] = s]

\* A thread may start a call, or goes on with one after its sleep or after a failed validation.
Starts(t) == pc[t] = "idle" /\ calls[t] < MaxCalls[t]
Resumes(t) == pc[t] = "retry" \/ (pc[t] = "asleep" /\ t \in woken)
Turn(t, s) ==
  /\ Starts(t) \/ (Resumes(t) /\ s = at[t])
  /\ calls' = [calls EXCEPT ![t] = IF Starts(t) THEN @ + 1 ELSE @]

\* A thread that meets a deleted leaf aborts, and goes to another leaf through the index.
Abort(t, s) ==
  /\ latch[s].invalid
  /\ Return(t)
  /\ woken' = woken \ {t}
  /\ UNCHANGED <<latch, queue, holds, version, torn>>

Enters(t, s) ==
  /\ latch' = IF t \in Reader THEN [latch EXCEPT ![s].readers = @ + 1]
              ELSE [latch EXCEPT ![s].writer = TRUE]
  /\ woken' = woken \ {t}
  /\ UNCHANGED queue

Bumped(word) == [word EXCEPT !.version = @ + 1]
Idle(word) == ~word.writer /\ ~word.rebalancer /\ word.readers = 0

-----------------------------------------------------------------------------
(* Readers.  A thread that holds a latch already does not queue behind those that wait. *)

ReaderBlocked(t, s) ==
  \/ latch[s].writer \/ latch[s].rebalancer
  \/ Waits(s) /\ pc[t] # "asleep" /\ holds[t] = <<>>

ReaderEnter(t, s) ==
  /\ Len(holds[t]) < MaxNest /\ Turn(t, s)
  /\ \/ Abort(t, s)
     \/ /\ ~latch[s].invalid /\ ReaderBlocked(t, s)
        /\ Sleep(t, s, Append(queue[s], Entry("READ", t)), "asleep")
        /\ UNCHANGED holds
     \/ /\ ~latch[s].invalid /\ ~ReaderBlocked(t, s)
        /\ Enters(t, s)
        /\ holds' = [holds EXCEPT ![t] = <<s>> \o @]
        /\ Return(t)
  /\ UNCHANGED <<requested, owner, scheduled, crawlVars, version, terminated, torn>>

\* The last reader hands the segment to the next in the queue.
ReaderExit(t) ==
  /\ pc[t] = "idle" /\ holds[t] # <<>>
  /\ LET s == Head(holds[t])  word == [latch[s] EXCEPT !.readers = @ - 1]
     IN  Hand(s, word, IF word.readers = 0 THEN WakeListNext(queue[s]) ELSE Take(queue[s], 0), t)
  /\ holds' = [holds EXCEPT ![t] = Tail(@)]
  /\ UNCHANGED <<requested, owner, scheduled, crawlVars, pc, at, version, calls, terminated, torn>>

-----------------------------------------------------------------------------
(* Optimistic readers. *)

OptimisticEnter(t, s) ==
  /\ Turn(t, s)
  /\ \/ Abort(t, s)
     \/ /\ ~latch[s].invalid /\ (latch[s].writer \/ latch[s].rebalancer)
        /\ Sleep(t, s, Append(queue[s], Entry("FREE", t)), "asleep")
        /\ UNCHANGED <<version, torn>>
     \/ /\ ~latch[s].invalid /\ ~latch[s].writer /\ ~latch[s].rebalancer
        /\ version' = [version EXCEPT ![t] = latch[s].version]
        /\ Goto(t, "reading", s)
        /\ woken' = woken \ {t}
        /\ UNCHANGED <<latch, queue, torn>>
  /\ UNCHANGED <<requested, owner, scheduled, crawlVars, holds, terminated>>

HasOptimisticVersion(t) ==
  LET word == latch[at[t]]
  IN  ~word.invalid /\ ~word.writer /\ ~word.rebalancer /\ word.version = version[t]

\* optimistic_validate after the last read: the result stands, or the call starts again.
Validate(t) ==
  /\ pc[t] = "reading"
  /\ IF HasOptimisticVersion(t)
       THEN Return(t) /\ UNCHANGED torn
       ELSE Goto(t, "retry", at[t]) /\ torn' = torn \ {t}
  /\ version' = [version EXCEPT ![t] = 0]
  /\ UNCHANGED <<segmentVars, scheduled, crawlVars, holds, woken, calls, terminated>>

\* The content of the segments S changes under those who read it optimistically.
Change(S) == torn' = torn \cup {t \in Optimist : pc[t] = "reading" /\ at[t] \in S}

-----------------------------------------------------------------------------
(* Writers; and prune, by which the merger is a writer. *)

WriterBlocked(t, s) == ~Idle(latch[s]) \/ (Waits(s) /\ pc[t] # "asleep")

WriterQueues(t, s) == Sleep(t, s, Append(queue[s], Entry("WRITE", t)), "asleep")

WriterEnter(t, s) ==
  /\ Turn(t, s)
  /\ \/ Abort(t, s)
     \/ /\ ~latch[s].invalid /\ WriterBlocked(t, s)
        /\ WriterQueues(t, s)
        /\ UNCHANGED torn
     \/ /\ ~latch[s].invalid /\ ~WriterBlocked(t, s)
        /\ Enters(t, s) /\ Change({s})
        /\ Goto(t, "writing", s)
  /\ UNCHANGED <<requested, owner, scheduled, crawlVars, holds, version, terminated>>

\* The update fills the segment.
RequestAsyncRebalance(t) ==
  /\ t \in Writer /\ pc[t] = "writing" /\ at[t] \notin requested
  /\ requested' = requested \cup {at[t]}
  /\ scheduled' = scheduled \cup {at[t]}
  /\ UNCHANGED <<latch, queue, owner, crawlVars, pc, at, holds, version, woken, calls, terminated, torn>>

\* prune cancels the request before it leaves as a writer.
WriterExit(t) ==
  /\ pc[t] = "writing"
  /\ LET s == at[t]
     IN  Hand(s, Bumped([latch[s] EXCEPT !.writer = FALSE]), WakeListNext(queue[s]), t)
  /\ requested' = IF t \in Merger THEN requested \ {at[t]} ELSE requested
  /\ Return(t)
  /\ UNCHANGED <<owner, scheduled, crawlVars, holds, version, calls, terminated, torn>>

\* handle_mask_wait_st: a thread that was woken but does not enter hands its turn on, unless
\* someone who is in the segment will.
PassTurn(t, s) ==
  Hand(s, latch[s], IF pc[t] = "asleep" /\ Idle(latch[s]) THEN WakeListNext(queue[s])
                    ELSE Take(queue[s], 0), t)

\* prune: nothing to do in a clean segment, else the merger waits for it and writes.
Prune(m, s) ==
  /\ Turn(m, s)
  /\ \/ Abort(m, s)
     \/ /\ ~latch[s].invalid /\ ~latch[s].writer /\ ~latch[s].rebalancer
        /\ PassTurn(m, s)
        /\ Return(m)
        /\ UNCHANGED torn
     \/ /\ ~latch[s].invalid /\ WriterBlocked(m, s)
        /\ WriterQueues(m, s)
        /\ UNCHANGED torn
     \/ /\ ~latch[s].invalid /\ ~WriterBlocked(m, s)
        /\ Enters(m, s) /\ Change({s})
        /\ Goto(m, "writing", s)
  /\ UNCHANGED <<requested, owner, scheduled, crawlVars, holds, version, terminated>>

-----------------------------------------------------------------------------
(* Crawlers.  A service thread enters a segment that was requested and widens its window from
   there, with the leaf to itself; the merger does so for the whole leaf.                    *)

\* async_rebalancer_enter, in front of those who queue.
AsyncRebalancerEnter(c, s) ==
  /\ Turn(c, s)
  /\ IF Starts(c) THEN s \in scheduled /\ scheduled' = scheduled \ {s} ELSE UNCHANGED scheduled
  /\ LET needed == ~latch[s].rebalancer /\ s \in requested
     IN  \/ Abort(c, s) /\ UNCHANGED <<owner, crawler>>
         \/ /\ ~latch[s].invalid /\ ~needed
            /\ PassTurn(c, s)
            /\ Return(c)
            /\ UNCHANGED <<owner, crawler>>
         \/ /\ ~latch[s].invalid /\ needed /\ ~Idle(latch[s])
            /\ Sleep(c, s, <<Entry("REBAL", c)>> \o queue[s], "asleep")
            /\ UNCHANGED <<owner, crawler>>
         \/ /\ ~latch[s].invalid /\ needed /\ Idle(latch[s])
            /\ latch' = [latch EXCEPT ![s].rebalancer = TRUE]
            /\ owner' = [owner EXCEPT ![s] = c]
            /\ crawler' = [crawler EXCEPT ![c] = [NoWindow EXCEPT !.seg = s, !.lo = s, !.hi = s,
                                                                  !.can_be_stopped = TRUE]]
            /\ Goto(c, "leaf", 0)
            /\ woken' = woken \ {c}
            /\ UNCHANGED queue
  /\ UNCHANGED <<requested, leaf, holds, version, terminated, torn>>

\* lock2merge asks for the whole leaf, and cannot be stopped.
Lock2Merge(m) ==
  /\ Starts(m)
  /\ calls' = [calls EXCEPT ![m] = @ + 1]
  /\ crawler' = [crawler EXCEPT ![m] = [NoWindow EXCEPT !.len = NumSegments]]
  /\ pc' = [pc EXCEPT ![m] = "leaf"]
  /\ UNCHANGED <<segmentVars, scheduled, leaf, at, holds, version, woken, terminated, torn>>

\* The leaf is nobody's, and the next crawler that waits for it is woken.
LeaveLeaf(self) ==
  LET n == Min({1, Len(leaf.queue)})
  IN  /\ leaf' = [active |-> None, queue |-> SubSeq(leaf.queue, n + 1, Len(leaf.queue))]
      /\ woken' = (woken \ {self}) \cup {leaf.queue[i] : i \in 1..n}

\* leaf_xlock; a crawler that was stopped meanwhile throws.
LeafXlock(c) ==
  /\ pc[c] = "leaf" \/ (pc[c] \in {"leafqueue", "behind"} /\ c \in woken)
  /\ \/ /\ leaf.active # None
        /\ leaf' = [leaf EXCEPT !.queue = Append(@, c)]
        /\ Goto(c, "leafqueue", 0)
        /\ UNCHANGED crawler
        /\ woken' = woken \ {c}
     \/ /\ leaf.active = None /\ ~crawler[c].can_continue
        /\ LeaveLeaf(c)
        /\ Return(c)
        /\ crawler' = [crawler EXCEPT ![c] = NoWindow]
     \/ /\ leaf.active = None /\ crawler[c].can_continue
        /\ leaf' = [leaf EXCEPT !.active = c]
        /\ Goto(c, "crawl", 0)
        /\ UNCHANGED crawler
        /\ woken' = woken \ {c}
  /\ UNCHANGED <<segmentVars, scheduled, holds, version, calls, terminated, torn>>

\* Where the window of this length begins.
WindowStart(seg, len) ==
  LET start == (seg \div len) * len
  IN  IF start + len >= NumSegments THEN NumSegments - len ELSE start

\* The segment the crawler takes next: to the right while it must, then to the left.
NextSegments(c) ==
  LET w == crawler[c]  start == WindowStart(w.seg, w.len)
  IN  IF w.hi + 1 < start + w.len THEN {w.hi + 1}
      ELSE IF w.lo - 1 >= start THEN {w.lo - 1}
      ELSE {}

\* The windows of c with the segments lo..hi added at one end.
Widened(c, lo, hi) ==
  LET w == crawler[c]
  IN  [w EXCEPT !.lo = IF hi < w.lo THEN lo ELSE w.lo, !.hi = IF lo > w.hi THEN hi ELSE w.hi]

\* acquire_segment of a segment that no crawler has; its occupants are waited for later.
AcquireSegment(c, s) ==
  /\ ~latch[s].invalid /\ ~latch[s].rebalancer
  /\ latch' = [latch EXCEPT ![s].rebalancer = TRUE]
  /\ owner' = [owner EXCEPT ![s] = c]
  /\ IF Idle(latch[s])
       THEN /\ crawler' = [crawler EXCEPT ![c] = Widened(c, s, s)]
            /\ UNCHANGED queue
       ELSE /\ crawler' = [crawler EXCEPT ![c] =
                             [Widened(c, s, s) EXCEPT
                                !.threads2wait = crawler[c].threads2wait \cup {s}]]
            /\ queue' = [queue EXCEPT ![s] = <<Entry("REBAL", Promise)>> \o @]
  /\ UNCHANGED <<leaf, pc, at, woken, terminated>>

\* A slip: the segments the other waits for are not waited for.
StopCrawlerForgetting(c, s) ==
  LET other == owner[s]  w == crawler[other]
  IN  /\ latch[s].rebalancer /\ ~latch[s].invalid /\ w.can_be_stopped
      /\ crawler' = [crawler EXCEPT ![other].can_continue = FALSE,
                                    ![other].threads2wait = {},
                                    ![c] = Widened(c, w.lo, w.hi)]
      /\ owner' = [i \in Segment |-> IF i \in w.lo .. w.hi THEN c ELSE owner[i]]
      /\ UNCHANGED <<latch, queue, leaf, pc, at, woken, terminated>>

\* A slip: only the segment that was met changes hands, not the other's window.
StopCrawlerInOne(c, s) ==
  LET other == owner[s]  w == crawler[other]
  IN  /\ latch[s].rebalancer /\ ~latch[s].invalid /\ w.can_be_stopped
      /\ crawler' = [crawler EXCEPT ![other].can_continue = FALSE,
                                    ![other].threads2wait = {},
                                    ![c] = [Widened(c, w.lo, w.hi) EXCEPT
                                              !.threads2wait =
                                                crawler[c].threads2wait \cup w.threads2wait]]
      /\ owner' = [owner EXCEPT ![s] = c]
      /\ UNCHANGED <<latch, queue, leaf, pc, at, woken, terminated>>

\* acquire_segment of a segment of a crawler that can be stopped: c has its window and its
\* promises.
StopCrawler(c, s) ==
  LET other == owner[s]  w == crawler[other]
  IN  /\ latch[s].rebalancer /\ ~latch[s].invalid /\ w.can_be_stopped
      /\ crawler' = [crawler EXCEPT ![other].can_continue = FALSE,
                                    ![other].threads2wait = {},
                                    ![c] = [Widened(c, w.lo, w.hi) EXCEPT
                                              !.threads2wait =
                                                crawler[c].threads2wait \cup w.threads2wait]]
      /\ owner' = [i \in Segment |-> IF i \in w.lo .. w.hi THEN c ELSE owner[i]]
      /\ UNCHANGED <<latch, queue, leaf, pc, at, woken, terminated>>

\* acquire_segment of a segment of one that cannot: c gives up the leaf and waits for it.
WaitForCrawler(c, s) ==
  /\ latch[s].rebalancer /\ ~latch[s].invalid /\ ~crawler[owner[s]].can_be_stopped
  /\ queue' = [queue EXCEPT ![s] = <<Entry("REBAL", c)>> \o @]
  /\ Goto(c, "behind", s)
  /\ LeaveLeaf(c)
  /\ UNCHANGED <<latch, owner, crawler, terminated>>

\* acquire_segment in a leaf that was deleted throws RebalanceNotNecessary, which no frame of
\* the merger's thread catches.  (A service thread has a segment of the leaf, which keeps the
\* leaf from being deleted.)
FindDeleted(c, s) ==
  /\ latch[s].invalid
  /\ terminated' = TRUE
  /\ UNCHANGED <<latch, queue, owner, leaf, crawler, pc, at, woken>>

Crawl(c) ==
  /\ pc[c] = "crawl"
  /\ \E s \in NextSegments(c) :
       AcquireSegment(c, s) \/ StopCrawler(c, s) \/ WaitForCrawler(c, s) \/ FindDeleted(c, s)
  /\ UNCHANGED <<requested, scheduled, holds, version, calls, torn>>

\* The window is full: it is too dense and must grow, or it is spread, or the whole leaf is
\* split or merged, which may delete it.  Whether it is dense enough is left open.
Decide(c) ==
  /\ pc[c] = "crawl" /\ NextSegments(c) = {}
  /\ LET w == crawler[c]  length == w.hi - w.lo + 1
     IN  \/ /\ length < NumSegments
            /\ crawler' = [crawler EXCEPT ![c].len = Min({2 * length, NumSegments})]
            /\ UNCHANGED <<leaf, pc, woken>>
         \/ /\ \E removes \in {FALSE, length = NumSegments} :
                 crawler' = [crawler EXCEPT ![c].can_be_stopped = FALSE, ![c].removes = removes]
            /\ LeaveLeaf(c)
            /\ pc' = [pc EXCEPT ![c] = "drain"]
  /\ UNCHANGED <<segmentVars, scheduled, at, holds, version, calls, terminated, torn>>

\* Those who were in the segments have left: the elements move.
Drained(c) ==
  /\ pc[c] = "drain"
  /\ \A s \in crawler[c].threads2wait : \A i \in DOMAIN queue[s] : queue[s][i].who # Promise
  /\ crawler' = [crawler EXCEPT ![c].threads2wait = {}]
  /\ Change(crawler[c].lo .. crawler[c].hi)
  /\ pc' = [pc EXCEPT ![c] = "spread"]
  /\ UNCHANGED <<segmentVars, scheduled, leaf, at, holds, version, woken, calls, terminated>>

\* async_rebalancer_exit of the window's segments, one by one; every sleeper is woken.
AsyncRebalancerExit(c) ==
  /\ pc[c] = "spread"
  /\ LET s == crawler[c].lo
     IN  /\ Hand(s, [Bumped(latch[s]) EXCEPT !.rebalancer = FALSE, !.invalid = crawler[c].removes],
                 Take(queue[s], Len(queue[s])), c)
         /\ owner' = [owner EXCEPT ![s] = None]
         /\ requested' = requested \ {s}
         /\ IF s < crawler[c].hi
              THEN crawler' = [crawler EXCEPT ![c].lo = s + 1] /\ UNCHANGED pc
              ELSE crawler' = [crawler EXCEPT ![c] = NoWindow] /\ pc' = [pc EXCEPT ![c] = "idle"]
  /\ UNCHANGED <<scheduled, leaf, at, holds, version, calls, terminated, torn>>

-----------------------------------------------------------------------------
Call(t) ==
  \E s \in Target[t] :
    \/ t \in Reader   /\ ReaderEnter(t, s)
    \/ t \in Writer   /\ WriterEnter(t, s)
    \/ t \in Optimist /\ OptimisticEnter(t, s)
    \/ t \in Service  /\ AsyncRebalancerEnter(t, s)
    \/ t \in Merger   /\ Prune(t, s)

Inside(t) ==
  \/ t \in Reader /\ ReaderExit(t)
  \/ t \in Optimist /\ Validate(t)
  \/ t \in Writer \cup Merger /\ WriterExit(t)
  \/ t \in Crawler /\ (LeafXlock(t) \/ Crawl(t) \/ Decide(t) \/ Drained(t) \/ AsyncRebalancerExit(t))

Next ==
  /\ ~terminated
  /\ \E t \in Thread :
       Call(t) \/ Inside(t) \/ RequestAsyncRebalance(t) \/ (t \in Merger /\ Lock2Merge(t))

Spec == Init /\ [][Next]_vars

\* What a thread does without a new call: callbacks of scans return, updates and rebalances end.
GoesOn(t) == Inside(t) \/ (Resumes(t) /\ Call(t))

-----------------------------------------------------------------------------
\* The variables have their types; a crawler that goes through a leaf finds it valid, but for the
\* merger, and its window is one stretch of segments it owns.
TypeOK ==
  /\ latch \in [Segment -> [writer : BOOLEAN, rebalancer : BOOLEAN, readers : Nat,
                            version : Nat, invalid : BOOLEAN]]
  /\ \A s \in Segment : queue[s] \in
       Seq([purpose : {"READ", "WRITE", "FREE", "REBAL"}, who : Thread \cup {Promise}])
  /\ requested \subseteq Segment /\ scheduled \subseteq Segment
  /\ owner \in [Segment -> Crawler \cup {None}]
  /\ leaf.active \in Crawler \cup {None} /\ leaf.queue \in Seq(Crawler)
  /\ pc \in [Thread -> {"idle", "asleep", "retry", "reading", "writing", "leaf", "leafqueue",
                        "behind", "crawl", "drain", "spread"}]
  /\ at \in [Thread -> Segment] /\ holds \in [Reader -> Seq(Segment)]
  /\ woken \subseteq Thread
  /\ \A c \in Crawler : crawler[c].can_continue =>
       \A s \in crawler[c].lo .. crawler[c].hi : owner[s] = c /\ latch[s].rebalancer
  /\ \A c \in Service : pc[c] = "crawl" => \A s \in NextSegments(c) : ~latch[s].invalid

Reading(s) == {t \in Reader : \E i \in DOMAIN holds[t] : holds[t][i] = s}
Writing(s) == {t \in Thread : pc[t] = "writing" /\ at[t] = s}
Moving(s)  == {c \in Crawler : pc[c] = "spread" /\ s \in crawler[c].lo .. crawler[c].hi}

\* Who writes in a segment, or moves its elements, is alone in it, however crawlers take over
\* windows and promises from each other; and an optimistic read that was validated is of a segment
\* that nobody changed meanwhile.
SoleAccess ==
  /\ \A s \in Segment :
       LET changing == Writing(s) \cup Moving(s)
       IN  changing # {} => Cardinality(changing) = 1 /\ Reading(s) = {}
  /\ \A t \in torn : pc[t] = "reading"

\* Unless every call has returned some thread can go on, though nobody calls again: no one is left
\* in a queue from which nobody will wake it, and no threads wait for each other.  (Calls are
\* bounded, so that every behaviour ends; then every call returns.)
NobodyForgotten ==
  terminated \/ (\E t \in Thread : ENABLED GoesOn(t)) \/ (\A t \in Thread : pc[t] = "idle")
=============================================================================
