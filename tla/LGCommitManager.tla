-------------------------- MODULE LGCommitManager --------------------------
(***************************************************************************)
(* LiveGraph's group commit (sys/livegraph/include/core/commit_manager.hpp). *)
(* Committing threads push their write-ahead record into one of two queues *)
(* and sleep; a server thread closes the queue, gives the whole group the  *)
(* next epoch, writes and syncs it, and wakes the group.  Each member then *)
(* installs its writes and reports back through a per-epoch counter; the   *)
(* server publishes epochs, in order, once their counter is zero.          *)
(*                                                                         *)
(* A label of `pc' or `spc' names the point between two steps another      *)
(* thread can observe; what runs under a mutex nobody else can look        *)
(* through is one step.                                                    *)
(***************************************************************************)
EXTENDS Integers, Sequences, FiniteSets

CONSTANTS Client,      \* threads that commit transactions
          MaxCommits,  \* bound: how many commits each thread performs
          MaxErrors    \* bound: how many groups meet an I/O error

ASSUME MaxCommitsAssumption == MaxCommits \in [Client -> Nat]
ASSUME MaxErrorsAssumption == MaxErrors \in Nat
ASSUME ClientAssumption == IsFiniteSet(Client)

Server == "server"   \* owner of a mutex: the server thread
Free   == "free"     \* owner of a mutex: nobody
Unset  == 0          \* local_commit_epoch_id before the server stores into it

ASSUME OwnerAssumption == Server \notin Client /\ Free \notin Client

Side == {0, 1}       \* indices of the two queues and of their mutexes

VARIABLES
  global_client_mutex, \* the side new commits go to
  mutex,               \* owner of each queue's mutex
  client_mutex,        \* owner of the mutex of each side's sleepers
  queue,               \* the threads waiting in each queue
  seq_front, seq_rear, \* per side: commits released, commits pushed
  global_epoch_id,     \* newest epoch readers may use
  writing_epoch_id,    \* newest epoch given to a group
  unfinished_epoch_id, \* FIFO of [epoch, num]: epochs not published yet
  closed,              \* the destructor has run
  wal, durable,        \* groups in the file, and how many of them are synced
  failed,              \* history: the epochs whose write() or fdatasync() reported an error
  spc, sside, group,   \* server: label, side in work, members of the group
  pc, cside, my_seq,   \* thread: label, side chosen, place in its queue
  epoch,               \* thread: local_commit_epoch_id
  commits              \* thread: number of the current or last commit

shared == <<global_client_mutex, queue, seq_front, seq_rear, closed>>
locks  == <<mutex, client_mutex>>
epochs == <<global_epoch_id, writing_epoch_id, unfinished_epoch_id>>
log    == <<wal, durable, failed>>
server == <<spc, sside, group>>
client == <<pc, cside, my_seq, epoch, commits>>
vars   == <<shared, locks, epochs, log, server, client>>

Init ==
  /\ global_client_mutex = 0
  /\ mutex = [m \in Side |-> Free]
  /\ client_mutex = [m \in Side |-> Free]
  /\ queue = [m \in Side |-> <<>>]
  /\ seq_front = [m \in Side |-> 0]
  /\ seq_rear = [m \in Side |-> 0]
  /\ global_epoch_id = 0
  /\ writing_epoch_id = 0
  /\ unfinished_epoch_id = <<>>
  /\ closed = FALSE
  /\ wal = <<>>
  /\ durable = 0 /\ failed = {}
  /\ spc = "top"
  /\ sside = 0
  /\ group = <<>>
  /\ pc = [c \in Client |-> "idle"]
  /\ cside = [c \in Client |-> 0]
  /\ my_seq = [c \in Client |-> 0]
  /\ epoch = [c \in Client |-> Unset]
  /\ commits = [c \in Client |-> 0]

Goto(c, label) == pc' = [pc EXCEPT ![c] = label]

\* The record of thread c's current commit in the write-ahead log.
Record(c) == [client |-> c, commit |-> commits[c]]

\* notify_all: the sleepers of side m must take client_mutex[m] again.
Notified(m) ==
  [c \in Client |-> IF pc[c] = "asleep" /\ cside[c] = m THEN "pushed" ELSE pc[c]]

\* commit() returns: its local variables are gone.
Return(c) ==
  /\ Goto(c, "idle")
  /\ cside' = [cside EXCEPT ![c] = 0]
  /\ my_seq' = [my_seq EXCEPT ![c] = 0]
  /\ epoch' = [epoch EXCEPT ![c] = Unset]

\* num_unfinished of epoch e changes by d.
AddUnfinished(e, d) ==
  unfinished_epoch_id' =
    [i \in DOMAIN unfinished_epoch_id |->
       IF unfinished_epoch_id[i].epoch = e
         THEN [unfinished_epoch_id[i] EXCEPT !.num = @ + d]
         ELSE unfinished_epoch_id[i]]

----------------------------------------------------------------------------
(* The committing threads. *)

\* A transaction calls commit and enters register_commit.
Start(c) ==
  /\ pc[c] = "idle" /\ commits[c] < MaxCommits[c] /\ ~closed
  /\ Goto(c, "load")
  /\ commits' = [commits EXCEPT ![c] = @ + 1]
  /\ UNCHANGED <<shared, locks, epochs, log, server, cside, my_seq, epoch>>

LoadSide(c) ==
  /\ pc[c] = "load"
  /\ cside' = [cside EXCEPT ![c] = global_client_mutex]
  /\ Goto(c, "lock")
  /\ UNCHANGED <<shared, locks, epochs, log, server, my_seq, epoch, commits>>

LockQueue(c) ==
  /\ pc[c] = "lock" /\ mutex[cside[c]] = Free
  /\ mutex' = [mutex EXCEPT ![cside[c]] = c]
  /\ Goto(c, "check")
  /\ UNCHANGED <<shared, client_mutex, epochs, log, server, cside, my_seq, epoch, commits>>

\* A slip: the side is not checked again under the lock.
CheckSideNot(c) ==
  /\ pc[c] = "check"
  /\ Goto(c, "push")
  /\ UNCHANGED <<shared, locks, epochs, log, server, cside, my_seq, epoch, commits>>

\* The side may have been switched between the load and the lock.
CheckSide(c) ==
  /\ pc[c] = "check"
  /\ IF cside[c] = global_client_mutex
       THEN Goto(c, "push") /\ UNCHANGED mutex
       ELSE Goto(c, "load") /\ mutex' = [mutex EXCEPT ![cside[c]] = Free]
  /\ UNCHANGED <<shared, client_mutex, epochs, log, server, cside, my_seq, epoch, commits>>

Push(c) ==
  /\ pc[c] = "push"
  /\ queue' = [queue EXCEPT ![cside[c]] = Append(@, c)]
  /\ my_seq' = [my_seq EXCEPT ![c] = seq_rear[cside[c]]]
  /\ seq_rear' = [seq_rear EXCEPT ![cside[c]] = @ + 1]
  /\ mutex' = [mutex EXCEPT ![cside[c]] = Free]
  /\ Goto(c, "pushed")
  /\ UNCHANGED <<global_client_mutex, seq_front, closed, client_mutex, epochs, log, server,
                 cside, epoch, commits>>

LockClient(c) ==
  /\ pc[c] = "pushed" /\ client_mutex[cside[c]] = Free
  /\ client_mutex' = [client_mutex EXCEPT ![cside[c]] = c]
  /\ Goto(c, "test")
  /\ UNCHANGED <<shared, mutex, epochs, log, server, cside, my_seq, epoch, commits>>

\* Return with the epoch once the group is released, else sleep on cv_client.
TestSeq(c) ==
  /\ pc[c] = "test"
  /\ Goto(c, IF seq_front[cside[c]] > my_seq[c] THEN "install" ELSE "asleep")
  /\ client_mutex' = [client_mutex EXCEPT ![cside[c]] = Free]
  /\ UNCHANGED <<shared, mutex, epochs, log, server, cside, my_seq, epoch, commits>>

\* commit() has stored its blocks and timestamps; finish_commit reports it, and
\* returns at once if `wait' is FALSE.  The locals end with the call.
FinishCommit(c, wait) ==
  /\ pc[c] = "install"
  /\ AddUnfinished(epoch[c], -1)
  /\ IF wait THEN Goto(c, "spin") /\ UNCHANGED <<cside, my_seq, epoch>> ELSE Return(c)
  /\ UNCHANGED <<shared, locks, global_epoch_id, writing_epoch_id, log, server, commits>>

SpinUntilVisible(c) ==
  /\ pc[c] = "spin" /\ global_epoch_id >= epoch[c]
  /\ Return(c)
  /\ UNCHANGED <<shared, locks, epochs, log, server, commits>>

ClientStep(c) ==
  \/ LoadSide(c) \/ LockQueue(c) \/ CheckSide(c) \/ Push(c) \/ LockClient(c)
  \/ TestSeq(c) \/ SpinUntilVisible(c) \/ (\E wait \in BOOLEAN : FinishCommit(c, wait))

----------------------------------------------------------------------------
(* The server thread. *)

\* A slip: an epoch is published with one unit left on its counter.
PublishEpochEarly ==
  /\ spc \in {"top", "poll", "polled"}
  /\ unfinished_epoch_id # <<>>
  /\ Head(unfinished_epoch_id).num <= 1
  /\ global_epoch_id' = Head(unfinished_epoch_id).epoch
  /\ unfinished_epoch_id' = Tail(unfinished_epoch_id)
  /\ UNCHANGED <<shared, locks, writing_epoch_id, log, server, client>>

\* One turn of check_unfinished_epoch_id: publish the oldest epoch.  The server
\* runs it at the top of its loop and around each wait for the queue.
PublishEpoch ==
  /\ spc \in {"top", "poll", "polled"}
  /\ unfinished_epoch_id # <<>>
  /\ Head(unfinished_epoch_id).num = 0
  /\ global_epoch_id' = Head(unfinished_epoch_id).epoch
  /\ unfinished_epoch_id' = Tail(unfinished_epoch_id)
  /\ UNCHANGED <<shared, locks, writing_epoch_id, log, server, client>>

NothingToPublish ==
  unfinished_epoch_id # <<>> => Head(unfinished_epoch_id).num # 0

ServerLoadSide ==
  /\ spc = "top" /\ NothingToPublish
  /\ sside' = global_client_mutex
  /\ spc' = "lock"
  /\ UNCHANGED <<shared, locks, epochs, log, group, client>>

ServerLockQueue ==
  /\ spc = "lock" /\ mutex[sside] = Free
  /\ mutex' = [mutex EXCEPT ![sside] = Server]
  /\ spc' = "test"
  /\ UNCHANGED <<shared, client_mutex, epochs, log, sside, group, client>>

\* A slip: the wait does not look at closed.
HasWorkQueued == queue[sside] # <<>>

HasWork == queue[sside] # <<>> \/ closed

\* The condition of the inner while loop.
TestQueue ==
  /\ spc = "test"
  /\ spc' = IF HasWork THEN "claim" ELSE "poll"
  /\ UNCHANGED <<shared, locks, epochs, log, sside, group, client>>

\* wait_for evaluates its predicate, then sleeps with the mutex released.
Park ==
  /\ spc = "poll" /\ NothingToPublish
  /\ IF HasWork
       THEN spc' = "polled" /\ UNCHANGED mutex
       ELSE spc' = "parked" /\ mutex' = [mutex EXCEPT ![sside] = Free]
  /\ UNCHANGED <<shared, client_mutex, epochs, log, sside, group, client>>

\* A notification, or SERVER_SPIN_INTERVAL is over.
Unpark ==
  /\ spc = "parked" /\ mutex[sside] = Free
  /\ mutex' = [mutex EXCEPT ![sside] = Server]
  /\ spc' = "polled"
  /\ UNCHANGED <<shared, client_mutex, epochs, log, sside, group, client>>

\* After the wait: notify the sleepers of the other side, test again.
WakeOtherSide ==
  /\ spc = "polled" /\ NothingToPublish
  /\ pc' = Notified(1 - sside)
  /\ spc' = "test"
  /\ UNCHANGED <<shared, locks, epochs, log, sside, group,
                 cside, my_seq, epoch, commits>>

ClaimSleepers ==
  /\ spc = "claim" /\ client_mutex[sside] = Free
  /\ client_mutex' = [client_mutex EXCEPT ![sside] = Server]
  /\ spc' = "toggle"
  /\ UNCHANGED <<shared, mutex, epochs, log, sside, group, client>>

\* A slip: the side is counted up instead of flipped.
ToggleUp ==
  /\ spc = "toggle"
  /\ global_client_mutex' = global_client_mutex + 1
  /\ spc' = "seal"
  /\ UNCHANGED <<queue, seq_front, seq_rear, closed, locks, epochs, log, sside, group, client>>

\* New commits go to the other side from here on.
Toggle ==
  /\ spc = "toggle"
  /\ global_client_mutex' = 1 - global_client_mutex
  /\ spc' = "seal"
  /\ UNCHANGED <<queue, seq_front, seq_rear, closed, locks, epochs, log, sside, group, client>>

\* A slip: the queue is read but not emptied.
SealKeepsQueue ==
  /\ spc = "seal" /\ queue[sside] # <<>>
  /\ LET q == queue[sside]
         members == {q[i] : i \in DOMAIN q}
     IN  /\ unfinished_epoch_id' = Append(unfinished_epoch_id,
                                          [epoch |-> writing_epoch_id + 1, num |-> Len(q)])
         /\ epoch' = [c \in Client |->
                        IF c \in members THEN writing_epoch_id + 1 ELSE epoch[c]]
         /\ group' = q
  /\ writing_epoch_id' = writing_epoch_id + 1
  /\ spc' = "write"
  /\ UNCHANGED <<shared, locks, global_epoch_id, log, sside, pc, cside, my_seq, commits>>

\* Give every queued thread the next epoch and a pointer to its counter.
Seal ==
  /\ spc = "seal" /\ queue[sside] # <<>>
  /\ LET q == queue[sside]
         members == {q[i] : i \in DOMAIN q}
     IN  /\ unfinished_epoch_id' = Append(unfinished_epoch_id,
                                          [epoch |-> writing_epoch_id + 1, num |-> Len(q)])
         /\ epoch' = [c \in Client |->
                        IF c \in members THEN writing_epoch_id + 1 ELSE epoch[c]]
         /\ group' = q
  /\ writing_epoch_id' = writing_epoch_id + 1
  /\ queue' = [queue EXCEPT ![sside] = <<>>]
  /\ spc' = "write"
  /\ UNCHANGED <<global_client_mutex, seq_front, seq_rear, closed, locks, global_epoch_id, log,
                 sside, pc, cside, my_seq, commits>>

\* The queue is empty: the graph is being destroyed and the loop is left.
ServerExit ==
  /\ spc = "seal" /\ queue[sside] = <<>>
  /\ mutex' = [mutex EXCEPT ![sside] = Free]
  /\ client_mutex' = [client_mutex EXCEPT ![sside] = Free]
  /\ spc' = "exit"
  /\ UNCHANGED <<shared, epochs, log, sside, group, client>>

Group == [epoch |-> writing_epoch_id,
          txns  |-> [i \in DOMAIN group |-> Record(group[i])]]

\* write() or fdatasync() reports an error for the group in work.
IoError ==
  /\ failed' = failed \cup {writing_epoch_id}
  /\ Cardinality(failed') <= MaxErrors

\* A slip: the group is released without fdatasync.
WriteWalNoSync ==
  /\ spc = "write"
  /\ wal' = Append(wal, Group)
  /\ spc' = "hold"
  /\ UNCHANGED <<shared, locks, epochs, durable, failed, sside, group, client>>

\* write() may fail and leave the group out of the file: the error is not raised.
WriteWal ==
  /\ spc = "write"
  /\ \/ wal' = Append(wal, Group) /\ UNCHANGED failed
     \/ IoError /\ UNCHANGED wal
  /\ spc' = "sync"
  /\ UNCHANGED <<shared, locks, epochs, durable, sside, group, client>>

\* fdatasync() may fail and leave the file not synced: this is not raised either.
SyncWal ==
  /\ spc = "sync"
  /\ \/ durable' = Len(wal) /\ UNCHANGED failed
     \/ IoError /\ UNCHANGED durable
  /\ spc' = "hold"
  /\ UNCHANGED <<shared, locks, epochs, wal, sside, group, client>>

\* A slip: the server drops a unit it never took.
HoldNothing ==
  /\ spc = "hold"
  /\ mutex' = [mutex EXCEPT ![sside] = Free]
  /\ spc' = "release"
  /\ UNCHANGED <<shared, client_mutex, epochs, log, sside, group, client>>

\* The server's own unit on the counter, then the queue's mutex is released.
Hold ==
  /\ spc = "hold"
  /\ AddUnfinished(writing_epoch_id, 1)
  /\ mutex' = [mutex EXCEPT ![sside] = Free]
  /\ spc' = "release"
  /\ UNCHANGED <<shared, client_mutex, global_epoch_id, writing_epoch_id, log, sside, group, client>>

\* A slip: seq_front counts groups instead of commits.
ReleaseOne ==
  /\ spc = "release"
  /\ seq_front' = [seq_front EXCEPT ![sside] = @ + 1]
  /\ pc' = Notified(sside)
  /\ client_mutex' = [client_mutex EXCEPT ![sside] = Free]
  /\ spc' = "drop"
  /\ UNCHANGED <<global_client_mutex, queue, seq_rear, closed, mutex, epochs, log, sside, group,
                 cside, my_seq, epoch, commits>>

Release ==
  /\ spc = "release"
  /\ seq_front' = [seq_front EXCEPT ![sside] = @ + Len(group)]
  /\ pc' = Notified(sside)
  /\ client_mutex' = [client_mutex EXCEPT ![sside] = Free]
  /\ spc' = "drop"
  /\ UNCHANGED <<global_client_mutex, queue, seq_rear, closed, mutex, epochs, log, sside, group,
                 cside, my_seq, epoch, commits>>

Drop ==
  /\ spc = "drop"
  /\ AddUnfinished(writing_epoch_id, -1)
  /\ group' = <<>>
  /\ spc' = "top"
  /\ UNCHANGED <<shared, locks, global_epoch_id, writing_epoch_id, log, sside, client>>

ServerStep ==
  \/ PublishEpoch \/ ServerLoadSide \/ ServerLockQueue \/ TestQueue \/ Park \/ Unpark
  \/ WakeOtherSide \/ ClaimSleepers \/ Toggle \/ Seal \/ ServerExit \/ WriteWal
  \/ SyncWal \/ Hold \/ Release \/ Drop

\* ~CommitManager: the owner destroys the graph when no thread uses it any more.
Close ==
  /\ ~closed /\ \A c \in Client : pc[c] = "idle"
  /\ closed' = TRUE
  /\ UNCHANGED <<global_client_mutex, queue, seq_front, seq_rear, locks, epochs, log, server, client>>

\* The server has been joined: nothing is left to happen.
Terminated == spc = "exit" /\ UNCHANGED vars

Next ==
  \/ ServerStep
  \/ Close
  \/ Terminated
  \/ \E c \in Client : Start(c) \/ ClientStep(c)

\* Every thread that can go on again and again goes on.  Strong fairness is what a
\* thread blocked on a mutex gets: the server, the only thread that takes the mutex
\* for ever, sleeps with it released between two polls.  Nobody is bound to commit
\* or to close.
Fairness == SF_vars(ServerStep) /\ \A c \in Client : SF_vars(ClientStep(c))

Spec == Init /\ [][Next]_vars /\ Fairness

----------------------------------------------------------------------------
(* Properties. *)

\* Granted an epoch and not yet past finish_commit's decrement.
Unfinished == {c \in Client : /\ pc[c] \in {"pushed", "test", "asleep", "install"}
                              /\ epoch[c] # Unset}
Members(e) == {c \in Unfinished : epoch[c] = e}

\* The unit the server itself has on the counter of epoch e, from Hold to Drop.
ServerUnit(e) == IF e = writing_epoch_id /\ spc \in {"release", "drop"} THEN 1 ELSE 0

\* Commits whose register_commit has returned.
Acknowledged == {c \in Client : pc[c] \in {"install", "spin"}}

\* Types of the variables.
TypeOK ==
  /\ global_client_mutex \in Side
  /\ mutex \in [Side -> Client \cup {Server, Free}]
  /\ client_mutex \in [Side -> Client \cup {Server, Free}]
  /\ queue \in [Side -> Seq(Client)]
  /\ seq_front \in [Side -> Nat] /\ seq_rear \in [Side -> Nat]
  /\ global_epoch_id \in Nat /\ writing_epoch_id \in Nat
  /\ unfinished_epoch_id \in Seq([epoch : Nat, num : Int])
  /\ closed \in BOOLEAN
  /\ wal \in Seq([epoch : Nat, txns : Seq([client : Client, commit : Nat])])
  /\ durable \in Nat /\ failed \subseteq Nat
  /\ spc \in {"top", "lock", "test", "poll", "parked", "polled", "claim", "toggle", "seal",
              "write", "sync", "hold", "release", "drop", "exit"}
  /\ sside \in Side
  /\ group \in Seq(Client)
  /\ pc \in [Client -> {"idle", "load", "lock", "check", "push", "pushed", "test", "asleep",
                        "install", "spin"}]
  /\ cside \in [Client -> Side]
  /\ my_seq \in [Client -> Nat]
  /\ epoch \in [Client -> Nat]
  /\ commits \in [Client -> Nat]

\* No epoch is readable while a transaction that commits at it has not installed
\* all its writes: a snapshot never shows part of a transaction.
VisibleEpochsComplete == \A c \in Unfinished : epoch[c] > global_epoch_id

\* The counter of every epoch not published yet is exactly the number of its
\* transactions that are unfinished, plus the server's own unit: no counter is
\* decremented after its epoch left the FIFO, and none is left above zero.
CountersExact ==
  /\ \A i \in DOMAIN unfinished_epoch_id :
       LET u == unfinished_epoch_id[i]
       IN  u.num = Cardinality(Members(u.epoch)) + ServerUnit(u.epoch)
  /\ \A c \in Unfinished : \E i \in DOMAIN unfinished_epoch_id :
       unfinished_epoch_id[i].epoch = epoch[c]

\* No commit is stranded: the queue new commits no longer go to is empty, except
\* for the moment in which the server, holding its mutex, empties it.
NoStrandedCommit ==
  queue[1 - global_client_mutex] # <<>> => spc = "seal" /\ sside # global_client_mutex

\* No wakeup is lost: a thread sleeps only while its group is not released.
SleepersHaveReason ==
  \A c \in Client : pc[c] = "asleep" => seq_front[cside[c]] <= my_seq[c]

\* A commit returns from register_commit only when its record is in the synced part of
\* the log, under the epoch it was given, unless its own group met an I/O error: an
\* error of another group, before or after, takes nothing from it.
AckedIsDurable ==
  \A c \in Acknowledged :
    \/ epoch[c] \in failed
    \/ \E i \in 1 .. durable :
         /\ wal[i].epoch = epoch[c]
         /\ \E j \in DOMAIN wal[i].txns : wal[i].txns[j] = Record(c)

\* Each commit is logged at most once, the groups are in the order of their epochs, and
\* those missing among the epochs written so far are groups that met an I/O error.
LoggedOnceInOrder ==
  /\ \A i, k \in DOMAIN wal : i < k => wal[i].epoch < wal[k].epoch
  /\ \A e \in (1 .. writing_epoch_id) \ failed :
       (e = writing_epoch_id /\ spc = "write") \/ \E i \in DOMAIN wal : wal[i].epoch = e
  /\ \A i, k \in DOMAIN wal : \A j \in DOMAIN wal[i].txns : \A l \in DOMAIN wal[k].txns :
       wal[i].txns[j] = wal[k].txns[l] => i = k /\ j = l

\* The epoch readers use moves one epoch at a time and never back.
EpochsPublishedInOrder == [][global_epoch_id' \in {global_epoch_id, global_epoch_id + 1}]_vars

\* The parts of the inductive invariant.  Who holds the mutexes of the queues.
ServerLockInv ==
  \A m \in Side : mutex[m] = Server <=>
    /\ m = sside
    /\ spc \in {"test", "poll", "polled", "claim", "toggle", "seal", "write", "sync", "hold"}

ClientLockInv ==
  \A m \in Side, c \in Client : mutex[m] = c <=> pc[c] \in {"check", "push"} /\ cside[c] = m

LockInv == ServerLockInv /\ ClientLockInv

\* On which side the server and the pushing threads are.
SideInv ==
  /\ spc \in {"lock", "test", "poll", "parked", "polled", "claim", "toggle"} =>
       sside = global_client_mutex
  /\ spc \in {"seal", "write", "sync", "hold", "release", "drop"} =>
       sside = 1 - global_client_mutex
  /\ \A c \in Client : pc[c] = "push" => cside[c] = global_client_mutex

\* The threads of queue m: those that wait on side m and have no epoch yet.
InQueue(c, m) == pc[c] \in {"pushed", "test", "asleep"} /\ epoch[c] = Unset /\ cside[c] = m

QueueInv ==
  \A m \in Side :
    /\ \A i, j \in DOMAIN queue[m] : queue[m][i] = queue[m][j] => i = j
    /\ \A c \in Client : InQueue(c, m) <=> \E i \in DOMAIN queue[m] : queue[m][i] = c

\* Commits of side m the server has taken out of the queue but not released.
Pending(m) == IF sside = m /\ spc \in {"write", "sync", "hold", "release"} THEN Len(group) ELSE 0

\* What my_seq, seq_front and seq_rear count.
SeqInv ==
  \A m \in Side :
    /\ seq_rear[m] = seq_front[m] + Len(queue[m]) + Pending(m)
    /\ \A i \in DOMAIN queue[m] : my_seq[queue[m][i]] = seq_rear[m] - Len(queue[m]) + i - 1

\* Who has an epoch, and which.
EpochInv ==
  \A c \in Client :
    /\ epoch[c] <= writing_epoch_id
    /\ pc[c] \in {"idle", "load", "lock", "check", "push"} => epoch[c] = Unset
    /\ pc[c] \in {"install", "spin"} => epoch[c] # Unset

\* The FIFO holds the epochs from the readable one to the newest.
FifoInv ==
  /\ writing_epoch_id = global_epoch_id + Len(unfinished_epoch_id)
  /\ \A i \in DOMAIN unfinished_epoch_id : unfinished_epoch_id[i].epoch = global_epoch_id + i

\* The inductive invariant.
CommitInv ==
  /\ TypeOK /\ LockInv /\ SideInv /\ QueueInv /\ SeqInv /\ EpochInv /\ FifoInv
  /\ NoStrandedCommit /\ VisibleEpochsComplete /\ CountersExact

\* Every commit returns, waiting for visibility or not.
CommitReturns == \A c \in Client : pc[c] = "load" ~> pc[c] = "idle"

\* The destructor's join returns.
ServerJoins == closed ~> spc = "exit"

\* Where the epoch service sees thread c, and the epoch it has there.
Stage(c) == IF c \in Unfinished THEN "granted"
            ELSE IF pc[c] \in {"pushed", "test", "asleep"} THEN "queued"
            ELSE "idle"
GrantOf(c) == IF c \in Unfinished THEN epoch[c] ELSE 0

Epochs == INSTANCE LGEpochs WITH
  sealed  <- writing_epoch_id,
  visible <- global_epoch_id,
  stage   <- [c \in Client |-> Stage(c)],
  grant   <- [c \in Client |-> GrantOf(c)]

\* The commit manager implements the epoch service its callers rely on: pushing is
\* asking, forming a group is granting, finish_commit and publishing are themselves.
ImplementsEpochs == Epochs!EpochsSpec
=============================================================================
