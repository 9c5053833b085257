--------------------------- MODULE LGCommitProof ---------------------------
(***************************************************************************)
(* Theorems about the commit manager, for any finite set of threads and    *)
(* any number of commits.                                                  *)
(***************************************************************************)
EXTENDS LGCommitManager, Functions, FunctionTheorems, FiniteSetTheorems, SequenceTheorems, TLAPS

Counters == Seq([epoch : Nat, num : Int])

\* A function on 1 .. n is a sequence of length n.
LEMMA FunctionIsSeq ==
  ASSUME NEW S, NEW n \in Nat, NEW f \in [1 .. n -> S]
  PROVE  f \in Seq(S) /\ Len(f) = n
<1>1. f \in Seq(S)
  OBVIOUS
<1>2. DOMAIN f = 1 .. n /\ DOMAIN f = 1 .. Len(f) /\ Len(f) \in Nat
  BY <1>1, LenProperties
<1>3. Len(f) = n
  BY <1>2
<1> QED BY <1>1, <1>3

\* A counter changes in place: the FIFO keeps its length, its epochs and its type.
LEMMA AddUnfinishedType ==
  ASSUME unfinished_epoch_id \in Counters, NEW e \in Nat, NEW d \in Int, AddUnfinished(e, d)
  PROVE  /\ unfinished_epoch_id' \in Counters
         /\ Len(unfinished_epoch_id') = Len(unfinished_epoch_id)
         /\ \A i \in 1 .. Len(unfinished_epoch_id) :
              /\ unfinished_epoch_id'[i].epoch = unfinished_epoch_id[i].epoch
              /\ unfinished_epoch_id'[i].num =
                   IF unfinished_epoch_id[i].epoch = e THEN unfinished_epoch_id[i].num + d
                                                       ELSE unfinished_epoch_id[i].num
<1> DEFINE u == unfinished_epoch_id
<1>1. DOMAIN u = 1 .. Len(u) /\ Len(u) \in Nat /\ u \in [1 .. Len(u) -> [epoch : Nat, num : Int]]
  BY LenProperties DEF Counters
<1>2. u' = [i \in 1 .. Len(u) |-> IF u[i].epoch = e THEN [u[i] EXCEPT !.num = @ + d] ELSE u[i]]
  BY <1>1 DEF AddUnfinished
<1>3. u' \in [1 .. Len(u) -> [epoch : Nat, num : Int]]
  <2>1. ASSUME NEW i \in 1 .. Len(u)
        PROVE (IF u[i].epoch = e THEN [u[i] EXCEPT !.num = @ + d] ELSE u[i]) \in [epoch : Nat, num : Int]
    <3>1. u[i] \in [epoch : Nat, num : Int]
      BY <1>1
    <3>2. u[i].num + d \in Int /\ u[i].epoch \in Nat
      BY <3>1
    <3> QED BY <3>1, <3>2
  <2> QED BY <1>2, <2>1
<1>4. u' \in Seq([epoch : Nat, num : Int]) /\ Len(u') = Len(u)
  BY <1>1, <1>3, FunctionIsSeq
<1>5. ASSUME NEW i \in 1 .. Len(u)
      PROVE  /\ u'[i].epoch = u[i].epoch
             /\ u'[i].num = IF u[i].epoch = e THEN u[i].num + d ELSE u[i].num
  <2>1. u[i] \in [epoch : Nat, num : Int]
    BY <1>1
  <2> QED BY <1>2, <2>1
<1> QED BY <1>4, <1>5 DEF Counters

\* A step of a thread keeps the types.
LEMMA ClientTypes ==
  ASSUME TypeOK, NEW c \in Client, Start(c) \/ ClientStep(c)
  PROVE  TypeOK'
<1>1. CASE Start(c)
  <2>1. /\ pc' = [pc EXCEPT ![c] = "load"]
        /\ commits' = [commits EXCEPT ![c] = @ + 1]
        /\ epoch' = epoch
        /\ UNCHANGED <<shared, locks, epochs, log, server, cside, my_seq>>
    BY <1>1 DEF Start, Goto
  <2>2. commits' \in [Client -> Nat]
    BY SMTT(60), <2>1 DEF TypeOK
  <2> QED BY <2>1, <2>2 DEF TypeOK, shared, locks, epochs, log, server
<1>2. CASE LoadSide(c)
  BY <1>2 DEF TypeOK, LoadSide, Goto, shared, locks, epochs, log, server, client
<1>3. CASE LockQueue(c)
  BY <1>3 DEF TypeOK, LockQueue, Goto, shared, locks, epochs, log, server, client
<1>4. CASE CheckSide(c)
  BY <1>4 DEF TypeOK, CheckSide, Goto, shared, locks, epochs, log, server, client
<1>5. CASE LockClient(c)
  BY <1>5 DEF TypeOK, LockClient, Goto, shared, locks, epochs, log, server, client
<1>6. CASE TestSeq(c)
  BY <1>6 DEF TypeOK, TestSeq, Goto, shared, locks, epochs, log, server, client
<1>7. CASE SpinUntilVisible(c)
  BY <1>7 DEF TypeOK, SpinUntilVisible, Goto, Return, Unset, Side, shared, locks, epochs, log, server, client
<1>8. CASE Push(c)
  <2>1. queue' \in [Side -> Seq(Client)]
    BY <1>8 DEF TypeOK, Push
  <2>2. seq_rear[cside[c]] \in Nat /\ seq_rear[cside[c]] + 1 \in Nat
    BY DEF TypeOK
  <2> QED BY <1>8, <2>1, <2>2 DEF TypeOK, Push, Goto, shared, locks, epochs, log, server, client
<1>9. ASSUME NEW wait \in BOOLEAN, FinishCommit(c, wait) PROVE TypeOK'
  <2>1. unfinished_epoch_id' \in Counters
    BY SMTT(60), <1>9, AddUnfinishedType DEF TypeOK, FinishCommit, Counters
  <2>2. /\ pc' \in [Client -> {"idle", "load", "lock", "check", "push", "pushed", "test", "asleep", "install", "spin"}]
        /\ cside' \in [Client -> Side] /\ my_seq' \in [Client -> Nat] /\ epoch' \in [Client -> Nat]
    <3>1. CASE wait
      BY <1>9, <3>1 DEF TypeOK, FinishCommit, Goto
    <3>2. CASE ~wait
      <4>1. Return(c)
        BY <1>9, <3>2 DEF FinishCommit
      <4> QED BY <4>1 DEF TypeOK, Goto, Return, Unset, Side
    <3> QED BY <3>1, <3>2
  <2>3. UNCHANGED <<shared, locks, global_epoch_id, writing_epoch_id, log, server, commits>>
    BY <1>9 DEF FinishCommit
  <2> QED BY <2>1, <2>2, <2>3 DEF TypeOK, Counters, shared, locks, log, server
<1> QED BY <1>1, <1>2, <1>3, <1>4, <1>5, <1>6, <1>7, <1>8, <1>9 DEF ClientStep

\* A step of the server keeps the types.
LEMMA ServerTypes ==
  ASSUME TypeOK, ServerStep
  PROVE  TypeOK'
<1>1. CASE ServerLoadSide
  BY <1>1 DEF TypeOK, ServerLoadSide, shared, locks, epochs, log, server, client
<1>2. CASE ServerLockQueue
  BY <1>2 DEF TypeOK, ServerLockQueue, shared, locks, epochs, log, server, client
<1>3. CASE TestQueue
  BY <1>3 DEF TypeOK, TestQueue, shared, locks, epochs, log, server, client
<1>4. CASE Park
  BY <1>4 DEF TypeOK, Park, shared, locks, epochs, log, server, client
<1>5. CASE Unpark
  BY <1>5 DEF TypeOK, Unpark, shared, locks, epochs, log, server, client
<1>6. CASE WakeOtherSide
  BY <1>6 DEF TypeOK, WakeOtherSide, Notified, shared, locks, epochs, log, server, client
<1>7. CASE ClaimSleepers
  BY <1>7 DEF TypeOK, ClaimSleepers, shared, locks, epochs, log, server, client
<1>8. CASE ServerExit
  BY <1>8 DEF TypeOK, ServerExit, shared, locks, epochs, log, server, client
<1>9. CASE SyncWal
  <2>1. durable' \in Nat /\ failed' \subseteq Nat
    BY <1>9, LenProperties DEF TypeOK, SyncWal, IoError
  <2>2. spc' = "hold" /\ UNCHANGED <<shared, locks, epochs, wal, sside, group, client>>
    BY <1>9 DEF SyncWal
  <2> QED BY <2>1, <2>2 DEF TypeOK, shared, locks, epochs, client
<1>10. CASE Toggle
  <2>1. 1 - global_client_mutex \in Side
    BY DEF TypeOK, Side
  <2> QED BY <1>10, <2>1 DEF TypeOK, Toggle, shared, locks, epochs, log, server, client
<1>11. CASE PublishEpoch
  <2>1. Head(unfinished_epoch_id) \in [epoch : Nat, num : Int]
        /\ Tail(unfinished_epoch_id) \in Seq([epoch : Nat, num : Int])
    BY <1>11, HeadTailProperties DEF TypeOK, PublishEpoch
  <2> QED BY <1>11, <2>1 DEF TypeOK, PublishEpoch, shared, locks, epochs, log, server, client
<1>12. CASE Seal
  <2>1. queue[sside] \in Seq(Client) /\ Len(queue[sside]) \in Nat /\ writing_epoch_id + 1 \in Nat
    BY LenProperties DEF TypeOK
  <2>2. [epoch |-> writing_epoch_id + 1, num |-> Len(queue[sside])] \in [epoch : Nat, num : Int]
    BY <2>1
  <2>3. unfinished_epoch_id' \in Seq([epoch : Nat, num : Int])
    BY <1>12, <2>2 DEF TypeOK, Seal
  <2>4. queue' \in [Side -> Seq(Client)]
    BY <1>12 DEF TypeOK, Seal
  <2>5. epoch' \in [Client -> Nat] /\ group' \in Seq(Client) /\ writing_epoch_id' \in Nat /\ spc' = "write"
    BY <1>12, <2>1 DEF TypeOK, Seal
  <2> QED BY <1>12, <2>3, <2>4, <2>5 DEF TypeOK, Seal, shared, locks, epochs, log, server, client
<1>13. CASE WriteWal
  <2> DEFINE T == [client : Client, commit : Nat]
             txns == [i \in 1 .. Len(group) |-> Record(group[i])]
  <2>1. group \in [1 .. Len(group) -> Client] /\ Len(group) \in Nat /\ DOMAIN group = 1 .. Len(group)
    BY LenProperties DEF TypeOK
  <2>2. txns \in [1 .. Len(group) -> T]
    BY <2>1 DEF Record, TypeOK
  <2>3. txns \in Seq(T)
    BY <2>1, <2>2, FunctionIsSeq
  <2>4. Group = [epoch |-> writing_epoch_id, txns |-> txns]
    BY <2>1 DEF Group
  <2>5. Group \in [epoch : Nat, txns : Seq(T)]
    BY <2>3, <2>4 DEF TypeOK
  <2>6. Append(wal, Group) \in Seq([epoch : Nat, txns : Seq(T)])
    BY <2>5 DEF TypeOK
  <2> QED BY <1>13, <2>6 DEF TypeOK, WriteWal, IoError, shared, locks, epochs, log, server, client
<1>14. CASE Hold \/ Drop
  <2>1. unfinished_epoch_id' \in Counters
    BY <1>14, AddUnfinishedType DEF TypeOK, Hold, Drop, Counters
  <2>2. CASE Hold
    BY <2>1, <2>2 DEF TypeOK, Hold, Counters, shared, locks, epochs, log, server, client
  <2>3. CASE Drop
    BY SMTT(60), <2>1, <2>3 DEF TypeOK, Drop, Counters, shared, locks, epochs, log, server, client
  <2> QED BY <1>14, <2>2, <2>3
<1>15. CASE Release
  <2>1. seq_front[sside] + Len(group) \in Nat
    BY LenProperties DEF TypeOK
  <2>2. seq_front' \in [Side -> Nat]
    BY <1>15, <2>1 DEF TypeOK, Release
  <2>3. pc' \in [Client -> {"idle", "load", "lock", "check", "push", "pushed", "test", "asleep", "install", "spin"}]
    BY <1>15 DEF TypeOK, Release, Notified
  <2> QED BY <1>15, <2>2, <2>3 DEF TypeOK, Release, shared, locks, epochs, log, server, client
<1> QED BY <1>1, <1>2, <1>3, <1>4, <1>5, <1>6, <1>7, <1>8, <1>9, <1>10, <1>11, <1>12, <1>13, <1>14, <1>15 DEF ServerStep

\* Every variable stays in its type.
LEMMA TypeStep ==
  ASSUME TypeOK, [Next]_vars
  PROVE  TypeOK'
<1>1. CASE Close
  BY <1>1 DEF TypeOK, Close, shared, locks, epochs, log, server, client
<1>2. CASE UNCHANGED vars
  BY <1>2 DEF TypeOK, vars, shared, locks, epochs, log, server, client
<1> QED BY <1>1, <1>2, ClientTypes, ServerTypes DEF Next, Terminated

\* The initial state is well typed.
LEMMA TypeInit == Init => TypeOK
<1> SUFFICES ASSUME Init PROVE TypeOK
  OBVIOUS
<1>1. wal \in Seq([epoch : Nat, txns : Seq([client : Client, commit : Nat])])
      /\ unfinished_epoch_id \in Seq([epoch : Nat, num : Int]) /\ durable \in Nat /\ failed \subseteq Nat
  BY DEF Init
<1>2. group \in Seq(Client) /\ queue \in [Side -> Seq(Client)]
  BY DEF Init
<1> QED BY <1>1, <1>2 DEF Init, TypeOK, Unset, Side

\* The variables keep their types in every behaviour of the commit manager.
THEOREM Typing == Spec => []TypeOK
<1>1. TypeOK /\ [Next]_vars => TypeOK'
  BY TypeStep
<1> QED BY TypeInit, <1>1, PTL DEF Spec

Holding == {"check", "push"}

\* A thread that neither takes nor drops a queue's mutex keeps ClientLockInv.
LEMMA ClientLockKept ==
  ASSUME ClientLockInv, mutex' = mutex,
         \A d \in Client : /\ pc'[d] \in Holding <=> pc[d] \in Holding
                           /\ pc[d] \in Holding => cside'[d] = cside[d]
  PROVE  ClientLockInv'
<1>1. ASSUME NEW m \in Side, NEW d \in Client
      PROVE  mutex'[m] = d <=> pc'[d] \in Holding /\ cside'[d] = m
  <2>1. mutex[m] = d <=> pc[d] \in Holding /\ cside[d] = m
    BY DEF ClientLockInv, Holding
  <2> QED BY <2>1
<1> QED BY <1>1 DEF ClientLockInv, Holding

\* A thread takes the free mutex of its side.
LEMMA ClientLockTaken ==
  ASSUME ClientLockInv, mutex \in [Side -> Client \cup {Server, Free}],
         NEW c \in Client, cside[c] \in Side, mutex[cside[c]] = Free,
         mutex' = [mutex EXCEPT ![cside[c]] = c], pc'[c] \in Holding, cside' = cside,
         \A d \in Client \ {c} : pc'[d] = pc[d]
  PROVE  ClientLockInv'
<1>1. ASSUME NEW m \in Side, NEW d \in Client
      PROVE  mutex'[m] = d <=> pc'[d] \in Holding /\ cside'[d] = m
  <2>1. mutex[m] = d <=> pc[d] \in Holding /\ cside[d] = m
    BY DEF ClientLockInv, Holding
  <2>2. mutex'[m] = IF m = cside[c] THEN c ELSE mutex[m]
    OBVIOUS
  <2>3. d # Free
    BY OwnerAssumption
  <2>4. CASE d = c
    <3>1. mutex[cside[c]] = c <=> pc[c] \in Holding
      BY DEF ClientLockInv, Holding
    <3> QED BY <2>1, <2>2, <2>3, <2>4, <3>1
  <2>5. CASE d # c
    BY <2>1, <2>2, <2>3, <2>5
  <2> QED BY <2>4, <2>5
<1> QED BY <1>1 DEF ClientLockInv, Holding

\* A thread drops the mutex of its side, which it holds.
LEMMA ClientLockDropped ==
  ASSUME ClientLockInv, mutex \in [Side -> Client \cup {Server, Free}],
         NEW c \in Client, cside[c] \in Side, pc[c] \in Holding,
         mutex' = [mutex EXCEPT ![cside[c]] = Free], pc'[c] \notin Holding, cside' = cside,
         \A d \in Client \ {c} : pc'[d] = pc[d]
  PROVE  ClientLockInv'
<1>1. ASSUME NEW m \in Side, NEW d \in Client
      PROVE  mutex'[m] = d <=> pc'[d] \in Holding /\ cside'[d] = m
  <2>1. mutex[m] = d <=> pc[d] \in Holding /\ cside[d] = m
    BY DEF ClientLockInv, Holding
  <2>2. mutex'[m] = IF m = cside[c] THEN Free ELSE mutex[m]
    OBVIOUS
  <2>3. d # Free /\ mutex[cside[c]] = c
    BY OwnerAssumption DEF ClientLockInv, Holding
  <2>4. CASE d = c
    BY <2>1, <2>2, <2>3, <2>4
  <2>5. CASE d # c
    BY <2>1, <2>2, <2>3, <2>5
  <2> QED BY <2>4, <2>5
<1> QED BY <1>1 DEF ClientLockInv, Holding

\* The server takes a free mutex, or drops the one it holds.
LEMMA ClientLockServer ==
  ASSUME ClientLockInv, mutex \in [Side -> Client \cup {Server, Free}],
         NEW s \in Side, NEW o \in {Server, Free}, mutex[s] \in {Server, Free},
         mutex' = [mutex EXCEPT ![s] = o], pc' = pc, cside' = cside
  PROVE  ClientLockInv'
<1>1. ASSUME NEW m \in Side, NEW d \in Client
      PROVE  mutex'[m] = d <=> pc'[d] \in Holding /\ cside'[d] = m
  <2>1. mutex[m] = d <=> pc[d] \in Holding /\ cside[d] = m
    BY DEF ClientLockInv, Holding
  <2>2. mutex'[m] = IF m = s THEN o ELSE mutex[m]
    OBVIOUS
  <2>3. d # Free /\ d # Server
    BY OwnerAssumption
  <2> QED BY <2>1, <2>2, <2>3
<1> QED BY <1>1 DEF ClientLockInv, Holding

\* The threads keep their part of the mutexes' invariant.
LEMMA ClientLockStep ==
  ASSUME TypeOK, LockInv, [Next]_vars
  PROVE  ClientLockInv'
<1>0. ClientLockInv /\ ServerLockInv
  BY DEF LockInv
<1> USE <1>0
<1>1. CASE PublishEpoch \/ ServerLoadSide \/ TestQueue \/ ClaimSleepers \/ Toggle \/ Seal
  BY <1>1, ClientLockKept DEF Holding, PublishEpoch, ServerLoadSide, TestQueue, ClaimSleepers, Toggle,
      Seal, shared, locks, epochs, log, server, client
<1>2. CASE ServerLockQueue \/ Unpark
  BY <1>2, ClientLockServer DEF TypeOK, ServerLockQueue, Unpark, shared, locks, epochs, log, server, client
<1>3. CASE Park
  <2>1. mutex[sside] = Server
    BY <1>3 DEF ServerLockInv, TypeOK, Park
  <2>2. pc' = pc /\ cside' = cside /\ (mutex' = mutex \/ mutex' = [mutex EXCEPT ![sside] = Free])
    BY <1>3 DEF Park, shared, locks, epochs, log, server, client
  <2> QED BY <2>1, <2>2, ClientLockServer, ClientLockKept DEF TypeOK
<1>4. CASE WakeOtherSide
  <2>1. mutex' = mutex /\ cside' = cside /\ pc' = Notified(1 - sside)
    BY <1>4 DEF WakeOtherSide, shared, locks, epochs, log, server, client
  <2> QED BY <2>1, ClientLockKept DEF Holding, Notified
<1>5. CASE ServerExit \/ Hold
  <2>1. mutex[sside] = Server
    BY <1>5 DEF ServerLockInv, TypeOK, ServerExit, Hold
  <2> QED BY <1>5, <2>1, ClientLockServer DEF TypeOK, ServerExit, Hold, shared, locks, epochs, log, server,
      client
<1>6. CASE WriteWal \/ SyncWal \/ Drop \/ Close \/ UNCHANGED vars
  BY <1>6, ClientLockKept DEF Holding, WriteWal, SyncWal, Drop, Close, vars, shared, locks, epochs, log,
      server, client
<1>7. CASE Release
  <2>1. mutex' = mutex /\ cside' = cside /\ pc' = Notified(sside)
    BY <1>7 DEF Release, shared, locks, epochs, log, server, client
  <2> QED BY <2>1, ClientLockKept DEF Holding, Notified
<1>8. ASSUME NEW c \in Client, Start(c) \/ LoadSide(c) \/ LockClient(c) \/ TestSeq(c) PROVE ClientLockInv'
  <2>1. /\ mutex' = mutex /\ pc[c] \notin Holding /\ pc'[c] \notin Holding
        /\ \A d \in Client \ {c} : pc'[d] = pc[d] /\ cside'[d] = cside[d]
    BY <1>8 DEF Holding, TypeOK, Start, LoadSide, LockClient, TestSeq, Goto, shared, locks, epochs, log,
        server, client
  <2> QED BY <2>1, ClientLockKept
<1>9. ASSUME NEW c \in Client, LockQueue(c) PROVE ClientLockInv'
  <2>1. /\ pc'[c] = "check" /\ cside' = cside
        /\ \A d \in Client \ {c} : pc'[d] = pc[d]
    BY <1>9 DEF TypeOK, LockQueue, Goto, shared, locks, epochs, log, server, client
  <2> QED BY <1>9, <2>1, ClientLockTaken DEF TypeOK, LockQueue, Holding
<1>10. ASSUME NEW c \in Client, CheckSide(c) PROVE ClientLockInv'
  <2>1. cside' = cside /\ \A d \in Client \ {c} : pc'[d] = pc[d]
    BY <1>10 DEF TypeOK, CheckSide, Goto, shared, locks, epochs, log, server, client
  <2>2. CASE cside[c] = global_client_mutex
    <3>1. mutex' = mutex /\ pc[c] \in Holding /\ pc'[c] \in Holding
      BY <1>10, <2>2 DEF TypeOK, CheckSide, Goto, Holding
    <3> QED BY <2>1, <3>1, ClientLockKept
  <2>3. CASE cside[c] # global_client_mutex
    <3>1. pc[c] \in Holding /\ pc'[c] \notin Holding /\ mutex' = [mutex EXCEPT ![cside[c]] = Free]
      BY <1>10, <2>3 DEF TypeOK, CheckSide, Goto, Holding
    <3> QED BY <2>1, <3>1, ClientLockDropped DEF TypeOK
  <2> QED BY <2>2, <2>3
<1>11. ASSUME NEW c \in Client, Push(c) PROVE ClientLockInv'
  <2>1. /\ pc'[c] = "pushed" /\ cside' = cside
        /\ \A d \in Client \ {c} : pc'[d] = pc[d]
    BY <1>11 DEF TypeOK, Push, Goto, shared, locks, epochs, log, server, client
  <2> QED BY <1>11, <2>1, ClientLockDropped DEF TypeOK, Push, Holding
<1>12. ASSUME NEW c \in Client, NEW wait \in BOOLEAN, FinishCommit(c, wait) PROVE ClientLockInv'
  <2>1. /\ mutex' = mutex /\ pc[c] = "install"
        /\ pc' = [pc EXCEPT ![c] = "spin"] \/ pc' = [pc EXCEPT ![c] = "idle"]
        /\ cside' = cside \/ cside' = [cside EXCEPT ![c] = 0]
    BY <1>12 DEF FinishCommit, Return, Goto, shared, locks, epochs, log, server, client
  <2>2. /\ mutex' = mutex /\ pc[c] \notin Holding /\ pc'[c] \notin Holding
        /\ \A d \in Client \ {c} : pc'[d] = pc[d] /\ cside'[d] = cside[d]
    BY <2>1 DEF Holding, TypeOK
  <2> QED BY <2>2, ClientLockKept
<1>13. ASSUME NEW c \in Client, SpinUntilVisible(c) PROVE ClientLockInv'
  <2>1. /\ mutex' = mutex /\ pc[c] \notin Holding /\ pc'[c] \notin Holding
        /\ \A d \in Client \ {c} : pc'[d] = pc[d] /\ cside'[d] = cside[d]
    BY <1>13 DEF Holding, TypeOK, SpinUntilVisible, Return, Goto, shared, locks, epochs, log, server, client
  <2> QED BY <2>1, ClientLockKept
<1> QED BY <1>1, <1>2, <1>3, <1>4, <1>5, <1>6, <1>7, <1>8, <1>9, <1>10, <1>11, <1>12, <1>13 DEF Next,
    ServerStep, ClientStep, Terminated

\* The server holds a queue's mutex where its label says.
LEMMA ServerLockStep ==
  ASSUME TypeOK, LockInv, [Next]_vars
  PROVE  ServerLockInv'
<1>0. ClientLockInv /\ ServerLockInv
  BY DEF LockInv
<1> USE <1>0
<1>1. CASE PublishEpoch \/ ServerLoadSide
  BY <1>1 DEF ServerLockInv, TypeOK, Server, Free, PublishEpoch, ServerLoadSide, shared, locks, epochs,
      log, server, client
<1>2. CASE ServerLockQueue \/ TestQueue
  BY <1>2 DEF ServerLockInv, TypeOK, Server, Free, ServerLockQueue, TestQueue, shared, locks, epochs, log,
      server, client
<1>3. CASE Park \/ Unpark
  BY <1>3 DEF ServerLockInv, TypeOK, Server, Free, Park, Unpark, shared, locks, epochs, log, server, client
<1>4. CASE WakeOtherSide \/ ClaimSleepers
  BY <1>4 DEF ServerLockInv, TypeOK, Server, Free, WakeOtherSide, ClaimSleepers, shared, locks, epochs,
      log, server, client
<1>5. CASE Toggle \/ Seal
  BY <1>5 DEF ServerLockInv, TypeOK, Server, Free, Toggle, Seal, shared, locks, epochs, log, server, client
<1>6. CASE ServerExit \/ WriteWal
  BY <1>6 DEF ServerLockInv, TypeOK, Server, Free, ServerExit, WriteWal, shared, locks, epochs, log,
      server, client
<1>7. CASE SyncWal \/ Hold
  BY <1>7 DEF ServerLockInv, TypeOK, Server, Free, SyncWal, Hold, shared, locks, epochs, log, server, client
<1>8. CASE Release \/ Drop
  BY <1>8 DEF ServerLockInv, TypeOK, Server, Free, Release, Drop, shared, locks, epochs, log, server, client
<1>9. ASSUME NEW c \in Client, Start(c) \/ LoadSide(c) PROVE ServerLockInv'
  BY <1>9 DEF ServerLockInv, Start, LoadSide, shared, locks, epochs, log, server, client
<1>10. ASSUME NEW c \in Client, LockQueue(c) \/ Push(c) PROVE ServerLockInv'
  <2>1. spc' = spc /\ sside' = sside
    BY <1>10 DEF LockQueue, Push, shared, locks, epochs, log, server, client
  <2>2. ASSUME NEW m \in Side PROVE mutex'[m] = Server <=> mutex[m] = Server
    BY SMTT(60), <1>10, OwnerAssumption DEF LockQueue, Push, ClientLockInv, TypeOK, Free, Server
  <2> QED BY <2>1, <2>2 DEF ServerLockInv
<1>11. ASSUME NEW c \in Client, CheckSide(c) PROVE ServerLockInv'
  <2>1. spc' = spc /\ sside' = sside
    BY <1>11 DEF CheckSide, shared, locks, epochs, log, server, client
  <2>2. ASSUME NEW m \in Side PROVE mutex'[m] = Server <=> mutex[m] = Server
    <3>1. mutex[cside[c]] = c /\ (mutex' = mutex \/ mutex' = [mutex EXCEPT ![cside[c]] = Free])
      BY <1>11 DEF CheckSide, ClientLockInv, TypeOK
    <3> QED BY <3>1, OwnerAssumption DEF TypeOK, Free, Server
  <2> QED BY <2>1, <2>2 DEF ServerLockInv
<1>12. ASSUME NEW c \in Client, LockClient(c) \/ TestSeq(c) PROVE ServerLockInv'
  BY <1>12 DEF ServerLockInv, LockClient, TestSeq, shared, locks, epochs, log, server, client
<1>13. ASSUME NEW c \in Client, NEW wait \in BOOLEAN, FinishCommit(c, wait) PROVE ServerLockInv'
  BY <1>13 DEF ServerLockInv, FinishCommit, shared, locks, epochs, log, server, client
<1>14. ASSUME NEW c \in Client, SpinUntilVisible(c) PROVE ServerLockInv'
  BY <1>14 DEF ServerLockInv, SpinUntilVisible, shared, locks, epochs, log, server, client
<1>15. CASE Close \/ UNCHANGED vars
  BY <1>15 DEF ServerLockInv, TypeOK, Server, Free, Close, vars, shared, locks, epochs, log, server, client
<1> QED BY <1>1, <1>2, <1>3, <1>4, <1>5, <1>6, <1>7, <1>8, <1>9, <1>10, <1>11, <1>12, <1>13, <1>14,
    <1>15 DEF Next, ServerStep, ClientStep, Terminated

\* The server and the pushing threads stay on the sides SideInv names.
LEMMA SideStep ==
  ASSUME TypeOK, LockInv, SideInv, [Next]_vars
  PROVE  SideInv'
<1>1. CASE PublishEpoch
  BY <1>1, OwnerAssumption DEF TypeOK, LockInv, ServerLockInv, ClientLockInv, SideInv, Side, PublishEpoch,
      shared, locks, epochs, log, server, client
<1>2. CASE ServerLoadSide
  BY <1>2, OwnerAssumption DEF TypeOK, LockInv, ServerLockInv, ClientLockInv, SideInv, Side,
      ServerLoadSide, shared, locks, epochs, log, server, client
<1>3. CASE ServerLockQueue
  BY <1>3, OwnerAssumption DEF TypeOK, LockInv, ServerLockInv, ClientLockInv, SideInv, Side,
      ServerLockQueue, shared, locks, epochs, log, server, client
<1>4. CASE TestQueue
  BY <1>4, OwnerAssumption DEF TypeOK, LockInv, ServerLockInv, ClientLockInv, SideInv, Side, TestQueue,
      shared, locks, epochs, log, server, client
<1>5. CASE Park
  BY <1>5, OwnerAssumption DEF TypeOK, LockInv, ServerLockInv, ClientLockInv, SideInv, Side, Park, shared,
      locks, epochs, log, server, client
<1>6. CASE Unpark
  BY <1>6, OwnerAssumption DEF TypeOK, LockInv, ServerLockInv, ClientLockInv, SideInv, Side, Unpark,
      shared, locks, epochs, log, server, client
<1>7. CASE WakeOtherSide
  BY <1>7, OwnerAssumption DEF TypeOK, LockInv, ServerLockInv, ClientLockInv, SideInv, Side, WakeOtherSide,
      Notified, shared, locks, epochs, log, server, client
<1>8. CASE ClaimSleepers
  BY <1>8, OwnerAssumption DEF TypeOK, LockInv, ServerLockInv, ClientLockInv, SideInv, Side, ClaimSleepers,
      shared, locks, epochs, log, server, client
<1>9. CASE Toggle
  BY SMTT(60), <1>9, OwnerAssumption DEF TypeOK, LockInv, ServerLockInv, ClientLockInv, SideInv, Side, Toggle,
      shared, locks, epochs, log, server, client
<1>10. CASE Seal
  BY <1>10, OwnerAssumption DEF TypeOK, LockInv, ServerLockInv, ClientLockInv, SideInv, Side, Seal, shared,
      locks, epochs, log, server, client
<1>11. CASE ServerExit
  BY <1>11, OwnerAssumption DEF TypeOK, LockInv, ServerLockInv, ClientLockInv, SideInv, Side, ServerExit,
      shared, locks, epochs, log, server, client
<1>12. CASE WriteWal
  BY <1>12, OwnerAssumption DEF TypeOK, LockInv, ServerLockInv, ClientLockInv, SideInv, Side, WriteWal,
      shared, locks, epochs, log, server, client
<1>13. CASE SyncWal
  BY <1>13, OwnerAssumption DEF TypeOK, LockInv, ServerLockInv, ClientLockInv, SideInv, Side, SyncWal,
      shared, locks, epochs, log, server, client
<1>14. CASE Hold
  BY <1>14, OwnerAssumption DEF TypeOK, LockInv, ServerLockInv, ClientLockInv, SideInv, Side, Hold, shared,
      locks, epochs, log, server, client
<1>15. CASE Release
  BY <1>15, OwnerAssumption DEF TypeOK, LockInv, ServerLockInv, ClientLockInv, SideInv, Side, Release,
      Notified, shared, locks, epochs, log, server, client
<1>16. CASE Drop
  BY <1>16, OwnerAssumption DEF TypeOK, LockInv, ServerLockInv, ClientLockInv, SideInv, Side, Drop, shared,
      locks, epochs, log, server, client
<1>17. ASSUME NEW c \in Client, Start(c) PROVE SideInv'
  BY <1>17, OwnerAssumption DEF TypeOK, LockInv, ServerLockInv, ClientLockInv, SideInv, Side, Start, Goto,
      shared, locks, epochs, log, server, client
<1>18. ASSUME NEW c \in Client, LoadSide(c) PROVE SideInv'
  BY <1>18, OwnerAssumption DEF TypeOK, LockInv, ServerLockInv, ClientLockInv, SideInv, Side, LoadSide,
      Goto, shared, locks, epochs, log, server, client
<1>19. ASSUME NEW c \in Client, LockQueue(c) PROVE SideInv'
  BY <1>19, OwnerAssumption DEF TypeOK, LockInv, ServerLockInv, ClientLockInv, SideInv, Side, LockQueue,
      Goto, shared, locks, epochs, log, server, client
<1>20. ASSUME NEW c \in Client, CheckSide(c) PROVE SideInv'
  BY <1>20, OwnerAssumption DEF TypeOK, LockInv, ServerLockInv, ClientLockInv, SideInv, Side, CheckSide,
      Goto, shared, locks, epochs, log, server, client
<1>21. ASSUME NEW c \in Client, Push(c) PROVE SideInv'
  BY <1>21, OwnerAssumption DEF TypeOK, LockInv, ServerLockInv, ClientLockInv, SideInv, Side, Push, Goto,
      shared, locks, epochs, log, server, client
<1>22. ASSUME NEW c \in Client, LockClient(c) PROVE SideInv'
  BY <1>22, OwnerAssumption DEF TypeOK, LockInv, ServerLockInv, ClientLockInv, SideInv, Side, LockClient,
      Goto, shared, locks, epochs, log, server, client
<1>23. ASSUME NEW c \in Client, TestSeq(c) PROVE SideInv'
  BY <1>23, OwnerAssumption DEF TypeOK, LockInv, ServerLockInv, ClientLockInv, SideInv, Side, TestSeq,
      Goto, shared, locks, epochs, log, server, client
<1>24. ASSUME NEW c \in Client, NEW wait \in BOOLEAN, FinishCommit(c, wait) PROVE SideInv'
  BY SMTT(60), <1>24, OwnerAssumption DEF TypeOK, LockInv, ServerLockInv, ClientLockInv, SideInv, Side, FinishCommit,
      Goto, Return, shared, locks, epochs, log, server, client
<1>25. ASSUME NEW c \in Client, SpinUntilVisible(c) PROVE SideInv'
  BY <1>25, OwnerAssumption DEF TypeOK, LockInv, ServerLockInv, ClientLockInv, SideInv, Side,
      SpinUntilVisible, Goto, Return, shared, locks, epochs, log, server, client
<1>26. CASE Close
  BY <1>26, OwnerAssumption DEF TypeOK, LockInv, ServerLockInv, ClientLockInv, SideInv, Side, Close,
      shared, locks, epochs, log, server, client
<1>27. CASE UNCHANGED vars
  BY <1>27, OwnerAssumption DEF TypeOK, LockInv, ServerLockInv, ClientLockInv, SideInv, Side, vars, shared,
      locks, epochs, log, server, client
<1> QED BY <1>1, <1>2, <1>3, <1>4, <1>5, <1>6, <1>7, <1>8, <1>9, <1>10, <1>11, <1>12, <1>13, <1>14, <1>15,
    <1>16, <1>17, <1>18, <1>19, <1>20, <1>21, <1>22, <1>23, <1>24, <1>25, <1>26, <1>27 DEF Next,
    ServerStep, ClientStep, Terminated

\* No commit is pushed into the queue the server has left.
LEMMA StrandStep ==
  ASSUME TypeOK, LockInv, SideInv, NoStrandedCommit, [Next]_vars
  PROVE  NoStrandedCommit'
<1>1. CASE PublishEpoch
  BY <1>1, OwnerAssumption DEF TypeOK, LockInv, ServerLockInv, ClientLockInv, SideInv, Side,
      NoStrandedCommit, PublishEpoch, shared, locks, epochs, log, server, client
<1>2. CASE ServerLoadSide
  BY <1>2, OwnerAssumption DEF TypeOK, LockInv, ServerLockInv, ClientLockInv, SideInv, Side,
      NoStrandedCommit, ServerLoadSide, shared, locks, epochs, log, server, client
<1>3. CASE ServerLockQueue
  BY <1>3, OwnerAssumption DEF TypeOK, LockInv, ServerLockInv, ClientLockInv, SideInv, Side,
      NoStrandedCommit, ServerLockQueue, shared, locks, epochs, log, server, client
<1>4. CASE TestQueue
  BY <1>4, OwnerAssumption DEF TypeOK, LockInv, ServerLockInv, ClientLockInv, SideInv, Side,
      NoStrandedCommit, TestQueue, shared, locks, epochs, log, server, client
<1>5. CASE Park
  BY <1>5, OwnerAssumption DEF TypeOK, LockInv, ServerLockInv, ClientLockInv, SideInv, Side,
      NoStrandedCommit, Park, shared, locks, epochs, log, server, client
<1>6. CASE Unpark
  BY <1>6, OwnerAssumption DEF TypeOK, LockInv, ServerLockInv, ClientLockInv, SideInv, Side,
      NoStrandedCommit, Unpark, shared, locks, epochs, log, server, client
<1>7. CASE WakeOtherSide
  BY <1>7, OwnerAssumption DEF TypeOK, LockInv, ServerLockInv, ClientLockInv, SideInv, Side,
      NoStrandedCommit, WakeOtherSide, Notified, shared, locks, epochs, log, server, client
<1>8. CASE ClaimSleepers
  BY <1>8, OwnerAssumption DEF TypeOK, LockInv, ServerLockInv, ClientLockInv, SideInv, Side,
      NoStrandedCommit, ClaimSleepers, shared, locks, epochs, log, server, client
<1>9. CASE Toggle
  BY <1>9, OwnerAssumption DEF TypeOK, LockInv, ServerLockInv, ClientLockInv, SideInv, Side,
      NoStrandedCommit, Toggle, shared, locks, epochs, log, server, client
<1>10. CASE Seal
  BY <1>10, OwnerAssumption DEF TypeOK, LockInv, ServerLockInv, ClientLockInv, SideInv, Side,
      NoStrandedCommit, Seal, shared, locks, epochs, log, server, client
<1>11. CASE ServerExit
  BY <1>11, OwnerAssumption DEF TypeOK, LockInv, ServerLockInv, ClientLockInv, SideInv, Side,
      NoStrandedCommit, ServerExit, shared, locks, epochs, log, server, client
<1>12. CASE WriteWal
  BY <1>12, OwnerAssumption DEF TypeOK, LockInv, ServerLockInv, ClientLockInv, SideInv, Side,
      NoStrandedCommit, WriteWal, shared, locks, epochs, log, server, client
<1>13. CASE SyncWal
  BY <1>13, OwnerAssumption DEF TypeOK, LockInv, ServerLockInv, ClientLockInv, SideInv, Side,
      NoStrandedCommit, SyncWal, shared, locks, epochs, log, server, client
<1>14. CASE Hold
  BY <1>14, OwnerAssumption DEF TypeOK, LockInv, ServerLockInv, ClientLockInv, SideInv, Side,
      NoStrandedCommit, Hold, shared, locks, epochs, log, server, client
<1>15. CASE Release
  BY <1>15, OwnerAssumption DEF TypeOK, LockInv, ServerLockInv, ClientLockInv, SideInv, Side,
      NoStrandedCommit, Release, Notified, shared, locks, epochs, log, server, client
<1>16. CASE Drop
  BY <1>16, OwnerAssumption DEF TypeOK, LockInv, ServerLockInv, ClientLockInv, SideInv, Side,
      NoStrandedCommit, Drop, shared, locks, epochs, log, server, client
<1>17. ASSUME NEW c \in Client, Start(c) PROVE NoStrandedCommit'
  BY <1>17, OwnerAssumption DEF TypeOK, LockInv, ServerLockInv, ClientLockInv, SideInv, Side,
      NoStrandedCommit, Start, Goto, shared, locks, epochs, log, server, client
<1>18. ASSUME NEW c \in Client, LoadSide(c) PROVE NoStrandedCommit'
  BY <1>18, OwnerAssumption DEF TypeOK, LockInv, ServerLockInv, ClientLockInv, SideInv, Side,
      NoStrandedCommit, LoadSide, Goto, shared, locks, epochs, log, server, client
<1>19. ASSUME NEW c \in Client, LockQueue(c) PROVE NoStrandedCommit'
  BY <1>19, OwnerAssumption DEF TypeOK, LockInv, ServerLockInv, ClientLockInv, SideInv, Side,
      NoStrandedCommit, LockQueue, Goto, shared, locks, epochs, log, server, client
<1>20. ASSUME NEW c \in Client, CheckSide(c) PROVE NoStrandedCommit'
  BY <1>20, OwnerAssumption DEF TypeOK, LockInv, ServerLockInv, ClientLockInv, SideInv, Side,
      NoStrandedCommit, CheckSide, Goto, shared, locks, epochs, log, server, client
<1>21. ASSUME NEW c \in Client, Push(c) PROVE NoStrandedCommit'
  BY <1>21, OwnerAssumption DEF TypeOK, LockInv, ServerLockInv, ClientLockInv, SideInv, Side,
      NoStrandedCommit, Push, Goto, shared, locks, epochs, log, server, client
<1>22. ASSUME NEW c \in Client, LockClient(c) PROVE NoStrandedCommit'
  BY <1>22, OwnerAssumption DEF TypeOK, LockInv, ServerLockInv, ClientLockInv, SideInv, Side,
      NoStrandedCommit, LockClient, Goto, shared, locks, epochs, log, server, client
<1>23. ASSUME NEW c \in Client, TestSeq(c) PROVE NoStrandedCommit'
  BY <1>23, OwnerAssumption DEF TypeOK, LockInv, ServerLockInv, ClientLockInv, SideInv, Side,
      NoStrandedCommit, TestSeq, Goto, shared, locks, epochs, log, server, client
<1>24. ASSUME NEW c \in Client, NEW wait \in BOOLEAN, FinishCommit(c, wait) PROVE NoStrandedCommit'
  BY <1>24, OwnerAssumption DEF TypeOK, LockInv, ServerLockInv, ClientLockInv, SideInv, Side,
      NoStrandedCommit, FinishCommit, Goto, Return, shared, locks, epochs, log, server, client
<1>25. ASSUME NEW c \in Client, SpinUntilVisible(c) PROVE NoStrandedCommit'
  BY <1>25, OwnerAssumption DEF TypeOK, LockInv, ServerLockInv, ClientLockInv, SideInv, Side,
      NoStrandedCommit, SpinUntilVisible, Goto, Return, shared, locks, epochs, log, server, client
<1>26. CASE Close
  BY <1>26, OwnerAssumption DEF TypeOK, LockInv, ServerLockInv, ClientLockInv, SideInv, Side,
      NoStrandedCommit, Close, shared, locks, epochs, log, server, client
<1>27. CASE UNCHANGED vars
  BY <1>27, OwnerAssumption DEF TypeOK, LockInv, ServerLockInv, ClientLockInv, SideInv, Side,
      NoStrandedCommit, vars, shared, locks, epochs, log, server, client
<1> QED BY <1>1, <1>2, <1>3, <1>4, <1>5, <1>6, <1>7, <1>8, <1>9, <1>10, <1>11, <1>12, <1>13, <1>14, <1>15,
    <1>16, <1>17, <1>18, <1>19, <1>20, <1>21, <1>22, <1>23, <1>24, <1>25, <1>26, <1>27 DEF Next,
    ServerStep, ClientStep, Terminated

\* A step that moves no thread into a queue or out of one keeps QueueInv.
LEMMA QueueKept ==
  ASSUME QueueInv, queue' = queue,
         \A d \in Client, m \in Side : InQueue(d, m)' <=> InQueue(d, m)
  PROVE  QueueInv'
BY DEF QueueInv

\* What Append adds to the elements of a sequence, and to one without repetition.
LEMMA AppendMember ==
  ASSUME NEW S, NEW q \in Seq(S), NEW e \in S
  PROVE  /\ \A d : (\E i \in DOMAIN Append(q, e) : Append(q, e)[i] = d)
                     <=> (\E i \in DOMAIN q : q[i] = d) \/ d = e
         /\ (~\E i \in DOMAIN q : q[i] = e) /\ (\A i, j \in DOMAIN q : q[i] = q[j] => i = j)
              => \A i, j \in DOMAIN Append(q, e) : Append(q, e)[i] = Append(q, e)[j] => i = j
<1> DEFINE r == Append(q, e)
           n == Len(q)
<1>1. n \in Nat /\ DOMAIN q = 1 .. n /\ r \in Seq(S) /\ Len(r) = n + 1
  BY LenProperties, AppendProperties
<1>2. DOMAIN r = 1 .. n + 1 /\ r[n + 1] = e /\ \A i \in 1 .. n : r[i] = q[i]
  BY <1>1, LenProperties, AppendProperties
<1>3. \A i \in DOMAIN r : i \in DOMAIN q \/ i = n + 1
  BY <1>1, <1>2
<1>4. n + 1 \in DOMAIN r /\ \A i \in DOMAIN q : i \in DOMAIN r /\ r[i] = q[i]
  BY <1>1, <1>2
<1>5. r[n + 1] = e
  BY <1>2
<1> HIDE DEF r, n
<1>6. \A d : (\E i \in DOMAIN r : r[i] = d) <=> (\E i \in DOMAIN q : q[i] = d) \/ d = e
  BY <1>3, <1>4, <1>5
<1>7. (~\E i \in DOMAIN q : q[i] = e) /\ (\A i, j \in DOMAIN q : q[i] = q[j] => i = j)
        => \A i, j \in DOMAIN r : r[i] = r[j] => i = j
  BY <1>3, <1>4, <1>5
<1> QED BY <1>6, <1>7 DEF r

\* A thread still in a queue is not released.
LEMMA QueuedIsUnreleased ==
  ASSUME TypeOK, QueueInv, SeqInv, NEW c \in Client, NEW m \in Side, InQueue(c, m)
  PROVE  seq_front[m] <= my_seq[c]
<1>1. PICK i \in DOMAIN queue[m] : queue[m][i] = c
  BY DEF QueueInv
<1>2. queue[m] \in Seq(Client) /\ i \in 1 .. Len(queue[m]) /\ Len(queue[m]) \in Nat
  BY <1>1, LenProperties DEF TypeOK
<1>3. my_seq[c] = seq_rear[m] - Len(queue[m]) + i - 1
  BY <1>1 DEF SeqInv
<1>4. seq_rear[m] = seq_front[m] + Len(queue[m]) + Pending(m)
  BY DEF SeqInv
<1>5. Pending(m) \in Nat
  BY LenProperties DEF TypeOK, Pending
<1>6. seq_rear[m] \in Nat /\ seq_front[m] \in Nat
  BY DEF TypeOK
<1> QED BY <1>2, <1>3, <1>4, <1>5, <1>6

\* The queues hold, once each, the threads that wait without an epoch.
LEMMA QueueStep ==
  ASSUME TypeOK, QueueInv, SeqInv, EpochInv, [Next]_vars
  PROVE  QueueInv'
<1>1. CASE PublishEpoch \/ ServerLoadSide \/ ServerLockQueue \/ TestQueue \/ Park \/ Unpark
  <2>1. queue' = queue
    BY <1>1 DEF PublishEpoch, ServerLoadSide, ServerLockQueue, TestQueue, Park, Unpark, shared, locks,
        epochs, log, server, client
  <2>2. \A d \in Client, m \in Side : InQueue(d, m)' <=> InQueue(d, m)
    BY <1>1 DEF InQueue, TypeOK, PublishEpoch, ServerLoadSide, ServerLockQueue, TestQueue, Park, Unpark,
        shared, locks, epochs, log, server, client
  <2> QED BY <2>1, <2>2, QueueKept
<1>2. CASE WakeOtherSide \/ ClaimSleepers \/ Toggle \/ ServerExit \/ WriteWal \/ SyncWal
  <2>1. queue' = queue
    BY <1>2 DEF WakeOtherSide, ClaimSleepers, Toggle, ServerExit, WriteWal, SyncWal, Notified, shared,
        locks, epochs, log, server, client
  <2>2. \A d \in Client, m \in Side : InQueue(d, m)' <=> InQueue(d, m)
    BY <1>2 DEF InQueue, TypeOK, WakeOtherSide, ClaimSleepers, Toggle, ServerExit, WriteWal, SyncWal,
        Notified, shared, locks, epochs, log, server, client
  <2> QED BY <2>1, <2>2, QueueKept
<1>3. CASE Seal
  <2> DEFINE q == queue[sside]
             members == {q[i] : i \in DOMAIN q}
  <2>1. /\ queue' = [queue EXCEPT ![sside] = <<>>] /\ pc' = pc /\ cside' = cside
        /\ epoch' = [d \in Client |-> IF d \in members THEN writing_epoch_id + 1 ELSE epoch[d]]
        /\ writing_epoch_id + 1 # Unset /\ sside \in Side
    BY <1>3 DEF TypeOK, Seal, Unset
  <2>2. \A d \in Client : d \in members <=> InQueue(d, sside)
    BY <2>1 DEF QueueInv
  <2>3. /\ queue'[sside] = <<>> /\ DOMAIN queue'[sside] = {}
        /\ \A m \in Side \ {sside} : queue'[m] = queue[m]
    BY <2>1 DEF TypeOK
  <2>4. ASSUME NEW m \in Side, NEW d \in Client
        PROVE  InQueue(d, m)' <=> InQueue(d, m) /\ m # sside
    <3>1. CASE d \in members
      BY <2>1, <2>2, <3>1 DEF InQueue
    <3>2. CASE d \notin members
      BY <2>1, <2>2, <3>2 DEF InQueue
    <3> QED BY <3>1, <3>2
  <2>5. ASSUME NEW m \in Side, NEW d \in Client
        PROVE  InQueue(d, m)' <=> \E i \in DOMAIN queue'[m] : queue'[m][i] = d
    BY <2>3, <2>4 DEF QueueInv
  <2>6. ASSUME NEW m \in Side
        PROVE  \A i, j \in DOMAIN queue'[m] : queue'[m][i] = queue'[m][j] => i = j
    BY <2>3 DEF QueueInv
  <2> QED BY <2>5, <2>6 DEF QueueInv
<1>4. CASE Hold \/ Release \/ Drop \/ Close \/ UNCHANGED vars
  <2>1. queue' = queue
    BY <1>4 DEF Hold, Release, Drop, Close, vars, Notified, shared, locks, epochs, log, server, client
  <2>2. \A d \in Client, m \in Side : InQueue(d, m)' <=> InQueue(d, m)
    BY <1>4 DEF InQueue, TypeOK, Hold, Release, Drop, Close, vars, Notified, shared, locks, epochs, log,
        server, client
  <2> QED BY <2>1, <2>2, QueueKept
<1>5. ASSUME NEW c \in Client, Start(c) \/ LoadSide(c) \/ LockQueue(c) \/ CheckSide(c) \/ LockClient(c)
    \/ SpinUntilVisible(c) PROVE QueueInv'
  <2>1. queue' = queue
    BY <1>5 DEF Start, LoadSide, LockQueue, CheckSide, LockClient, SpinUntilVisible, Goto, Return, shared,
        locks, epochs, log, server, client
  <2>2. \A d \in Client, m \in Side : InQueue(d, m)' <=> InQueue(d, m)
    BY ZenonT(60), <1>5 DEF InQueue, TypeOK, Start, LoadSide, LockQueue, CheckSide, LockClient, SpinUntilVisible, Goto,
        Return, shared, locks, epochs, log, server, client
  <2> QED BY <2>1, <2>2, QueueKept
<1>6. ASSUME NEW c \in Client, Push(c) PROVE QueueInv'
  <2> DEFINE s == cside[c]
  <2>0. s \in Side /\ queue[s] \in Seq(Client) /\ Len(queue[s]) \in Nat
    BY LenProperties DEF TypeOK
  <2>1. /\ pc[c] = "push" /\ cside' = cside /\ epoch' = epoch
        /\ queue' = [queue EXCEPT ![s] = Append(queue[s], c)]
        /\ pc' = [pc EXCEPT ![c] = "pushed"]
    BY <1>6 DEF Push, Goto
  <2>2. epoch[c] = Unset
    BY <2>1 DEF EpochInv
  <2>3. queue'[s] = Append(queue[s], c) /\ \A m \in Side \ {s} : queue'[m] = queue[m]
    BY <2>0, <2>1 DEF TypeOK
  <2>7. /\ \A d : (\E i \in DOMAIN queue'[s] : queue'[s][i] = d)
                   <=> (\E i \in DOMAIN queue[s] : queue[s][i] = d) \/ d = c
        /\ (~\E i \in DOMAIN queue[s] : queue[s][i] = c)
           /\ (\A i, j \in DOMAIN queue[s] : queue[s][i] = queue[s][j] => i = j)
             => \A i, j \in DOMAIN queue'[s] : queue'[s][i] = queue'[s][j] => i = j
    <3> DEFINE q == queue[s]
    <3>1. q \in Seq(Client)
      BY <2>0
    <3> HIDE DEF q
    <3>2. /\ \A d : (\E i \in DOMAIN Append(q, c) : Append(q, c)[i] = d) <=> (\E i \in DOMAIN q : q[i] = d) \/ d = c
          /\ (~\E i \in DOMAIN q : q[i] = c) /\ (\A i, j \in DOMAIN q : q[i] = q[j] => i = j)
               => \A i, j \in DOMAIN Append(q, c) : Append(q, c)[i] = Append(q, c)[j] => i = j
      BY <3>1, AppendMember
    <3>3. queue'[s] = Append(q, c)
      BY <2>3 DEF q
    <3> QED BY <3>2, <3>3 DEF q
  <2>4. ~InQueue(c, s) /\ ~\E i \in DOMAIN queue[s] : queue[s][i] = c
    BY <2>0, <2>1 DEF QueueInv, InQueue
  <2>5. ASSUME NEW m \in Side
        PROVE  \A i, j \in DOMAIN queue'[m] : queue'[m][i] = queue'[m][j] => i = j
    <3>1. \A i, j \in DOMAIN queue[m] : queue[m][i] = queue[m][j] => i = j
      BY DEF QueueInv
    <3>2. CASE m = s
      BY <2>4, <2>7, <3>1, <3>2
    <3>3. CASE m # s
      BY <2>3, <3>1, <3>3
    <3> QED BY <3>2, <3>3
  <2>6. ASSUME NEW m \in Side, NEW d \in Client
        PROVE  InQueue(d, m)' <=> \E i \in DOMAIN queue'[m] : queue'[m][i] = d
    <3>1. InQueue(d, m) <=> \E i \in DOMAIN queue[m] : queue[m][i] = d
      BY DEF QueueInv
    <3>2. pc'[d] = IF d = c THEN "pushed" ELSE pc[d]
      BY <2>1 DEF TypeOK
    <3>3. InQueue(d, m)' <=> InQueue(d, m) \/ (d = c /\ m = s)
      BY <2>1, <2>2, <3>2 DEF InQueue
    <3>4. CASE m = s
      BY <2>7, <3>1, <3>3, <3>4
    <3>5. CASE m # s
      BY <2>3, <3>1, <3>3, <3>5
    <3> QED BY <3>4, <3>5
  <2> QED BY <2>5, <2>6 DEF QueueInv
<1>7. ASSUME NEW c \in Client, TestSeq(c) PROVE QueueInv'
  <2>1. /\ queue' = queue /\ cside' = cside /\ epoch' = epoch /\ pc[c] = "test"
        /\ pc' = [pc EXCEPT ![c] = IF seq_front[cside[c]] > my_seq[c] THEN "install" ELSE "asleep"]
    BY <1>7 DEF TestSeq, Goto, shared, locks, epochs, log, server, client
  <2>2. CASE seq_front[cside[c]] > my_seq[c]
    <3>1. ASSUME NEW m \in Side, InQueue(c, m) PROVE FALSE
      <4>1. seq_front[m] <= my_seq[c] /\ m = cside[c]
        BY <3>1, QueuedIsUnreleased DEF InQueue
      <4> QED BY <2>2, <4>1 DEF TypeOK
    <3> QED BY <2>1, <2>2, <3>1, QueueKept DEF TypeOK, InQueue
  <2>3. CASE ~(seq_front[cside[c]] > my_seq[c])
    BY <2>1, <2>3, QueueKept DEF TypeOK, InQueue
  <2> QED BY <2>2, <2>3
<1>8. ASSUME NEW c \in Client, NEW wait \in BOOLEAN, FinishCommit(c, wait) PROVE QueueInv'
  <2>1. /\ queue' = queue /\ pc[c] = "install"
        /\ pc' = [pc EXCEPT ![c] = "spin"] \/ pc' = [pc EXCEPT ![c] = "idle"]
        /\ \A d \in Client \ {c} : cside'[d] = cside[d] /\ epoch'[d] = epoch[d]
    <3>1. CASE wait
      BY <1>8, <3>1 DEF FinishCommit, Goto, shared, locks, epochs, log, server, client
    <3>2. CASE ~wait
      BY <1>8, <3>2 DEF TypeOK, FinishCommit, Goto, Return, shared, locks, epochs, log, server, client
    <3> QED BY <3>1, <3>2
  <2> QED BY <2>1, QueueKept DEF TypeOK, InQueue
<1> QED BY <1>1, <1>2, <1>3, <1>4, <1>5, <1>6, <1>7, <1>8 DEF Next, ServerStep, ClientStep, Terminated

\* A step that keeps the queues, the counts and the places of the queued threads.
LEMMA SeqKept ==
  ASSUME SeqInv, UNCHANGED <<queue, seq_front, seq_rear>>,
         \A m \in Side : Pending(m)' = Pending(m),
         \A m \in Side : \A i \in DOMAIN queue[m] : my_seq'[queue[m][i]] = my_seq[queue[m][i]]
  PROVE  SeqInv'
BY DEF SeqInv

\* The elements of the queues are threads that wait there.
LEMMA QueueMember ==
  ASSUME TypeOK, QueueInv, NEW m \in Side, NEW i \in DOMAIN queue[m]
  PROVE  queue[m][i] \in Client /\ InQueue(queue[m][i], m)
<1>1. queue[m][i] \in Client
  BY ElementOfSeq, LenProperties DEF TypeOK
<1> QED BY <1>1 DEF QueueInv

\* seq_front, seq_rear and my_seq count what SeqInv says.
LEMMA SeqStep ==
  ASSUME TypeOK, QueueInv, SeqInv, [Next]_vars
  PROVE  SeqInv'
<1>1. CASE PublishEpoch \/ ServerLoadSide \/ ServerLockQueue \/ TestQueue \/ Park \/ Unpark
  <2>1. UNCHANGED <<queue, seq_front, seq_rear, my_seq>>
    BY <1>1 DEF PublishEpoch, ServerLoadSide, ServerLockQueue, TestQueue, Park, Unpark, shared, locks,
        epochs, log, server, client
  <2>2. \A m \in Side : Pending(m)' = Pending(m)
    BY <1>1 DEF Pending, PublishEpoch, ServerLoadSide, ServerLockQueue, TestQueue, Park, Unpark, shared,
        locks, epochs, log, server, client
  <2> QED BY <2>1, <2>2, SeqKept
<1>2. CASE WakeOtherSide \/ ClaimSleepers \/ Toggle \/ ServerExit \/ WriteWal \/ SyncWal
  <2>1. UNCHANGED <<queue, seq_front, seq_rear, my_seq>>
    BY <1>2 DEF WakeOtherSide, ClaimSleepers, Toggle, ServerExit, WriteWal, SyncWal, shared, locks, epochs,
        log, server, client
  <2>2. \A m \in Side : Pending(m)' = Pending(m)
    BY <1>2 DEF Pending, WakeOtherSide, ClaimSleepers, Toggle, ServerExit, WriteWal, SyncWal, shared,
        locks, epochs, log, server, client
  <2> QED BY <2>1, <2>2, SeqKept
<1>3. CASE Seal
  <2>1. /\ queue' = [queue EXCEPT ![sside] = <<>>] /\ group' = queue[sside]
        /\ UNCHANGED <<seq_front, seq_rear, my_seq, sside>> /\ spc = "seal" /\ spc' = "write"
    BY <1>3 DEF Seal
  <2>2. sside \in Side /\ queue'[sside] = <<>> /\ \A m \in Side \ {sside} : queue'[m] = queue[m]
    BY <2>1 DEF TypeOK
  <2>3. ASSUME NEW m \in Side
        PROVE  /\ seq_rear'[m] = seq_front'[m] + Len(queue'[m]) + Pending(m)'
               /\ \A i \in DOMAIN queue'[m] : my_seq'[queue'[m][i]] = seq_rear'[m] - Len(queue'[m]) + i - 1
    <3>1. /\ seq_rear[m] = seq_front[m] + Len(queue[m]) + Pending(m)
          /\ \A i \in DOMAIN queue[m] : my_seq[queue[m][i]] = seq_rear[m] - Len(queue[m]) + i - 1
      BY DEF SeqInv
    <3>2. seq_front[m] \in Nat /\ seq_rear[m] \in Nat /\ Len(queue[m]) \in Nat
      BY LenProperties DEF TypeOK
    <3>3. CASE m = sside
      <4>1. Pending(m) = 0 /\ Pending(m)' = Len(queue[m])
        BY <2>1, <3>3 DEF Pending
      <4>2. Len(queue'[m]) = 0 /\ DOMAIN queue'[m] = {}
        BY <2>2, <3>3
      <4> QED BY <2>1, <3>1, <3>2, <4>1, <4>2
    <3>4. CASE m # sside
      <4>1. Pending(m) = 0 /\ Pending(m)' = 0
        BY <2>1, <3>4 DEF Pending
      <4> QED BY <2>1, <2>2, <3>1, <3>4, <4>1
    <3> QED BY <3>3, <3>4
  <2> QED BY <2>3 DEF SeqInv
<1>4. CASE Hold \/ Drop \/ Close \/ UNCHANGED vars
  <2>1. UNCHANGED <<queue, seq_front, seq_rear, my_seq>>
    BY <1>4 DEF Hold, Drop, Close, vars, shared, locks, epochs, log, server, client
  <2>2. \A m \in Side : Pending(m)' = Pending(m)
    BY <1>4 DEF Pending, Hold, Drop, Close, vars, shared, locks, epochs, log, server, client
  <2> QED BY <2>1, <2>2, SeqKept
<1>5. CASE Release
  <2>1. /\ queue' = queue /\ seq_rear' = seq_rear /\ my_seq' = my_seq
        /\ seq_front' = [seq_front EXCEPT ![sside] = seq_front[sside] + Len(group)]
        /\ sside' = sside /\ spc = "release" /\ spc' = "drop"
    BY <1>5 DEF Release
  <2>2. Len(group) \in Nat
    BY LenProperties DEF TypeOK
  <2>3. ASSUME NEW m \in Side
        PROVE  seq_rear'[m] = seq_front'[m] + Len(queue'[m]) + Pending(m)'
    <3>1. seq_rear[m] = seq_front[m] + Len(queue[m]) + Pending(m)
      BY DEF SeqInv
    <3>2. seq_front[m] \in Nat /\ seq_rear[m] \in Nat /\ Len(queue[m]) \in Nat
      BY LenProperties DEF TypeOK
    <3>3. CASE m = sside
      <4>1. Pending(m) = Len(group) /\ Pending(m)' = 0
        BY <2>1, <3>3 DEF Pending
      <4>2. seq_front'[m] = seq_front[m] + Len(group)
        BY <2>1, <3>3 DEF TypeOK
      <4> QED BY <2>1, <2>2, <3>1, <3>2, <4>1, <4>2
    <3>4. CASE m # sside
      <4>1. Pending(m) = 0 /\ Pending(m)' = 0 /\ seq_front'[m] = seq_front[m]
        BY <2>1, <3>4 DEF Pending, TypeOK
      <4> QED BY <2>1, <3>1, <4>1
    <3> QED BY <3>3, <3>4
  <2> QED BY <2>1, <2>3 DEF SeqInv
<1>6. ASSUME NEW c \in Client, Start(c) \/ LoadSide(c) \/ LockQueue(c) \/ CheckSide(c) \/ LockClient(c)
    \/ TestSeq(c) PROVE SeqInv'
  <2>1. UNCHANGED <<queue, seq_front, seq_rear, my_seq>>
    BY <1>6 DEF Start, LoadSide, LockQueue, CheckSide, LockClient, TestSeq, Goto, shared, locks, epochs,
        log, server, client
  <2>2. \A m \in Side : Pending(m)' = Pending(m)
    BY <1>6 DEF Pending, Start, LoadSide, LockQueue, CheckSide, LockClient, TestSeq, Goto, shared, locks,
        epochs, log, server, client
  <2> QED BY <2>1, <2>2, SeqKept
<1>7. ASSUME NEW c \in Client, Push(c) PROVE SeqInv'
  <2> DEFINE s == cside[c]
  <2>1. /\ s \in Side /\ queue[s] \in Seq(Client) /\ Len(queue[s]) \in Nat /\ seq_rear[s] \in Nat
        /\ DOMAIN queue[s] = 1 .. Len(queue[s])
    BY LenProperties DEF TypeOK
  <2>2. /\ pc[c] = "push" /\ UNCHANGED <<seq_front, spc, sside, group>>
        /\ queue' = [queue EXCEPT ![s] = Append(queue[s], c)]
        /\ my_seq' = [my_seq EXCEPT ![c] = seq_rear[s]]
        /\ seq_rear' = [seq_rear EXCEPT ![s] = seq_rear[s] + 1]
    BY <1>7 DEF Push, server
  <2>3. /\ queue'[s] = Append(queue[s], c) /\ my_seq'[c] = seq_rear[s] /\ seq_rear'[s] = seq_rear[s] + 1
        /\ \A m \in Side \ {s} : queue'[m] = queue[m] /\ seq_rear'[m] = seq_rear[m]
        /\ \A d \in Client \ {c} : my_seq'[d] = my_seq[d]
    BY <2>1, <2>2 DEF TypeOK
  <2>4. \A m \in Side : \A i \in DOMAIN queue[m] : queue[m][i] \in Client \ {c}
    BY <2>2, QueueMember DEF QueueInv, InQueue
  <2>5. ASSUME NEW m \in Side
        PROVE  /\ seq_rear'[m] = seq_front'[m] + Len(queue'[m]) + Pending(m)'
               /\ \A i \in DOMAIN queue'[m] : my_seq'[queue'[m][i]] = seq_rear'[m] - Len(queue'[m]) + i - 1
    <3>1. /\ seq_rear[m] = seq_front[m] + Len(queue[m]) + Pending(m)
          /\ \A i \in DOMAIN queue[m] : my_seq[queue[m][i]] = seq_rear[m] - Len(queue[m]) + i - 1
      BY DEF SeqInv
    <3>2. Pending(m)' = Pending(m)
      BY <2>2 DEF Pending
    <3>3. CASE m = s
      <4> DEFINE q == queue[s]
                 r == queue'[s]
      <4>1. /\ Len(r) = Len(q) + 1 /\ r[Len(q) + 1] = c /\ DOMAIN r = 1 .. Len(q) + 1
            /\ \A i \in 1 .. Len(q) : r[i] = q[i]
        BY <2>1, <2>3, AppendProperties, LenProperties
      <4>2. Pending(m) \in Nat /\ seq_front[m] \in Nat
        BY LenProperties DEF TypeOK, Pending
      <4>3. seq_rear'[m] = seq_front'[m] + Len(r) + Pending(m)'
        BY <2>1, <2>2, <2>3, <3>1, <3>2, <3>3, <4>1, <4>2
      <4>4. ASSUME NEW i \in DOMAIN r
            PROVE  my_seq'[r[i]] = seq_rear'[m] - Len(r) + i - 1
        <5>1. CASE i = Len(q) + 1
          <6>1. my_seq'[r[i]] = seq_rear[s]
            BY <2>3, <4>1, <5>1
          <6>2. seq_rear'[m] = seq_rear[s] + 1 /\ Len(r) = Len(q) + 1 /\ seq_rear[s] \in Nat /\ Len(q) \in Nat
            BY <2>1, <2>3, <3>3, <4>1
          <6> HIDE DEF q, r, s
          <6> QED BY <5>1, <6>1, <6>2
        <5>2. CASE i # Len(q) + 1
          <6>1. i \in 1 .. Len(q) /\ i \in DOMAIN q
            BY <2>1, <4>1, <5>2
          <6>2. my_seq'[q[i]] = my_seq[q[i]]
            BY <2>1, <2>3, <2>4, <6>1
          <6>3. my_seq[q[i]] = seq_rear[s] - Len(q) + i - 1
            BY <3>1, <3>3, <6>1
          <6> HIDE DEF q, r, s
          <6>4. my_seq'[r[i]] = seq_rear[s] - Len(q) + i - 1
            BY <4>1, <6>1, <6>2, <6>3
          <6>5. seq_rear'[m] = seq_rear[s] + 1 /\ Len(r) = Len(q) + 1
            BY <2>3, <3>3, <4>1
          <6>6. seq_rear[s] \in Nat /\ Len(q) \in Nat
            BY <2>1 DEF q
          <6> QED BY SMTT(60), <6>1, <6>4, <6>5, <6>6
        <5> QED BY <5>1, <5>2
      <4> QED BY <3>3, <4>3, <4>4
    <3>4. CASE m # s
      <4>1. queue'[m] = queue[m] /\ seq_rear'[m] = seq_rear[m] /\ seq_front'[m] = seq_front[m]
        BY <2>2, <2>3, <3>4
      <4>2. \A i \in DOMAIN queue[m] : my_seq'[queue[m][i]] = my_seq[queue[m][i]]
        BY <2>3, <2>4
      <4> QED BY <3>1, <3>2, <4>1, <4>2
    <3> QED BY <3>3, <3>4
  <2> QED BY <2>5 DEF SeqInv
<1>8. ASSUME NEW c \in Client, NEW wait \in BOOLEAN, FinishCommit(c, wait) PROVE SeqInv'
  <2>1. UNCHANGED <<queue, seq_front, seq_rear, spc, sside, group>>
    BY <1>8 DEF FinishCommit, shared, server
  <2>2. pc[c] \in {"install", "spin"} /\ \A d \in Client \ {c} : my_seq'[d] = my_seq[d]
    BY <1>8 DEF TypeOK, FinishCommit, Goto, Return, shared, locks, epochs, log, server, client
  <2>3. ASSUME NEW m \in Side, NEW i \in DOMAIN queue[m]
        PROVE  queue[m][i] \in Client \ {c}
    BY <2>2, QueueMember DEF QueueInv, InQueue
  <2> QED BY <2>1, <2>2, <2>3, SeqKept DEF Pending
<1>9. ASSUME NEW c \in Client, SpinUntilVisible(c) PROVE SeqInv'
  <2>1. UNCHANGED <<queue, seq_front, seq_rear, spc, sside, group>>
    BY <1>9 DEF SpinUntilVisible, shared, server
  <2>2. pc[c] \in {"install", "spin"} /\ \A d \in Client \ {c} : my_seq'[d] = my_seq[d]
    BY <1>9 DEF TypeOK, SpinUntilVisible, Goto, Return, shared, locks, epochs, log, server, client
  <2>3. ASSUME NEW m \in Side, NEW i \in DOMAIN queue[m]
        PROVE  queue[m][i] \in Client \ {c}
    BY <2>2, QueueMember DEF QueueInv, InQueue
  <2> QED BY <2>1, <2>2, <2>3, SeqKept DEF Pending
<1> QED BY <1>1, <1>2, <1>3, <1>4, <1>5, <1>6, <1>7, <1>8, <1>9 DEF Next, ServerStep, ClientStep, Terminated

\* A thread has an epoch exactly from the group's forming to the end of its commit.
LEMMA EpochStep ==
  ASSUME TypeOK, QueueInv, SeqInv, EpochInv, [Next]_vars
  PROVE  EpochInv'
<1>1. CASE PublishEpoch \/ ServerLoadSide \/ ServerLockQueue \/ TestQueue \/ Park \/ Unpark
  <2>1. UNCHANGED <<pc, epoch, writing_epoch_id>>
    BY <1>1 DEF PublishEpoch, ServerLoadSide, ServerLockQueue, TestQueue, Park, Unpark, shared, locks,
        epochs, log, server, client
  <2> QED BY <2>1 DEF EpochInv
<1>2. CASE WakeOtherSide
  BY <1>2 DEF TypeOK, EpochInv, Unset, WakeOtherSide, Notified, shared, locks, epochs, log, server, client
<1>3. CASE ClaimSleepers \/ Toggle \/ ServerExit \/ WriteWal \/ SyncWal \/ Hold
  <2>1. UNCHANGED <<pc, epoch, writing_epoch_id>>
    BY <1>3 DEF ClaimSleepers, Toggle, ServerExit, WriteWal, SyncWal, Hold, shared, locks, epochs, log,
        server, client
  <2> QED BY <2>1 DEF EpochInv
<1>4. CASE Seal
  <2> DEFINE members == {queue[sside][i] : i \in DOMAIN queue[sside]}
  <2>1. /\ pc' = pc /\ writing_epoch_id' = writing_epoch_id + 1
        /\ epoch' = [d \in Client |-> IF d \in members THEN writing_epoch_id + 1 ELSE epoch[d]]
    BY <1>4 DEF Seal
  <2>2. \A d \in members : pc[d] \in {"pushed", "test", "asleep"}
    <3>1. sside \in Side
      BY DEF TypeOK
    <3>2. \A i \in DOMAIN queue[sside] : InQueue(queue[sside][i], sside)
      BY <3>1, QueueMember
    <3> QED BY <3>2 DEF InQueue
  <2> HIDE DEF members
  <2>3. ASSUME NEW d \in Client
        PROVE  /\ epoch'[d] <= writing_epoch_id'
               /\ pc'[d] \in {"idle", "load", "lock", "check", "push"} => epoch'[d] = Unset
               /\ pc'[d] \in {"install", "spin"} => epoch'[d] # Unset
    <3>1. epoch[d] <= writing_epoch_id /\ epoch[d] \in Nat /\ writing_epoch_id \in Nat
      BY DEF EpochInv, TypeOK
    <3>2. CASE d \in members
      BY <2>1, <2>2, <3>1, <3>2
    <3>3. CASE d \notin members
      BY <2>1, <3>1, <3>3 DEF EpochInv
    <3> QED BY <3>2, <3>3
  <2> QED BY <2>3 DEF EpochInv
<1>5. CASE Release
  BY <1>5 DEF TypeOK, EpochInv, Unset, Release, Notified, shared, locks, epochs, log, server, client
<1>6. CASE Drop \/ Close \/ UNCHANGED vars
  <2>1. UNCHANGED <<pc, epoch, writing_epoch_id>>
    BY <1>6 DEF Drop, Close, vars, shared, locks, epochs, log, server, client
  <2> QED BY <2>1 DEF EpochInv
<1>7. ASSUME NEW c \in Client, Start(c) PROVE EpochInv'
  BY <1>7 DEF TypeOK, EpochInv, Unset, Start, Goto, shared, locks, epochs, log, server, client
<1>8. ASSUME NEW c \in Client, LoadSide(c) PROVE EpochInv'
  BY <1>8 DEF TypeOK, EpochInv, Unset, LoadSide, Goto, shared, locks, epochs, log, server, client
<1>9. ASSUME NEW c \in Client, LockQueue(c) PROVE EpochInv'
  BY <1>9 DEF TypeOK, EpochInv, Unset, LockQueue, Goto, shared, locks, epochs, log, server, client
<1>10. ASSUME NEW c \in Client, CheckSide(c) PROVE EpochInv'
  BY <1>10 DEF TypeOK, EpochInv, Unset, CheckSide, Goto, shared, locks, epochs, log, server, client
<1>11. ASSUME NEW c \in Client, Push(c) PROVE EpochInv'
  BY <1>11 DEF TypeOK, EpochInv, Unset, Push, Goto, shared, locks, epochs, log, server, client
<1>12. ASSUME NEW c \in Client, LockClient(c) PROVE EpochInv'
  BY <1>12 DEF TypeOK, EpochInv, Unset, LockClient, Goto, shared, locks, epochs, log, server, client
<1>13. ASSUME NEW c \in Client, TestSeq(c) PROVE EpochInv'
  <2>1. /\ pc[c] = "test" /\ epoch' = epoch /\ writing_epoch_id' = writing_epoch_id
        /\ pc' = [pc EXCEPT ![c] = IF seq_front[cside[c]] > my_seq[c] THEN "install" ELSE "asleep"]
    BY <1>13 DEF TestSeq, Goto, epochs
  <2>2. CASE seq_front[cside[c]] > my_seq[c]
    <3>1. epoch[c] # Unset
      <4>1. ASSUME epoch[c] = Unset PROVE FALSE
        <5>1. InQueue(c, cside[c]) /\ cside[c] \in Side
          BY <2>1, <4>1 DEF InQueue, TypeOK
        <5>2. seq_front[cside[c]] <= my_seq[c]
          BY <5>1, QueuedIsUnreleased
        <5> QED BY <2>2, <5>1, <5>2 DEF TypeOK
      <4> QED BY <4>1
    <3> QED BY <2>1, <2>2, <3>1 DEF TypeOK, EpochInv
  <2>3. CASE ~(seq_front[cside[c]] > my_seq[c])
    BY <2>1, <2>3 DEF TypeOK, EpochInv
  <2> QED BY <2>2, <2>3
<1>14. ASSUME NEW c \in Client, NEW wait \in BOOLEAN, FinishCommit(c, wait) PROVE EpochInv'
  <2>1. CASE wait
    BY <1>14, <2>1 DEF TypeOK, EpochInv, FinishCommit, Goto, shared, locks, epochs, log, server, client
  <2>2. CASE ~wait
    <3>1. Return(c) /\ writing_epoch_id' = writing_epoch_id
      BY <1>14, <2>2 DEF FinishCommit
    <3> QED BY <3>1 DEF TypeOK, EpochInv, Unset, Return, Goto
  <2> QED BY <2>1, <2>2
<1>15. ASSUME NEW c \in Client, SpinUntilVisible(c) PROVE EpochInv'
  BY <1>15 DEF TypeOK, EpochInv, Unset, SpinUntilVisible, Goto, Return, shared, locks, epochs, log, server,
      client
<1> QED BY <1>1, <1>2, <1>3, <1>4, <1>5, <1>6, <1>7, <1>8, <1>9, <1>10, <1>11, <1>12, <1>13, <1>14,
    <1>15 DEF Next, ServerStep, ClientStep, Terminated

\* What Tail does to a FIFO of counters.
TailFacts(u) ==
  /\ Len(u) \in Nat \ {0} /\ DOMAIN u = 1 .. Len(u) /\ Len(Tail(u)) = Len(u) - 1
  /\ Head(u) = u[1] /\ 1 \in DOMAIN u
  /\ \A i \in DOMAIN Tail(u) : i \in Nat \ {0} /\ i + 1 \in DOMAIN u /\ Tail(u)[i] = u[i + 1]
  /\ \A i \in DOMAIN u : i # 1 => i - 1 \in DOMAIN Tail(u) /\ Tail(u)[i - 1] = u[i]

LEMMA TailOfCounters ==
  ASSUME NEW u \in Counters, u # <<>>
  PROVE  TailFacts(u)
<1>1. Len(u) \in Nat /\ DOMAIN u = 1 .. Len(u) /\ Len(u) # 0
  BY LenProperties, EmptySeq DEF Counters
<1>2. Tail(u) \in Counters /\ Len(Tail(u)) = Len(u) - 1 /\ \A i \in 1 .. Len(u) - 1 : Tail(u)[i] = u[i + 1]
  BY <1>1, HeadTailProperties DEF Counters
<1>3. Head(u) = u[1]
  BY <1>1 DEF Counters
<1>4. DOMAIN Tail(u) = 1 .. Len(u) - 1
  BY <1>1, <1>2, LenProperties DEF Counters
<1>5. \A i \in DOMAIN Tail(u) : i \in Nat \ {0} /\ i + 1 \in DOMAIN u /\ Tail(u)[i] = u[i + 1]
  BY <1>1, <1>2, <1>4
<1>6. ASSUME NEW i \in DOMAIN u, i # 1
      PROVE  i - 1 \in DOMAIN Tail(u) /\ Tail(u)[i - 1] = u[i]
  <2>1. i \in Nat /\ i - 1 \in 1 .. Len(u) - 1 /\ (i - 1) + 1 = i
    BY <1>1, <1>6
  <2> QED BY <1>2, <1>4, <2>1
<1>7. \A i \in DOMAIN u : i # 1 => i - 1 \in DOMAIN Tail(u) /\ Tail(u)[i - 1] = u[i]
  BY <1>6
<1>8. Len(u) \in Nat \ {0} /\ 1 \in DOMAIN u
  BY <1>1
<1> QED BY <1>1, <1>2, <1>3, <1>5, <1>7, <1>8 DEF TailFacts

\* The FIFO holds consecutive epochs.
LEMMA FifoStep ==
  ASSUME TypeOK, FifoInv, [Next]_vars
  PROVE  FifoInv'
<1>1. CASE PublishEpoch
  <2> DEFINE u == unfinished_epoch_id
  <2>1. /\ u \in Counters /\ u # <<>> /\ u' = Tail(u) /\ global_epoch_id' = Head(u).epoch
        /\ writing_epoch_id' = writing_epoch_id
    BY <1>1 DEF PublishEpoch, TypeOK, Counters
  <2>2. TailFacts(u)
    BY <2>1, TailOfCounters
  <2>3. global_epoch_id \in Nat /\ writing_epoch_id \in Nat
    BY DEF TypeOK
  <2>4. global_epoch_id' = global_epoch_id + 1
    BY <2>1, <2>2 DEF FifoInv, TailFacts
  <2>5. writing_epoch_id' = global_epoch_id' + Len(u')
    BY <2>1, <2>2, <2>3, <2>4 DEF FifoInv, TailFacts
  <2>6. ASSUME NEW i \in DOMAIN u' PROVE u'[i].epoch = global_epoch_id' + i
    <3>1. i \in Nat /\ i + 1 \in DOMAIN u /\ u'[i] = u[i + 1]
      BY <2>1, <2>2 DEF TailFacts
    <3>2. u[i + 1].epoch = global_epoch_id + (i + 1)
      BY <3>1 DEF FifoInv
    <3> QED BY <2>3, <2>4, <3>1, <3>2
  <2> QED BY <2>5, <2>6 DEF FifoInv
<1>2. CASE ServerLoadSide \/ ServerLockQueue \/ TestQueue \/ Park \/ Unpark \/ WakeOtherSide
  <2>1. UNCHANGED epochs
    BY <1>2 DEF ServerLoadSide, ServerLockQueue, TestQueue, Park, Unpark, WakeOtherSide, shared, locks,
        epochs, log, server, client
  <2> QED BY <2>1 DEF FifoInv, epochs
<1>3. CASE ClaimSleepers \/ Toggle \/ ServerExit \/ WriteWal \/ SyncWal \/ Release
  <2>1. UNCHANGED epochs
    BY <1>3 DEF ClaimSleepers, Toggle, ServerExit, WriteWal, SyncWal, Release, shared, locks, epochs, log,
        server, client
  <2> QED BY <2>1 DEF FifoInv, epochs
<1>4. CASE Seal
  <2> DEFINE u == unfinished_epoch_id
             new == [epoch |-> writing_epoch_id + 1, num |-> Len(queue[sside])]
  <2>1. /\ u \in Counters /\ u' = Append(u, new) /\ global_epoch_id' = global_epoch_id
        /\ writing_epoch_id' = writing_epoch_id + 1 /\ writing_epoch_id \in Nat /\ global_epoch_id \in Nat
        /\ Len(u) \in Nat /\ DOMAIN u = 1 .. Len(u)
    BY <1>4, LenProperties DEF Seal, TypeOK, Counters
  <2>2. Len(queue[sside]) \in Nat
    BY LenProperties DEF TypeOK
  <2>3. new \in [epoch : Nat, num : Int]
    BY <2>1, <2>2
  <2>4. /\ Len(u') = Len(u) + 1 /\ u'[Len(u) + 1] = new /\ \A i \in 1 .. Len(u) : u'[i] = u[i]
        /\ DOMAIN u' = 1 .. Len(u) + 1
    BY <2>1, <2>3, AppendProperties, LenProperties DEF Counters
  <2>5. writing_epoch_id = global_epoch_id + Len(u)
    BY DEF FifoInv
  <2>6. ASSUME NEW i \in DOMAIN u' PROVE u'[i].epoch = global_epoch_id' + i
    <3>1. CASE i = Len(u) + 1
      BY <2>1, <2>4, <2>5, <3>1
    <3>2. CASE i # Len(u) + 1
      BY <2>1, <2>4, <3>2 DEF FifoInv
    <3> QED BY <3>1, <3>2
  <2> QED BY <2>1, <2>4, <2>5, <2>6 DEF FifoInv
<1>5. CASE Hold
  <2>1. /\ AddUnfinished(writing_epoch_id, 1) /\ unfinished_epoch_id \in Counters /\ writing_epoch_id \in Nat
        /\ UNCHANGED <<global_epoch_id, writing_epoch_id>>
    BY <1>5 DEF Hold, TypeOK, Counters
  <2>2. /\ Len(unfinished_epoch_id') = Len(unfinished_epoch_id)
        /\ \A i \in DOMAIN unfinished_epoch_id' : unfinished_epoch_id'[i].epoch = unfinished_epoch_id[i].epoch
        /\ DOMAIN unfinished_epoch_id' = DOMAIN unfinished_epoch_id
    <3>1. /\ unfinished_epoch_id' \in Counters /\ Len(unfinished_epoch_id') = Len(unfinished_epoch_id)
          /\ \A i \in 1 .. Len(unfinished_epoch_id) : unfinished_epoch_id'[i].epoch = unfinished_epoch_id[i].epoch
      BY <2>1, AddUnfinishedType
    <3> QED BY <2>1, <3>1, LenProperties DEF Counters
  <2> QED BY <2>1, <2>2 DEF FifoInv
<1>6. CASE Drop
  <2>1. /\ AddUnfinished(writing_epoch_id, -1) /\ unfinished_epoch_id \in Counters /\ writing_epoch_id \in Nat
        /\ UNCHANGED <<global_epoch_id, writing_epoch_id>>
    BY <1>6 DEF Drop, TypeOK, Counters
  <2>2. /\ Len(unfinished_epoch_id') = Len(unfinished_epoch_id)
        /\ \A i \in DOMAIN unfinished_epoch_id' : unfinished_epoch_id'[i].epoch = unfinished_epoch_id[i].epoch
        /\ DOMAIN unfinished_epoch_id' = DOMAIN unfinished_epoch_id
    <3>1. /\ unfinished_epoch_id' \in Counters /\ Len(unfinished_epoch_id') = Len(unfinished_epoch_id)
          /\ \A i \in 1 .. Len(unfinished_epoch_id) : unfinished_epoch_id'[i].epoch = unfinished_epoch_id[i].epoch
      BY <2>1, AddUnfinishedType
    <3> QED BY <2>1, <3>1, LenProperties DEF Counters
  <2> QED BY <2>1, <2>2 DEF FifoInv
<1>7. ASSUME NEW c \in Client, Start(c) \/ LoadSide(c) \/ LockQueue(c) \/ CheckSide(c) \/ Push(c)
    \/ LockClient(c) PROVE FifoInv'
  <2>1. UNCHANGED epochs
    BY <1>7 DEF Start, LoadSide, LockQueue, CheckSide, Push, LockClient, shared, locks, epochs, log,
        server, client
  <2> QED BY <2>1 DEF FifoInv, epochs
<1>8. ASSUME NEW c \in Client, TestSeq(c) \/ SpinUntilVisible(c) PROVE FifoInv'
  <2>1. UNCHANGED epochs
    BY <1>8 DEF TestSeq, SpinUntilVisible, shared, locks, epochs, log, server, client
  <2> QED BY <2>1 DEF FifoInv, epochs
<1>9. ASSUME NEW c \in Client, NEW wait \in BOOLEAN, FinishCommit(c, wait) PROVE FifoInv'
  <2>1. /\ AddUnfinished(epoch[c], -1) /\ unfinished_epoch_id \in Counters /\ epoch[c] \in Nat
        /\ UNCHANGED <<global_epoch_id, writing_epoch_id>>
    BY <1>9 DEF FinishCommit, TypeOK, Counters
  <2>2. /\ Len(unfinished_epoch_id') = Len(unfinished_epoch_id)
        /\ \A i \in DOMAIN unfinished_epoch_id' : unfinished_epoch_id'[i].epoch = unfinished_epoch_id[i].epoch
        /\ DOMAIN unfinished_epoch_id' = DOMAIN unfinished_epoch_id
    <3>1. /\ unfinished_epoch_id' \in Counters /\ Len(unfinished_epoch_id') = Len(unfinished_epoch_id)
          /\ \A i \in 1 .. Len(unfinished_epoch_id) : unfinished_epoch_id'[i].epoch = unfinished_epoch_id[i].epoch
      BY <2>1, AddUnfinishedType
    <3> QED BY <2>1, <3>1, LenProperties DEF Counters
  <2> QED BY <2>1, <2>2 DEF FifoInv
<1>10. CASE Close \/ UNCHANGED vars
  <2>1. UNCHANGED epochs
    BY <1>10 DEF Close, vars, shared, locks, epochs, log, server, client
  <2> QED BY <2>1 DEF FifoInv, epochs
<1> QED BY <1>1, <1>2, <1>3, <1>4, <1>5, <1>6, <1>7, <1>8, <1>9, <1>10 DEF Next, ServerStep, ClientStep,
    Terminated

\* The threads with an unfinished epoch, and their epochs, are the same.
SameUnfinished ==
  Unfinished' = Unfinished /\ \A d \in Unfinished : epoch'[d] = epoch[d]

LEMMA SameUnfinishedFacts ==
  ASSUME SameUnfinished, NEW e
  PROVE  Members(e)' = Members(e)
BY DEF SameUnfinished, Members

Granted(d) == pc[d] \in {"pushed", "test", "asleep", "install"} /\ epoch[d] # Unset

\* It is enough to look at each thread.
LEMMA SameUnfinishedPointwise ==
  ASSUME \A d \in Client : (Granted(d)' <=> Granted(d)) /\ (Granted(d) => epoch'[d] = epoch[d])
  PROVE  SameUnfinished
<1>1. \A d \in Client : d \in Unfinished' <=> d \in Unfinished
  BY DEF Unfinished, Granted
<1>2. Unfinished' = Unfinished
  BY <1>1 DEF Unfinished
<1>3. \A d \in Unfinished : epoch'[d] = epoch[d]
  BY DEF Unfinished, Granted
<1> QED BY <1>2, <1>3 DEF SameUnfinished

\* Only Seal adds to the unfinished threads, only FinishCommit takes from them.
LEMMA UnfinishedStep ==
  ASSUME TypeOK, EpochInv, [Next]_vars, ~Seal,
         ~\E c \in Client, wait \in BOOLEAN : FinishCommit(c, wait)
  PROVE  SameUnfinished
<1>1. CASE PublishEpoch \/ ServerLoadSide \/ ServerLockQueue \/ TestQueue \/ Park \/ Unpark
  <2>1. \A d \in Client : (Granted(d)' <=> Granted(d)) /\ (Granted(d) => epoch'[d] = epoch[d])
    BY <1>1 DEF Granted, TypeOK, EpochInv, Unset, PublishEpoch, ServerLoadSide, ServerLockQueue, TestQueue,
        Park, Unpark, shared, locks, epochs, log, server, client
  <2> QED BY <2>1, SameUnfinishedPointwise
<1>2. CASE WakeOtherSide \/ ClaimSleepers \/ Toggle \/ ServerExit \/ WriteWal \/ SyncWal
  <2>1. \A d \in Client : (Granted(d)' <=> Granted(d)) /\ (Granted(d) => epoch'[d] = epoch[d])
    BY <1>2 DEF Granted, TypeOK, EpochInv, Unset, WakeOtherSide, ClaimSleepers, Toggle, ServerExit,
        WriteWal, SyncWal, Notified, shared, locks, epochs, log, server, client
  <2> QED BY <2>1, SameUnfinishedPointwise
<1>3. CASE Seal
  BY <1>3
<1>4. CASE Hold \/ Release \/ Drop \/ Close \/ UNCHANGED vars
  <2>1. \A d \in Client : (Granted(d)' <=> Granted(d)) /\ (Granted(d) => epoch'[d] = epoch[d])
    BY <1>4 DEF Granted, TypeOK, EpochInv, Unset, Hold, Release, Drop, Close, vars, Notified, shared,
        locks, epochs, log, server, client
  <2> QED BY <2>1, SameUnfinishedPointwise
<1>5. ASSUME NEW c \in Client, Start(c) \/ LoadSide(c) \/ LockQueue(c) \/ CheckSide(c) \/ Push(c)
    \/ LockClient(c) PROVE SameUnfinished
  <2>1. \A d \in Client : (Granted(d)' <=> Granted(d)) /\ (Granted(d) => epoch'[d] = epoch[d])
    BY ZenonT(60), <1>5 DEF Granted, TypeOK, EpochInv, Unset, Start, LoadSide, LockQueue, CheckSide, Push, LockClient,
        Goto, shared, locks, epochs, log, server, client
  <2> QED BY <2>1, SameUnfinishedPointwise
<1>6. ASSUME NEW c \in Client, TestSeq(c) \/ SpinUntilVisible(c) PROVE SameUnfinished
  <2>1. \A d \in Client : (Granted(d)' <=> Granted(d)) /\ (Granted(d) => epoch'[d] = epoch[d])
    BY <1>6 DEF Granted, TypeOK, EpochInv, Unset, TestSeq, SpinUntilVisible, Goto, Return, shared, locks,
        epochs, log, server, client
  <2> QED BY <2>1, SameUnfinishedPointwise
<1>7. ASSUME NEW c \in Client, NEW wait \in BOOLEAN, FinishCommit(c, wait) PROVE SameUnfinished
  BY <1>7
<1> QED BY <1>1, <1>2, <1>3, <1>4, <1>5, <1>6, <1>7 DEF Next, ServerStep, ClientStep, Terminated

\* Where the members of a new group come from.
LEMMA SealMembers ==
  ASSUME TypeOK, QueueInv, EpochInv, Seal, NEW w, w = writing_epoch_id + 1
  PROVE  /\ \A e \in Nat : e # w => Members(e)' = Members(e)
         /\ Members(w)' = {queue[sside][i] : i \in DOMAIN queue[sside]}
         /\ Unfinished' = Unfinished \cup Members(w)'
         /\ \A c \in Unfinished : epoch'[c] = epoch[c]
<1> DEFINE new == {queue[sside][i] : i \in DOMAIN queue[sside]}
<1>1. /\ pc' = pc /\ writing_epoch_id \in Nat /\ writing_epoch_id + 1 # Unset /\ epoch \in [Client -> Nat]
      /\ epoch' = [d \in Client |-> IF d \in new THEN writing_epoch_id + 1 ELSE epoch[d]]
  <2>1. writing_epoch_id \in Nat /\ epoch \in [Client -> Nat]
    BY DEF TypeOK
  <2>2. pc' = pc /\ epoch' = [d \in Client |-> IF d \in new THEN writing_epoch_id + 1 ELSE epoch[d]]
    BY DEF Seal
  <2> QED BY <2>1, <2>2 DEF Unset
<1>2. \A d \in new : d \in Client /\ pc[d] \in {"pushed", "test", "asleep"} /\ epoch[d] = Unset
  <2>1. sside \in Side
    BY DEF TypeOK
  <2>2. \A i \in DOMAIN queue[sside] : queue[sside][i] \in Client /\ InQueue(queue[sside][i], sside)
    BY <2>1, QueueMember
  <2> QED BY <2>2 DEF InQueue
<1>3. \A d \in Client : epoch[d] <= writing_epoch_id
  BY DEF EpochInv
<1> HIDE DEF new
<1>4. \A d \in Client : d \in Unfinished' <=> d \in Unfinished \/ d \in new
  BY <1>1, <1>2 DEF Unfinished
<1>5. \A d \in Unfinished : d \in Client /\ d \notin new /\ epoch'[d] = epoch[d]
  BY <1>1, <1>2 DEF Unfinished
<1>6. \A d \in new : epoch'[d] = w
  BY <1>1, <1>2
<1>7. Unfinished' = Unfinished \cup new
  BY <1>2, <1>4 DEF Unfinished
<1>8. Members(w)' = new
  <2>1. \A d \in Unfinished : epoch'[d] # w
    BY <1>1, <1>3, <1>5
  <2>2. Members(w)' = {d \in Unfinished' : epoch'[d] = w}
    BY DEF Members
  <2> QED BY <1>6, <1>7, <2>1, <2>2 DEF Members
<1>9. ASSUME NEW e \in Nat, e # w PROVE Members(e)' = Members(e)
  BY <1>5, <1>6, <1>7, <1>9 DEF Members
<1> QED BY <1>5, <1>7, <1>8, <1>9 DEF new

\* A thread that finishes leaves its epoch.
LEMMA FinishMembers ==
  ASSUME TypeOK, EpochInv, NEW c \in Client, NEW wait \in BOOLEAN, FinishCommit(c, wait)
  PROVE  /\ c \in Unfinished /\ Unfinished' = Unfinished \ {c}
         /\ \A d \in Unfinished \ {c} : epoch'[d] = epoch[d]
         /\ \A e : Members(e)' = Members(e) \ {c}
<1>1. /\ pc[c] = "install" /\ epoch[c] # Unset
      /\ pc' = [pc EXCEPT ![c] = "spin"] \/ pc' = [pc EXCEPT ![c] = "idle"]
      /\ \A d \in Client \ {c} : epoch'[d] = epoch[d]
  <2>1. CASE wait
    BY <2>1 DEF EpochInv, FinishCommit, Goto
  <2>2. CASE ~wait
    <3>1. Return(c) /\ pc[c] = "install"
      BY <2>2 DEF FinishCommit
    <3> QED BY <3>1 DEF TypeOK, EpochInv, Return, Goto
  <2> QED BY <2>1, <2>2
<1>2. pc'[c] \in {"spin", "idle"} /\ \A d \in Client \ {c} : pc'[d] = pc[d]
  BY <1>1 DEF TypeOK
<1>3. c \in Unfinished
  BY <1>1 DEF Unfinished
<1>4. \A d \in Client : d \in Unfinished' <=> d \in Unfinished /\ d # c
  BY <1>1, <1>2 DEF Unfinished
<1>5. Unfinished' = Unfinished \ {c}
  BY <1>4 DEF Unfinished
<1>6. \A d \in Unfinished \ {c} : epoch'[d] = epoch[d]
  BY <1>1 DEF Unfinished
<1>7. \A e : Members(e)' = Members(e) \ {c}
  BY <1>5, <1>6 DEF Members
<1> QED BY <1>3, <1>5, <1>6, <1>7

\* The members of an epoch are finitely many.
LEMMA MembersFinite ==
  ASSUME NEW e
  PROVE  IsFiniteSet(Members(e)) /\ Cardinality(Members(e)) \in Nat
<1>1. Members(e) \subseteq Client
  BY DEF Members, Unfinished
<1> QED BY <1>1, ClientAssumption, FS_Subset, FS_CardinalityType

\* The epochs, their counters and the server's unit are left alone.
CountersUntouched ==
  /\ UNCHANGED <<unfinished_epoch_id, writing_epoch_id, global_epoch_id>>
  /\ spc' \in {"release", "drop"} <=> spc \in {"release", "drop"}

\* Five actions touch the counters.
LEMMA CountersStep ==
  ASSUME [Next]_vars, ~PublishEpoch, ~Seal, ~Hold, ~Drop,
         ~\E c \in Client, wait \in BOOLEAN : FinishCommit(c, wait)
  PROVE  CountersUntouched
<1>1. CASE PublishEpoch
  BY <1>1
<1>2. CASE ServerLoadSide \/ ServerLockQueue \/ TestQueue \/ Park \/ Unpark \/ WakeOtherSide
  BY <1>2 DEF CountersUntouched, ServerLoadSide, ServerLockQueue, TestQueue, Park, Unpark, WakeOtherSide,
      shared, locks, epochs, log, server, client
<1>3. CASE ClaimSleepers \/ Toggle \/ ServerExit \/ WriteWal \/ SyncWal \/ Release
  BY <1>3 DEF CountersUntouched, ClaimSleepers, Toggle, ServerExit, WriteWal, SyncWal, Release, shared,
      locks, epochs, log, server, client
<1>4. CASE Seal
  BY <1>4
<1>5. CASE Hold
  BY <1>5
<1>6. CASE Drop
  BY <1>6
<1>7. ASSUME NEW c \in Client, Start(c) \/ LoadSide(c) \/ LockQueue(c) \/ CheckSide(c) \/ Push(c)
    \/ LockClient(c) PROVE CountersUntouched
  BY <1>7 DEF CountersUntouched, Start, LoadSide, LockQueue, CheckSide, Push, LockClient, shared, locks,
      epochs, log, server, client
<1>8. ASSUME NEW c \in Client, TestSeq(c) \/ SpinUntilVisible(c) PROVE CountersUntouched
  BY <1>8 DEF CountersUntouched, TestSeq, SpinUntilVisible, shared, locks, epochs, log, server, client
<1>9. ASSUME NEW c \in Client, NEW wait \in BOOLEAN, FinishCommit(c, wait) PROVE CountersUntouched
  BY <1>9
<1>10. CASE Close \/ UNCHANGED vars
  BY <1>10 DEF CountersUntouched, Close, vars, shared, locks, epochs, log, server, client
<1> QED BY <1>1, <1>2, <1>3, <1>4, <1>5, <1>6, <1>7, <1>8, <1>9, <1>10 DEF Next, ServerStep, ClientStep,
    Terminated

\* An epoch whose counter is zero has no unfinished member: it is the oldest, so
\* every unfinished thread has a newer one.
LEMMA HeadHasNoMembers ==
  ASSUME TypeOK, FifoInv, CountersExact, unfinished_epoch_id # <<>>, Head(unfinished_epoch_id).num = 0,
         NEW c \in Unfinished
  PROVE  \E i \in DOMAIN unfinished_epoch_id : i # 1 /\ unfinished_epoch_id[i].epoch = epoch[c]
<1> DEFINE u == unfinished_epoch_id
           e == u[1].epoch
<1>1. u \in Counters /\ TailFacts(u)
  BY TailOfCounters DEF TypeOK, Counters
<1>2. 0 = Cardinality(Members(e)) + ServerUnit(e)
  BY <1>1 DEF CountersExact, TailFacts
<1>3. IsFiniteSet(Members(e)) /\ Cardinality(Members(e)) \in Nat
  BY MembersFinite
<1>4. ServerUnit(e) \in Nat
  BY DEF ServerUnit
<1>5. Members(e) = {}
  BY <1>2, <1>3, <1>4, FS_EmptySet
<1>6. PICK i \in DOMAIN u : u[i].epoch = epoch[c]
  BY DEF CountersExact
<1>7. i # 1
  BY <1>5, <1>6 DEF Members
<1> QED BY <1>6, <1>7

\* No step makes an epoch readable before its transactions are installed.
LEMMA VisibleStep ==
  ASSUME TypeOK, QueueInv, EpochInv, FifoInv, CountersExact, VisibleEpochsComplete, [Next]_vars
  PROVE  VisibleEpochsComplete'
<1>1. CASE Seal
  <2>1. PICK w : w = writing_epoch_id + 1
    OBVIOUS
  <2>2. Unfinished' = Unfinished \cup Members(w)' /\ \A c \in Unfinished : epoch'[c] = epoch[c]
    BY <1>1, <2>1, SealMembers
  <2>3. \A c \in Members(w)' : epoch'[c] = w
    BY DEF Members
  <2>4. global_epoch_id' = global_epoch_id
    BY <1>1 DEF Seal
  <2>5. w > global_epoch_id
    BY <2>1, LenProperties DEF FifoInv, TypeOK
  <2> QED BY <2>2, <2>3, <2>4, <2>5 DEF VisibleEpochsComplete
<1>2. ASSUME NEW c \in Client, NEW wait \in BOOLEAN, FinishCommit(c, wait)
      PROVE  VisibleEpochsComplete'
  <2>1. global_epoch_id' = global_epoch_id
    BY <1>2 DEF FinishCommit
  <2> QED BY <1>2, <2>1, FinishMembers DEF VisibleEpochsComplete
<1>3. CASE ~Seal /\ ~\E c \in Client, wait \in BOOLEAN : FinishCommit(c, wait)
  <2>1. SameUnfinished
    BY <1>3, UnfinishedStep
  <2>2. CASE PublishEpoch
    <3>1. /\ unfinished_epoch_id # <<>> /\ Head(unfinished_epoch_id).num = 0
          /\ global_epoch_id' = Head(unfinished_epoch_id).epoch
      BY <2>2 DEF PublishEpoch
    <3>2. TailFacts(unfinished_epoch_id)
      BY <3>1, TailOfCounters DEF TypeOK, Counters
    <3>3. ASSUME NEW c \in Unfinished PROVE epoch[c] > global_epoch_id'
      <4>1. PICK i \in DOMAIN unfinished_epoch_id : i # 1 /\ unfinished_epoch_id[i].epoch = epoch[c]
        BY <3>1, HeadHasNoMembers
      <4>2. epoch[c] = global_epoch_id + i /\ global_epoch_id' = global_epoch_id + 1
        BY <3>1, <3>2, <4>1 DEF FifoInv, TailFacts
      <4>3. i \in Nat /\ i > 1 /\ global_epoch_id \in Nat
        <5>1. i \in 1 .. Len(unfinished_epoch_id) /\ Len(unfinished_epoch_id) \in Nat
          BY <3>2, <4>1 DEF TailFacts
        <5>2. global_epoch_id \in Nat
          BY DEF TypeOK
        <5> QED BY <4>1, <5>1, <5>2
      <4> QED BY <4>2, <4>3
    <3> QED BY <2>1, <3>3 DEF SameUnfinished, VisibleEpochsComplete
  <2>3. CASE ~PublishEpoch
    <3>1. global_epoch_id' = global_epoch_id
      <4>1. CASE Hold \/ Drop
        BY <4>1 DEF Hold, Drop
      <4>2. CASE ~Hold /\ ~Drop
        BY <1>3, <2>3, <4>2, CountersStep DEF CountersUntouched
      <4> QED BY <4>1, <4>2
    <3> QED BY <2>1, <3>1 DEF SameUnfinished, VisibleEpochsComplete
  <2> QED BY <2>2, <2>3
<1> QED BY <1>1, <1>2, <1>3

\* AddUnfinishedType, as the steps that count need it.
LEMMA AddUnfinishedNum ==
  ASSUME TypeOK, NEW e \in Nat, NEW d \in Int, AddUnfinished(e, d)
  PROVE  /\ DOMAIN unfinished_epoch_id' = DOMAIN unfinished_epoch_id
         /\ \A i \in DOMAIN unfinished_epoch_id :
              /\ unfinished_epoch_id'[i].epoch = unfinished_epoch_id[i].epoch
              /\ unfinished_epoch_id[i].epoch \in Nat /\ unfinished_epoch_id[i].num \in Int
              /\ unfinished_epoch_id'[i].num =
                   IF unfinished_epoch_id[i].epoch = e THEN unfinished_epoch_id[i].num + d
                                                       ELSE unfinished_epoch_id[i].num
<1> DEFINE u == unfinished_epoch_id
<1>1. u \in Counters /\ DOMAIN u = 1 .. Len(u)
  BY LenProperties DEF TypeOK, Counters
<1>2. /\ u' \in Counters /\ Len(u') = Len(u)
      /\ \A i \in 1 .. Len(u) : /\ u'[i].epoch = u[i].epoch
                                /\ u'[i].num = IF u[i].epoch = e THEN u[i].num + d ELSE u[i].num
  BY <1>1, AddUnfinishedType
<1>3. DOMAIN u' = DOMAIN u
  BY <1>1, <1>2, LenProperties DEF Counters
<1>4. ASSUME NEW i \in DOMAIN u PROVE u[i].epoch \in Nat /\ u[i].num \in Int
  <2>1. u[i] \in [epoch : Nat, num : Int]
    BY <1>1, ElementOfSeq DEF Counters
  <2> QED BY <2>1
<1> QED BY <1>1, <1>2, <1>3, <1>4

\* CountersExact, one counter at a time.
Exact(i) ==
  unfinished_epoch_id[i].num = Cardinality(Members(unfinished_epoch_id[i].epoch))
                                 + ServerUnit(unfinished_epoch_id[i].epoch)

LEMMA ExactNext ==
  ASSUME NEW i, NEW e, unfinished_epoch_id'[i].epoch = e,
         unfinished_epoch_id'[i].num = Cardinality(Members(e)') + ServerUnit(e)'
  PROVE  Exact(i)'
BY DEF Exact, Members, ServerUnit

LEMMA ExactFromParts ==
  ASSUME \A i \in DOMAIN unfinished_epoch_id' : Exact(i)',
         \A c \in Unfinished' : \E i \in DOMAIN unfinished_epoch_id' :
            unfinished_epoch_id'[i].epoch = epoch'[c]
  PROVE  CountersExact'
BY DEF CountersExact, Exact

\* The server takes its unit on the newest epoch, or gives it back.
LEMMA UnitStep ==
  ASSUME TypeOK, CountersExact, SameUnfinished, NEW d \in {-1, 1}, AddUnfinished(writing_epoch_id, d),
         \A e : ServerUnit(e)' = IF e = writing_epoch_id THEN ServerUnit(e) + d ELSE ServerUnit(e)
  PROVE  CountersExact'
<1> DEFINE u == unfinished_epoch_id
<1>1. /\ DOMAIN u' = DOMAIN u
      /\ \A i \in DOMAIN u :
           /\ u'[i].epoch = u[i].epoch /\ u[i].epoch \in Nat /\ u[i].num \in Int
           /\ u'[i].num = IF u[i].epoch = writing_epoch_id THEN u[i].num + d ELSE u[i].num
  <2>1. writing_epoch_id \in Nat /\ d \in Int
    BY DEF TypeOK
  <2> QED BY <2>1, AddUnfinishedNum
<1>2. ASSUME NEW i \in DOMAIN u' PROVE Exact(i)'
  <2>1. PICK e : e = u[i].epoch
    OBVIOUS
  <2>2. u[i].num = Cardinality(Members(e)) + ServerUnit(e)
    BY <1>1, <1>2, <2>1 DEF CountersExact
  <2>3. Members(e)' = Members(e)
    BY SameUnfinishedFacts
  <2>4. Cardinality(Members(e)) \in Nat /\ ServerUnit(e) \in Int
    BY MembersFinite DEF ServerUnit
  <2>5. u'[i].num = Cardinality(Members(e)') + ServerUnit(e)'
    BY <1>1, <1>2, <2>1, <2>2, <2>3, <2>4
  <2> QED BY <1>1, <1>2, <2>1, <2>5, ExactNext
<1>3. \A c \in Unfinished' : \E i \in DOMAIN u' : u'[i].epoch = epoch'[c]
  <2>1. \A c \in Unfinished : \E i \in DOMAIN u : u[i].epoch = epoch[c]
    BY DEF CountersExact
  <2> QED BY <1>1, <2>1 DEF SameUnfinished
<1> QED BY <1>2, <1>3, ExactFromParts

\* One thread finishes: its epoch's counter and its members lose one.
LEMMA FinishCounts ==
  ASSUME TypeOK, EpochInv, CountersExact, NEW c \in Client, NEW wait \in BOOLEAN, FinishCommit(c, wait)
  PROVE  CountersExact'
<1> DEFINE u == unfinished_epoch_id
<1>1. PICK g \in Nat : g = epoch[c]
  BY DEF TypeOK
<1>2. /\ DOMAIN u' = DOMAIN u
      /\ \A i \in DOMAIN u :
           /\ u'[i].epoch = u[i].epoch /\ u[i].epoch \in Nat /\ u[i].num \in Int
           /\ u'[i].num = IF u[i].epoch = g THEN u[i].num - 1 ELSE u[i].num
  <2>1. AddUnfinished(g, -1) /\ -1 \in Int
    BY <1>1 DEF FinishCommit
  <2>2. /\ DOMAIN u' = DOMAIN u
        /\ \A i \in DOMAIN u :
             /\ u'[i].epoch = u[i].epoch /\ u[i].epoch \in Nat /\ u[i].num \in Int
             /\ u'[i].num = IF u[i].epoch = g THEN u[i].num + -1 ELSE u[i].num
    BY <2>1, AddUnfinishedNum
  <2> QED BY <2>2
<1>3. /\ c \in Unfinished /\ Unfinished' = Unfinished \ {c}
      /\ \A d \in Unfinished \ {c} : epoch'[d] = epoch[d]
      /\ \A e : Members(e)' = Members(e) \ {c}
  BY FinishMembers
<1>4. UNCHANGED <<writing_epoch_id, spc>>
  BY DEF FinishCommit, server
<1>5. ASSUME NEW i \in DOMAIN u' PROVE Exact(i)'
  <2>1. PICK e : e = u[i].epoch
    OBVIOUS
  <2>2. u[i].num = Cardinality(Members(e)) + ServerUnit(e)
    BY <1>2, <1>5, <2>1 DEF CountersExact
  <2>3. IsFiniteSet(Members(e)) /\ Cardinality(Members(e)) \in Nat /\ ServerUnit(e) \in Int
    BY MembersFinite DEF ServerUnit
  <2>4. ServerUnit(e)' = ServerUnit(e)
    BY <1>4 DEF ServerUnit
  <2>5. Cardinality(Members(e)') = IF e = g THEN Cardinality(Members(e)) - 1 ELSE Cardinality(Members(e))
    <3>1. c \in Members(e) <=> e = g
      BY <1>1, <1>3 DEF Members
    <3>2. Members(e)' = Members(e) \ {c}
      BY <1>3
    <3>3. Cardinality(Members(e) \ {c}) = IF c \in Members(e) THEN Cardinality(Members(e)) - 1
                                                              ELSE Cardinality(Members(e))
      BY <2>3, FS_RemoveElement
    <3> QED BY <3>1, <3>2, <3>3
  <2>6. u'[i].num = Cardinality(Members(e)') + ServerUnit(e)'
    BY <1>2, <1>5, <2>1, <2>2, <2>3, <2>4, <2>5
  <2> QED BY <1>2, <1>5, <2>1, <2>6, ExactNext
<1>6. \A d \in Unfinished' : \E i \in DOMAIN u' : u'[i].epoch = epoch'[d]
  <2>1. \A d \in Unfinished : \E i \in DOMAIN u : u[i].epoch = epoch[d]
    BY DEF CountersExact
  <2> QED BY <1>2, <1>3, <2>1
<1> QED BY <1>5, <1>6, ExactFromParts

\* A sequence without repetition has as many elements as places.
LEMMA InjectiveRange ==
  ASSUME NEW S, NEW q \in Seq(S), \A i, j \in DOMAIN q : q[i] = q[j] => i = j
  PROVE  Cardinality({q[i] : i \in DOMAIN q}) = Len(q)
<1> DEFINE R == {q[i] : i \in DOMAIN q}
<1>1. DOMAIN q = 1 .. Len(q) /\ Len(q) \in Nat
  BY LenProperties
<1>2. q \in [1 .. Len(q) -> R]
  BY <1>1
<1>3. q \in Bijection(1 .. Len(q), R)
  BY <1>1, <1>2, Fun_IsBij
<1>4. ExistsBijection(1 .. Len(q), R)
  BY <1>3 DEF ExistsBijection
<1> QED BY <1>1, <1>4, FS_CountingElements

\* A group is formed: its counter starts at the number of its members.
LEMMA SealCounts ==
  ASSUME TypeOK, QueueInv, EpochInv, FifoInv, CountersExact, Seal
  PROVE  CountersExact'
<1> DEFINE u == unfinished_epoch_id
<1>1. PICK w : w = writing_epoch_id + 1
  OBVIOUS
<1>2. PICK n : n = Len(queue[sside])
  OBVIOUS
<1>3. /\ u \in Counters /\ Len(u) \in Nat /\ DOMAIN u = 1 .. Len(u) /\ n \in Nat /\ w \in Nat
      /\ sside \in Side /\ queue[sside] \in Seq(Client)
  BY <1>1, <1>2, LenProperties DEF TypeOK, Counters
<1>4. /\ u' = Append(u, [epoch |-> w, num |-> n]) /\ writing_epoch_id' = w
      /\ spc = "seal" /\ spc' = "write"
  BY <1>1, <1>2 DEF Seal
<1>5. [epoch |-> w, num |-> n] \in [epoch : Nat, num : Int]
  BY <1>3
<1>6. /\ Len(u') = Len(u) + 1 /\ DOMAIN u' = 1 .. Len(u) + 1
      /\ u'[Len(u) + 1] = [epoch |-> w, num |-> n] /\ \A i \in 1 .. Len(u) : u'[i] = u[i]
  BY <1>3, <1>4, <1>5, AppendProperties, LenProperties DEF Counters
<1>7. /\ \A e \in Nat : e # w => Members(e)' = Members(e)
      /\ Members(w)' = {queue[sside][i] : i \in DOMAIN queue[sside]}
      /\ Unfinished' = Unfinished \cup Members(w)' /\ \A c \in Unfinished : epoch'[c] = epoch[c]
  BY <1>1, SealMembers
<1>8. ASSUME NEW i \in DOMAIN u' PROVE Exact(i)'
  <2>1. CASE i = Len(u) + 1
    <3>1. Cardinality(Members(w)') = n
      BY <1>2, <1>3, <1>7, InjectiveRange DEF QueueInv
    <3>2. ServerUnit(w)' = 0
      BY <1>4 DEF ServerUnit
    <3>3. u'[i].epoch = w /\ u'[i].num = n
      BY <1>6, <2>1
    <3>4. u'[i].num = Cardinality(Members(w)') + ServerUnit(w)'
      BY <1>3, <3>1, <3>2, <3>3
    <3> QED BY <3>3, <3>4, ExactNext
  <2>2. CASE i # Len(u) + 1
    <3>1. i \in 1 .. Len(u) /\ i \in DOMAIN u /\ u'[i] = u[i]
      BY <1>3, <1>6, <2>2
    <3>2. PICK e : e = u[i].epoch
      OBVIOUS
    <3>3. u[i].num = Cardinality(Members(e)) + ServerUnit(e)
      BY <3>1, <3>2 DEF CountersExact
    <3>4. e \in Nat /\ e # w
      <4>1. e = global_epoch_id + i /\ writing_epoch_id = global_epoch_id + Len(u)
        BY <3>1, <3>2 DEF FifoInv
      <4>2. global_epoch_id \in Nat
        BY DEF TypeOK
      <4> QED BY <1>1, <1>3, <3>1, <4>1, <4>2
    <3>5. Members(e)' = Members(e)
      BY <1>7, <3>4
    <3>6. ServerUnit(e) = 0 /\ ServerUnit(e)' = 0
      BY <1>4 DEF ServerUnit
    <3> QED BY <3>1, <3>2, <3>3, <3>5, <3>6, ExactNext
  <2> QED BY <2>1, <2>2
<1>9. ASSUME NEW c \in Unfinished' PROVE \E i \in DOMAIN u' : u'[i].epoch = epoch'[c]
  <2>1. CASE c \in Unfinished
    <3>1. PICK i \in DOMAIN u : u[i].epoch = epoch[c]
      BY <2>1 DEF CountersExact
    <3> QED BY <1>3, <1>6, <1>7, <2>1, <3>1
  <2>2. CASE c \in Members(w)'
    <3>1. epoch'[c] = w /\ Len(u) + 1 \in DOMAIN u'
      BY <1>3, <1>6, <2>2 DEF Members
    <3> QED BY <1>6, <3>1
  <2> QED BY <1>7, <2>1, <2>2
<1> QED BY <1>8, <1>9, ExactFromParts

\* The oldest epoch leaves the FIFO, and no thread has it.
LEMMA PublishCounts ==
  ASSUME TypeOK, EpochInv, FifoInv, CountersExact, SameUnfinished, PublishEpoch
  PROVE  CountersExact'
<1> DEFINE u == unfinished_epoch_id
<1>1. /\ u # <<>> /\ Head(u).num = 0 /\ u' = Tail(u) /\ UNCHANGED <<writing_epoch_id, spc>>
  BY DEF PublishEpoch, server
<1>2. TailFacts(u)
  BY <1>1, TailOfCounters DEF TypeOK, Counters
<1>3. ASSUME NEW i \in DOMAIN u' PROVE Exact(i)'
  <2>1. i + 1 \in DOMAIN u /\ u'[i] = u[i + 1]
    BY <1>1, <1>2 DEF TailFacts
  <2>2. PICK e : e = u[i + 1].epoch
    OBVIOUS
  <2>3. u[i + 1].num = Cardinality(Members(e)) + ServerUnit(e)
    BY <2>1, <2>2 DEF CountersExact
  <2>4. Members(e)' = Members(e) /\ ServerUnit(e)' = ServerUnit(e)
    BY <1>1, SameUnfinishedFacts DEF ServerUnit
  <2> QED BY <2>1, <2>2, <2>3, <2>4, ExactNext
<1>4. ASSUME NEW c \in Unfinished' PROVE \E i \in DOMAIN u' : u'[i].epoch = epoch'[c]
  <2>1. c \in Unfinished /\ epoch'[c] = epoch[c]
    BY DEF SameUnfinished
  <2>2. PICK i \in DOMAIN u : i # 1 /\ u[i].epoch = epoch[c]
    BY <1>1, <2>1, HeadHasNoMembers
  <2>3. i - 1 \in DOMAIN u' /\ u'[i - 1] = u[i]
    BY <1>1, <1>2, <2>2 DEF TailFacts
  <2> QED BY <2>1, <2>2, <2>3
<1> QED BY <1>3, <1>4, ExactFromParts

\* Every step keeps the counters exact.
LEMMA CountStep ==
  ASSUME TypeOK, QueueInv, EpochInv, FifoInv, CountersExact, [Next]_vars
  PROVE  CountersExact'
<1>1. CASE Seal
  BY <1>1, SealCounts
<1>2. ASSUME NEW c \in Client, NEW wait \in BOOLEAN, FinishCommit(c, wait)
      PROVE  CountersExact'
  BY <1>2, FinishCounts
<1>3. CASE ~Seal /\ ~\E c \in Client, wait \in BOOLEAN : FinishCommit(c, wait)
  <2>1. SameUnfinished
    BY <1>3, UnfinishedStep
  <2>2. CASE PublishEpoch
    BY <2>1, <2>2, PublishCounts
  <2>3. CASE Hold
    <3>1. AddUnfinished(writing_epoch_id, 1)
      BY <2>3 DEF Hold
    <3>2. \A e : ServerUnit(e)' = IF e = writing_epoch_id THEN ServerUnit(e) + 1 ELSE ServerUnit(e)
      BY <2>3 DEF Hold, ServerUnit
    <3> QED BY <2>1, <3>1, <3>2, UnitStep
  <2>4. CASE Drop
    <3>1. AddUnfinished(writing_epoch_id, -1)
      BY <2>4 DEF Drop
    <3>2. \A e : ServerUnit(e)' = IF e = writing_epoch_id THEN ServerUnit(e) + -1 ELSE ServerUnit(e)
      BY <2>4 DEF Drop, ServerUnit
    <3> QED BY <2>1, <3>1, <3>2, UnitStep
  <2>5. CASE ~PublishEpoch /\ ~Hold /\ ~Drop
    <3>1. CountersUntouched
      BY <1>3, <2>5, CountersStep
    <3>2. ASSUME NEW i \in DOMAIN unfinished_epoch_id' PROVE Exact(i)'
      <4>1. PICK e : e = unfinished_epoch_id[i].epoch
        OBVIOUS
      <4>2. unfinished_epoch_id[i].num = Cardinality(Members(e)) + ServerUnit(e)
        BY <3>1, <4>1 DEF CountersExact, CountersUntouched
      <4>3. Members(e)' = Members(e) /\ ServerUnit(e)' = ServerUnit(e)
        BY <2>1, <3>1, SameUnfinishedFacts DEF ServerUnit, CountersUntouched
      <4> QED BY <3>1, <4>1, <4>2, <4>3, ExactNext DEF CountersUntouched
    <3>3. \A c \in Unfinished' : \E i \in DOMAIN unfinished_epoch_id' : unfinished_epoch_id'[i].epoch = epoch'[c]
      BY <2>1, <3>1 DEF SameUnfinished, CountersUntouched, CountersExact
    <3> QED BY <3>2, <3>3, ExactFromParts
  <2> QED BY <2>2, <2>3, <2>4, <2>5
<1> QED BY <1>1, <1>2, <1>3

\* No sleeper is left behind by the release of its group.
LEMMA SleepStep ==
  ASSUME TypeOK, SleepersHaveReason, [Next]_vars
  PROVE  SleepersHaveReason'
<1>1. CASE PublishEpoch \/ ServerLoadSide \/ ServerLockQueue \/ TestQueue \/ Park \/ Unpark
  BY <1>1 DEF TypeOK, SleepersHaveReason, PublishEpoch, ServerLoadSide, ServerLockQueue, TestQueue, Park,
      Unpark, shared, locks, epochs, log, server, client
<1>2. CASE WakeOtherSide \/ ClaimSleepers \/ Toggle \/ Seal \/ ServerExit \/ WriteWal
  BY <1>2 DEF TypeOK, SleepersHaveReason, WakeOtherSide, ClaimSleepers, Toggle, Seal, ServerExit, WriteWal,
      Notified, shared, locks, epochs, log, server, client
<1>3. CASE SyncWal \/ Hold \/ Drop \/ Close \/ UNCHANGED vars
  BY <1>3 DEF TypeOK, SleepersHaveReason, SyncWal, Hold, Drop, Close, vars, shared, locks, epochs, log,
      server, client
<1>4. CASE Release
  <2>1. cside' = cside /\ my_seq' = my_seq /\ pc' = Notified(sside)
    BY <1>4 DEF Release
  <2>2. \A m \in Side \ {sside} : seq_front'[m] = seq_front[m]
    BY <1>4 DEF Release, TypeOK
  <2>3. \A d \in Client : pc'[d] = "asleep" => pc[d] = "asleep" /\ cside[d] # sside /\ cside[d] \in Side
    BY <2>1 DEF Notified, TypeOK
  <2> QED BY <2>1, <2>2, <2>3 DEF SleepersHaveReason
<1>5. ASSUME NEW c \in Client, Start(c) \/ LoadSide(c) \/ LockQueue(c) \/ CheckSide(c) \/ Push(c)
    \/ LockClient(c) PROVE SleepersHaveReason'
  BY ZenonT(60), <1>5 DEF TypeOK, SleepersHaveReason, Start, LoadSide, LockQueue, CheckSide, Push, LockClient, Goto,
      shared, locks, epochs, log, server, client
<1>6. ASSUME NEW c \in Client, TestSeq(c) PROVE SleepersHaveReason'
  <2>1. /\ seq_front' = seq_front /\ cside' = cside /\ my_seq' = my_seq
        /\ pc' = [pc EXCEPT ![c] = IF seq_front[cside[c]] > my_seq[c] THEN "install" ELSE "asleep"]
    BY <1>6 DEF TestSeq, Goto, shared
  <2>2. CASE seq_front[cside[c]] > my_seq[c]
    BY <2>1, <2>2 DEF TypeOK, SleepersHaveReason
  <2>3. CASE ~(seq_front[cside[c]] > my_seq[c])
    BY <2>1, <2>3 DEF TypeOK, SleepersHaveReason
  <2> QED BY <2>2, <2>3
<1>7. ASSUME NEW c \in Client, NEW wait \in BOOLEAN, FinishCommit(c, wait) PROVE SleepersHaveReason'
  <2>1. seq_front' = seq_front /\ pc[c] = "install"
    BY <1>7 DEF FinishCommit, shared
  <2>2. CASE wait
    BY <1>7, <2>1, <2>2 DEF TypeOK, SleepersHaveReason, FinishCommit, Goto
  <2>3. CASE ~wait
    <3>1. Return(c)
      BY <1>7, <2>3 DEF FinishCommit
    <3> QED BY <2>1, <3>1 DEF TypeOK, SleepersHaveReason, Return, Goto
  <2> QED BY <2>2, <2>3
<1>8. ASSUME NEW c \in Client, SpinUntilVisible(c) PROVE SleepersHaveReason'
  BY <1>8 DEF TypeOK, SleepersHaveReason, SpinUntilVisible, Goto, Return, shared, locks, epochs, log,
      server, client
<1> QED BY <1>1, <1>2, <1>3, <1>4, <1>5, <1>6, <1>7, <1>8 DEF Next, ServerStep, ClientStep, Terminated

LEMMA InvInit == Init => CommitInv /\ SleepersHaveReason
<1> SUFFICES ASSUME Init PROVE CommitInv /\ SleepersHaveReason
  OBVIOUS
<1>1. TypeOK
  BY TypeInit
<1>2. LockInv /\ SideInv
  <2>1. \A m \in Side : mutex[m] = Free
    BY DEF Init
  <2>2. Server # Free /\ \A c \in Client : c # Free /\ pc[c] = "idle"
    BY OwnerAssumption DEF Init, Server, Free
  <2>3. spc = "top"
    BY DEF Init
  <2> QED BY <2>1, <2>2, <2>3 DEF LockInv, ServerLockInv, ClientLockInv, SideInv
<1>3. QueueInv /\ SeqInv
  BY DEF Init, QueueInv, InQueue, SeqInv, Pending, Side
<1>4. EpochInv /\ FifoInv /\ NoStrandedCommit /\ SleepersHaveReason
  BY DEF Init, EpochInv, FifoInv, NoStrandedCommit, SleepersHaveReason, Unset, Side
<1>5. Unfinished = {}
  BY DEF Init, Unfinished
<1>6. VisibleEpochsComplete /\ CountersExact
  BY <1>5 DEF Init, VisibleEpochsComplete, CountersExact
<1> QED BY <1>1, <1>2, <1>3, <1>4, <1>6 DEF CommitInv

LEMMA LockStep ==
  ASSUME TypeOK, LockInv, [Next]_vars
  PROVE  LockInv'
BY ServerLockStep, ClientLockStep DEF LockInv

\* Every reachable state satisfies the inductive invariant.
THEOREM Invariance == Spec => []CommitInv
<1>1. CommitInv /\ [Next]_vars => CommitInv'
  BY TypeStep, LockStep, SideStep, StrandStep, QueueStep, SeqStep, EpochStep, FifoStep, VisibleStep, CountStep
     DEF CommitInv
<1> QED BY InvInit, <1>1, PTL DEF Spec

\* A snapshot never shows part of a transaction: an epoch is readable only when all
\* the transactions that commit at it are installed.
THEOREM VisibleComplete == Spec => []VisibleEpochsComplete
<1>1. CommitInv => VisibleEpochsComplete
  BY DEF CommitInv
<1> QED BY Invariance, <1>1, PTL

\* The counters of the epochs count their unfinished transactions.
THEOREM Exactness == Spec => []CountersExact
<1>1. CommitInv => CountersExact
  BY DEF CommitInv
<1> QED BY Invariance, <1>1, PTL

\* No commit is pushed into a queue the server has turned its back on.
THEOREM NothingStranded == Spec => []NoStrandedCommit
<1>1. CommitInv => NoStrandedCommit
  BY DEF CommitInv
<1> QED BY Invariance, <1>1, PTL

\* No thread sleeps whose group has been released.
THEOREM NoLostWakeup == Spec => []SleepersHaveReason
<1>1. TypeOK /\ SleepersHaveReason /\ [Next]_vars => SleepersHaveReason'
  BY SleepStep
<1> QED BY InvInit, Typing, <1>1, PTL DEF Spec

\* Readable epochs advance one at a time.
THEOREM PublishedInOrder == Spec => EpochsPublishedInOrder
<1>1. CommitInv /\ [Next]_vars => [global_epoch_id' \in {global_epoch_id, global_epoch_id + 1}]_vars
  <2> SUFFICES ASSUME CommitInv, [Next]_vars PROVE global_epoch_id' \in {global_epoch_id, global_epoch_id + 1}
    OBVIOUS
  <2>1. CASE PublishEpoch
    <3>1. unfinished_epoch_id # <<>> /\ global_epoch_id' = Head(unfinished_epoch_id).epoch
      BY <2>1 DEF PublishEpoch
    <3>2. TailFacts(unfinished_epoch_id)
      BY <3>1, TailOfCounters DEF CommitInv, TypeOK, Counters
    <3> QED BY <3>1, <3>2 DEF CommitInv, FifoInv, TailFacts
  <2>2. CASE Seal \/ Hold \/ Drop \/ \E c \in Client, wait \in BOOLEAN : FinishCommit(c, wait)
    BY <2>2 DEF Seal, Hold, Drop, FinishCommit
  <2>3. CASE ~PublishEpoch /\ ~(Seal \/ Hold \/ Drop \/ \E c \in Client, wait \in BOOLEAN : FinishCommit(c, wait))
    BY <2>3, CountersStep DEF CountersUntouched
  <2> QED BY <2>1, <2>2, <2>3
<1> QED BY Invariance, <1>1, PTL DEF Spec, EpochsPublishedInOrder

\* The threads that wait without an epoch are the same.
QueuersKept ==
  \A d \in Client : d \notin Unfinished /\ d \notin Unfinished' =>
    (pc'[d] \in {"pushed", "test", "asleep"} <=> pc[d] \in {"pushed", "test", "asleep"})

LEMMA QueuersStep ==
  ASSUME TypeOK, EpochInv, EpochInv', [Next]_vars, ~Seal, \A c \in Client : ~Push(c),
         ~\E c \in Client, wait \in BOOLEAN : FinishCommit(c, wait)
  PROVE  QueuersKept
<1>1. CASE PublishEpoch \/ ServerLoadSide \/ ServerLockQueue \/ TestQueue \/ Park \/ Unpark
  BY <1>1 DEF QueuersKept, TypeOK, EpochInv, Unfinished, PublishEpoch, ServerLoadSide, ServerLockQueue,
      TestQueue, Park, Unpark, shared, locks, epochs, log, server, client
<1>2. CASE WakeOtherSide \/ ClaimSleepers \/ Toggle \/ ServerExit \/ WriteWal \/ SyncWal
  BY <1>2 DEF QueuersKept, TypeOK, EpochInv, Unfinished, WakeOtherSide, ClaimSleepers, Toggle, ServerExit,
      WriteWal, SyncWal, Notified, shared, locks, epochs, log, server, client
<1>3. CASE Seal
  BY <1>3
<1>4. CASE Hold \/ Release \/ Drop \/ Close \/ UNCHANGED vars
  BY <1>4 DEF QueuersKept, TypeOK, EpochInv, Unfinished, Hold, Release, Drop, Close, vars, Notified,
      shared, locks, epochs, log, server, client
<1>5. ASSUME NEW c \in Client, Start(c) \/ LoadSide(c) \/ LockQueue(c) \/ CheckSide(c) \/ LockClient(c)
    \/ TestSeq(c) PROVE QueuersKept
  BY ZenonT(60), <1>5 DEF QueuersKept, TypeOK, EpochInv, Unfinished, Start, LoadSide, LockQueue, CheckSide, LockClient,
      TestSeq, Goto, shared, locks, epochs, log, server, client
<1>6. ASSUME NEW c \in Client, Push(c) PROVE QueuersKept
  BY <1>6
<1>7. ASSUME NEW c \in Client, NEW wait \in BOOLEAN, FinishCommit(c, wait) PROVE QueuersKept
  BY <1>7
<1>8. ASSUME NEW c \in Client, SpinUntilVisible(c) PROVE QueuersKept
  BY <1>8 DEF QueuersKept, TypeOK, EpochInv, Unfinished, SpinUntilVisible, Goto, Return, shared, locks,
      epochs, log, server, client
<1> QED BY <1>1, <1>2, <1>3, <1>4, <1>5, <1>6, <1>7, <1>8 DEF Next, ServerStep, ClientStep, Terminated

\* Each step of the commit manager is a step of the epoch service or none.
LEMMA StepImplements ==
  ASSUME CommitInv, CommitInv', [Next]_vars
  PROVE  [Epochs!EpochsNext]_Epochs!epochsVars
<1> USE DEF CommitInv
<1> DEFINE stage == [c \in Client |-> Stage(c)]
           grant == [c \in Client |-> GrantOf(c)]
<1>1. CASE Seal
  <2>1. PICK w : w = writing_epoch_id + 1
    OBVIOUS
  <2>2. PICK G : G = {queue[sside][i] : i \in DOMAIN queue[sside]}
    OBVIOUS
  <2>3. /\ Unfinished' = Unfinished \cup G /\ \A c \in Unfinished : epoch'[c] = epoch[c]
        /\ \A c \in G : epoch'[c] = w
    <3>1. Members(w)' = G
      BY <1>1, <2>1, <2>2, SealMembers
    <3>2. \A c \in Members(w)' : epoch'[c] = w
      BY DEF Members
    <3> QED BY <1>1, <2>1, <3>1, <3>2, SealMembers
  <2>4. sside \in Side /\ queue[sside] # <<>> /\ queue[sside] \in Seq(Client)
    BY <1>1 DEF Seal, TypeOK
  <2>5. \A c \in G : c \in Client /\ pc[c] \in {"pushed", "test", "asleep"} /\ c \notin Unfinished
    <3>1. \A i \in DOMAIN queue[sside] : queue[sside][i] \in Client /\ InQueue(queue[sside][i], sside)
      BY <2>4, QueueMember
    <3> QED BY <2>2, <3>1 DEF InQueue, Unfinished
  <2>6. G # {}
    <3>1. 1 \in DOMAIN queue[sside]
      BY <2>4, EmptySeq, LenProperties
    <3> QED BY <2>2, <3>1
  <2>7. G \subseteq {c \in Client : stage[c] = "queued"}
    BY <2>5 DEF Stage
  <2>8. stage' = [c \in Client |-> IF c \in G THEN "granted" ELSE stage[c]]
    <3>1. pc' = pc
      BY <1>1 DEF Seal
    <3> QED BY <2>3, <3>1 DEF Stage
  <2>9. grant' = [c \in Client |-> IF c \in G THEN writing_epoch_id + 1 ELSE grant[c]]
    BY <2>1, <2>3 DEF GrantOf
  <2>10. writing_epoch_id' = writing_epoch_id + 1 /\ global_epoch_id' = global_epoch_id
    BY <1>1 DEF Seal
  <2>11. Epochs!Grant(G)
    BY <2>6, <2>7, <2>8, <2>9, <2>10 DEF Epochs!Grant, Epochs!Queued
  <2> QED BY <2>5, <2>11 DEF Epochs!EpochsNext
<1>2. ASSUME NEW c \in Client, NEW wait \in BOOLEAN, FinishCommit(c, wait)
      PROVE  Epochs!EpochsNext
  <2>1. /\ c \in Unfinished /\ Unfinished' = Unfinished \ {c}
        /\ \A d \in Unfinished \ {c} : epoch'[d] = epoch[d]
    BY <1>2, FinishMembers
  <2>2. /\ pc'[c] \in {"spin", "idle"} /\ \A d \in Client \ {c} : pc'[d] = pc[d]
        /\ UNCHANGED <<writing_epoch_id, global_epoch_id>>
    <3>1. pc' = [pc EXCEPT ![c] = "spin"] \/ pc' = [pc EXCEPT ![c] = "idle"]
      BY <1>2 DEF FinishCommit, Return, Goto
    <3> QED BY <1>2, <3>1 DEF FinishCommit, TypeOK
  <2>3. stage[c] = "granted"
    BY <2>1 DEF Stage
  <2>4. stage' = [stage EXCEPT ![c] = "idle"]
    <3>1. \A d \in Client : Stage(d)' = IF d = c THEN "idle" ELSE Stage(d)
      BY <2>1, <2>2 DEF Stage
    <3> QED BY <3>1
  <2>5. grant' = [grant EXCEPT ![c] = 0]
    <3>1. \A d \in Client : GrantOf(d)' = IF d = c THEN 0 ELSE GrantOf(d)
      BY <2>1 DEF GrantOf
    <3> QED BY <3>1
  <2> QED BY <2>2, <2>3, <2>4, <2>5 DEF Epochs!Finish, Epochs!EpochsNext
<1>3. CASE ~Seal /\ ~\E c \in Client, wait \in BOOLEAN : FinishCommit(c, wait)
  <2>1. SameUnfinished
    BY <1>3, UnfinishedStep
  <2>2. grant' = grant
    BY <2>1 DEF SameUnfinished, GrantOf
  <2>3. ASSUME NEW c \in Client, Push(c) PROVE Epochs!EpochsNext
    <3>1. /\ pc[c] = "push" /\ pc' = [pc EXCEPT ![c] = "pushed"] /\ epoch[c] = Unset
          /\ UNCHANGED <<writing_epoch_id, global_epoch_id>>
      BY <2>3 DEF Push, Goto, EpochInv, epochs
    <3>2. c \notin Unfinished /\ pc'[c] = "pushed" /\ \A d \in Client \ {c} : pc'[d] = pc[d]
      BY <3>1 DEF Unfinished, TypeOK
    <3>3. \A d \in Client : Stage(d)' = IF d = c THEN "queued" ELSE Stage(d)
      BY <2>1, <3>1, <3>2 DEF Stage, SameUnfinished
    <3>4. stage[c] = "idle"
      BY <3>1, <3>2 DEF Stage
    <3>5. stage' = [stage EXCEPT ![c] = "queued"]
      BY <3>3
    <3> QED BY <2>2, <3>1, <3>4, <3>5 DEF Epochs!Ask, Epochs!EpochsNext
  <2>4. CASE \A c \in Client : ~Push(c)
    <3>1. QueuersKept
      BY <1>3, <2>4, QueuersStep
    <3>2. stage' = stage
      BY <2>1, <3>1 DEF Stage, SameUnfinished, QueuersKept
    <3>3. CASE PublishEpoch
      <4>1. /\ unfinished_epoch_id # <<>> /\ Head(unfinished_epoch_id).num = 0
            /\ global_epoch_id' = Head(unfinished_epoch_id).epoch /\ writing_epoch_id' = writing_epoch_id
        BY <3>3 DEF PublishEpoch
      <4>2. TailFacts(unfinished_epoch_id)
        BY <4>1, TailOfCounters DEF TypeOK, Counters
      <4>3. global_epoch_id' = global_epoch_id + 1 /\ global_epoch_id < writing_epoch_id
        <5>1. global_epoch_id \in Nat /\ Len(unfinished_epoch_id) \in Nat \ {0}
          BY <4>2 DEF TailFacts, TypeOK
        <5>2. writing_epoch_id = global_epoch_id + Len(unfinished_epoch_id)
          BY DEF FifoInv
        <5>3. global_epoch_id' = global_epoch_id + 1
          BY <4>1, <4>2 DEF FifoInv, TailFacts
        <5> QED BY <5>1, <5>2, <5>3
      <4>4. Epochs!Holders(global_epoch_id + 1) = {}
        <5>1. ASSUME NEW c \in Client, stage[c] = "granted", grant[c] = global_epoch_id + 1 PROVE FALSE
          <6>1. c \in Unfinished' /\ epoch'[c] = global_epoch_id'
            BY <2>1, <4>3, <5>1 DEF Stage, GrantOf, SameUnfinished
          <6>2. epoch'[c] > global_epoch_id' /\ epoch'[c] \in Nat
            BY <6>1 DEF VisibleEpochsComplete, TypeOK
          <6> QED BY <6>1, <6>2
        <5> QED BY <5>1 DEF Epochs!Holders
      <4> QED BY <2>2, <3>2, <4>1, <4>3, <4>4 DEF Epochs!MakeVisible, Epochs!EpochsNext
    <3>4. CASE ~PublishEpoch
      <4>1. UNCHANGED <<writing_epoch_id, global_epoch_id>>
        <5>1. CASE Hold \/ Drop
          BY <5>1 DEF Hold, Drop
        <5>2. CASE ~Hold /\ ~Drop
          BY <1>3, <3>4, <5>2, CountersStep DEF CountersUntouched
        <5> QED BY <5>1, <5>2
      <4> QED BY <2>2, <3>2, <4>1 DEF Epochs!epochsVars
    <3> QED BY <3>3, <3>4
  <2> QED BY <2>3, <2>4
<1> QED BY <1>1, <1>2, <1>3

\* The commit manager implements the epoch service.
THEOREM Implementation == Spec => ImplementsEpochs
<1>1. Init => Epochs!EpochsInit
  <2> SUFFICES ASSUME Init PROVE Epochs!EpochsInit
    OBVIOUS
  <2>1. Unfinished = {}
    BY DEF Init, Unfinished
  <2> QED BY <2>1 DEF Init, Epochs!EpochsInit, Stage, GrantOf
<1>2. CommitInv /\ CommitInv' /\ [Next]_vars => [Epochs!EpochsNext]_Epochs!epochsVars
  BY StepImplements
<1> QED BY Invariance, <1>1, <1>2, PTL DEF Spec, ImplementsEpochs, Epochs!EpochsSpec

-----------------------------------------------------------------------------
(* The log. *)

\* The server has a group it has not released yet.
Unreleased == spc \in {"write", "sync", "hold", "release"}

\* The threads of that group: those, and only those, have the newest epoch, none has
\* left register_commit, and they come next in the count of released commits.
GroupInv ==
  Unreleased =>
    /\ \A i, j \in DOMAIN group : group[i] = group[j] => i = j
    /\ \A i \in DOMAIN group :
         /\ pc[group[i]] \in {"pushed", "test", "asleep"}
         /\ cside[group[i]] = sside
         /\ my_seq[group[i]] = seq_front[sside] + i - 1
    /\ writing_epoch_id # Unset
    /\ \A c \in Client : epoch[c] = writing_epoch_id <=> \E i \in DOMAIN group : group[i] = c

\* Thread c has no epoch yet, or has one whose group is not in the file yet.
Unlogged(c) == \/ epoch[c] = Unset /\ pc[c] # "idle"
               \/ epoch[c] = writing_epoch_id /\ spc = "write"

\* What is in the file: no commit of the future and none still to be written, and no
\* commit twice.
OnceInv ==
  \A i \in DOMAIN wal : \A j \in DOMAIN wal[i].txns :
    /\ wal[i].txns[j].commit <= commits[wal[i].txns[j].client]
    /\ \A c \in Client : Unlogged(c) => wal[i].txns[j] # Record(c)
    /\ \A k \in DOMAIN wal : \A l \in DOMAIN wal[k].txns :
         wal[i].txns[j] = wal[k].txns[l] => i = k /\ j = l

\* Place i of the file holds the group of epoch e, synced or about to be.
Written(i, e) == wal[i].epoch = e /\ (i <= durable \/ (e = writing_epoch_id /\ spc = "sync"))

\* The groups are in the order of their epochs, only groups that met an error are missing
\* but for the one to be written, and a thread with an epoch is in the file under it.
DurableInv ==
  /\ \A i \in DOMAIN wal : wal[i].epoch <= writing_epoch_id /\ (spc = "write" => wal[i].epoch # writing_epoch_id)
  /\ \A i, k \in DOMAIN wal : i < k => wal[i].epoch < wal[k].epoch
  /\ \A e \in (1 .. writing_epoch_id) \ failed :
       (e = writing_epoch_id /\ spc = "write") \/ \E i \in DOMAIN wal : wal[i].epoch = e
  /\ \A c \in Client : epoch[c] # Unset /\ ~Unlogged(c) /\ epoch[c] \notin failed =>
       \E i \in DOMAIN wal : Written(i, epoch[c]) /\ \E j \in DOMAIN wal[i].txns : wal[i].txns[j] = Record(c)

LogInv == GroupInv /\ OnceInv /\ DurableInv

\* What a step of thread c does to what LogInv reads.
LEMMA ClientEffect ==
  ASSUME TypeOK, NEW c \in Client, Start(c) \/ ClientStep(c)
  PROVE  /\ UNCHANGED <<wal, durable, failed, spc, sside, group, writing_epoch_id, seq_front>>
         /\ \A d \in Client \ {c} :
              /\ pc'[d] = pc[d] /\ cside'[d] = cside[d] /\ my_seq'[d] = my_seq[d]
              /\ epoch'[d] = epoch[d] /\ commits'[d] = commits[d]
         /\ commits'[c] = IF pc[c] = "idle" THEN commits[c] + 1 ELSE commits[c]
         /\ epoch'[c] # epoch[c] => epoch'[c] = Unset /\ pc'[c] = "idle"
         /\ pc[c] \in {"pushed", "test", "asleep"} =>
              /\ cside'[c] = cside[c] /\ my_seq'[c] = my_seq[c] /\ epoch'[c] = epoch[c]
              /\ pc'[c] \in {"pushed", "test", "asleep"} \/ seq_front[cside[c]] > my_seq[c]
<1> USE DEF TypeOK, Goto
<1>1. CASE Start(c)
  BY <1>1 DEF Start, shared, log, server, epochs
<1>2. CASE LoadSide(c)
  BY <1>2 DEF LoadSide, shared, log, server, epochs
<1>3. CASE LockQueue(c)
  BY <1>3 DEF LockQueue, shared, log, server, epochs
<1>4. CASE CheckSide(c)
  BY <1>4 DEF CheckSide, shared, log, server, epochs
<1>5. CASE Push(c)
  BY <1>5 DEF Push, log, server, epochs
<1>6. CASE LockClient(c)
  BY <1>6 DEF LockClient, shared, log, server, epochs
<1>7. CASE TestSeq(c)
  BY <1>7 DEF TestSeq, shared, log, server, epochs
<1>8. ASSUME NEW wait \in BOOLEAN, FinishCommit(c, wait)
      PROVE  /\ UNCHANGED <<wal, durable, failed, spc, sside, group, writing_epoch_id, seq_front, commits>>
             /\ pc[c] = "install"
             /\ Return(c) \/ (Goto(c, "spin") /\ UNCHANGED <<cside, my_seq, epoch>>)
  BY <1>8 DEF FinishCommit, shared, log, server
<1>9. CASE SpinUntilVisible(c)
  BY <1>9 DEF SpinUntilVisible, Return, shared, log, server, epochs
<1>10. CASE \E wait \in BOOLEAN : FinishCommit(c, wait)
  BY <1>8, <1>10 DEF Return
<1> QED BY <1>1, <1>2, <1>3, <1>4, <1>5, <1>6, <1>7, <1>9, <1>10 DEF ClientStep

\* What a step of anyone else does to it, other than sealing, writing or syncing.
LEMMA ServerEffect ==
  ASSUME TypeOK, ServerStep \/ Close \/ UNCHANGED vars, ~Seal, ~WriteWal, ~SyncWal
  PROVE  /\ UNCHANGED <<wal, durable, failed, writing_epoch_id, cside, my_seq, epoch, commits>>
         /\ \A d \in Client : pc'[d] = pc[d] \/ (pc[d] = "asleep" /\ pc'[d] = "pushed")
         /\ \/ spc \notin {"write", "sync"} /\ spc' \notin {"write", "sync"}
            \/ spc' = spc
         /\ Unreleased' => Unreleased /\ UNCHANGED <<group, sside, seq_front, pc>>
<1> USE DEF Unreleased, shared, log, epochs, server, client
<1>1. CASE PublishEpoch \/ ServerLoadSide \/ ServerLockQueue \/ TestQueue \/ Park \/ Unpark
  BY <1>1 DEF PublishEpoch, ServerLoadSide, ServerLockQueue, TestQueue, Park, Unpark
<1>2. CASE WakeOtherSide
  BY <1>2 DEF WakeOtherSide, Notified, TypeOK
<1>3. CASE ClaimSleepers \/ Toggle \/ ServerExit \/ Hold \/ Drop
  BY <1>3 DEF ClaimSleepers, Toggle, ServerExit, Hold, Drop
<1>4. CASE Release
  BY <1>4 DEF Release, Notified, TypeOK
<1>5. CASE Close \/ UNCHANGED vars
  BY <1>5 DEF Close, vars
<1> QED BY <1>1, <1>2, <1>3, <1>4, <1>5 DEF ServerStep

\* Members of a group are threads.
LEMMA GroupMember ==
  ASSUME TypeOK, NEW i \in DOMAIN group
  PROVE  group[i] \in Client /\ i \in Nat /\ i >= 1
<1>1. group \in Seq(Client) /\ DOMAIN group = 1 .. Len(group) /\ Len(group) \in Nat
  BY LenProperties DEF TypeOK
<1> QED BY <1>1, ElementOfSeq

\* The group the server holds stays as GroupInv says.
LEMMA GroupStep ==
  ASSUME TypeOK, QueueInv, SeqInv, EpochInv, GroupInv, [Next]_vars
  PROVE  GroupInv'
<1>1. ASSUME NEW c \in Client, Start(c) \/ ClientStep(c), Unreleased PROVE GroupInv'
  <2>1. ASSUME NEW i \in DOMAIN group
        PROVE  /\ pc'[group[i]] \in {"pushed", "test", "asleep"}
               /\ cside'[group[i]] = sside
               /\ my_seq'[group[i]] = seq_front[sside] + i - 1
               /\ epoch'[group[i]] = writing_epoch_id
    <3>1. group[i] \in Client /\ i \in Nat /\ i >= 1
      BY GroupMember
    <3>2. /\ pc[group[i]] \in {"pushed", "test", "asleep"} /\ cside[group[i]] = sside
          /\ my_seq[group[i]] = seq_front[sside] + i - 1 /\ epoch[group[i]] = writing_epoch_id
      BY <1>1, <3>1 DEF GroupInv
    <3>3. seq_front[sside] \in Nat
      BY DEF TypeOK
    <3>4. ~(seq_front[sside] > my_seq[group[i]])
      BY <3>1, <3>2, <3>3
    <3> QED BY <1>1, <3>1, <3>2, <3>4, ClientEffect
  <2>2. ASSUME NEW d \in Client, epoch'[d] = writing_epoch_id
        PROVE  \E i \in DOMAIN group : group[i] = d
    <3>1. epoch[d] = writing_epoch_id
      BY <1>1, <2>2, ClientEffect DEF GroupInv
    <3> QED BY <1>1, <3>1 DEF GroupInv
  <2>3. UNCHANGED <<spc, sside, group, writing_epoch_id, seq_front>>
    BY <1>1, ClientEffect
  <2>4. \A d \in Client : epoch'[d] = writing_epoch_id <=> \E i \in DOMAIN group : group[i] = d
    BY <2>1, <2>2
  <2> HIDE DEF Unreleased
  <2> QED BY <1>1, <2>1, <2>3, <2>4 DEF GroupInv
<1>2. ASSUME NEW c \in Client, Start(c) \/ ClientStep(c), ~Unreleased PROVE GroupInv'
  BY <1>2, ClientEffect DEF GroupInv, Unreleased
<1>3. CASE Seal
  <2> DEFINE q == queue[sside]
  <2>1. /\ spc = "seal" /\ group' = q /\ writing_epoch_id' = writing_epoch_id + 1
        /\ UNCHANGED <<sside, pc, cside, my_seq, seq_front>>
        /\ epoch' = [c \in Client |->
                       IF c \in {q[i] : i \in DOMAIN q} THEN writing_epoch_id + 1 ELSE epoch[c]]
    BY <1>3 DEF Seal
  <2>2. sside \in Side /\ Len(q) \in Nat /\ DOMAIN q = 1 .. Len(q)
    BY LenProperties DEF TypeOK
  <2>3. \A i, j \in DOMAIN q : q[i] = q[j] => i = j
    BY <2>2 DEF QueueInv
  <2>4. ASSUME NEW i \in DOMAIN q
        PROVE  /\ q[i] \in Client /\ pc[q[i]] \in {"pushed", "test", "asleep"}
               /\ cside[q[i]] = sside /\ my_seq[q[i]] = seq_front[sside] + i - 1
    <3>1. q[i] \in Client /\ InQueue(q[i], sside)
      BY <2>2, QueueMember
    <3>2. my_seq[q[i]] = seq_rear[sside] - Len(q) + i - 1 /\ seq_rear[sside] = seq_front[sside] + Len(q) + 0
      BY <2>1, <2>2 DEF SeqInv, Pending
    <3>3. seq_front[sside] \in Nat /\ i \in Nat
      BY <2>2 DEF TypeOK
    <3> HIDE DEF q
    <3>4. my_seq[q[i]] = seq_front[sside] + i - 1
      BY <2>2, <3>2, <3>3
    <3> QED BY <3>1, <3>4 DEF InQueue
  <2>5. ASSUME NEW c \in Client
        PROVE  epoch'[c] = writing_epoch_id' <=> \E i \in DOMAIN q : q[i] = c
    <3>1. epoch[c] <= writing_epoch_id /\ epoch[c] \in Nat /\ writing_epoch_id \in Nat
      BY DEF EpochInv, TypeOK
    <3> HIDE DEF q
    <3> QED BY <2>1, <3>1
  <2>6. writing_epoch_id' # Unset
    BY <2>1 DEF TypeOK, Unset
  <2> HIDE DEF q
  <2> QED BY <2>1, <2>3, <2>4, <2>5, <2>6 DEF GroupInv
<1>4. CASE WriteWal \/ SyncWal
  <2>1. UNCHANGED <<sside, group, pc, cside, my_seq, epoch, seq_front, writing_epoch_id>> /\ Unreleased
    BY <1>4 DEF WriteWal, SyncWal, shared, epochs, client, Unreleased
  <2> QED BY <2>1 DEF GroupInv
<1>5. CASE (ServerStep \/ Close \/ UNCHANGED vars) /\ ~Seal /\ ~WriteWal /\ ~SyncWal
  BY <1>5, ServerEffect DEF GroupInv
<1> QED BY <1>1, <1>2, <1>3, <1>4, <1>5 DEF Next, Terminated

\* The parts of a group in the file, and of the one about to be.
LEMMA LogTypes ==
  ASSUME TypeOK
  PROVE  /\ Len(wal) \in Nat /\ DOMAIN wal = 1 .. Len(wal)
         /\ \A i \in DOMAIN wal : \A j \in DOMAIN wal[i].txns :
              wal[i].txns[j].client \in Client /\ wal[i].txns[j].commit \in Nat
         /\ DOMAIN Group.txns = DOMAIN group
         /\ \A i \in DOMAIN group : Group.txns[i] = Record(group[i])
<1>1. Len(wal) \in Nat /\ DOMAIN wal = 1 .. Len(wal)
  BY LenProperties DEF TypeOK
<1>2. ASSUME NEW i \in DOMAIN wal, NEW j \in DOMAIN wal[i].txns
      PROVE  wal[i].txns[j].client \in Client /\ wal[i].txns[j].commit \in Nat
  <2>1. wal[i] \in [epoch : Nat, txns : Seq([client : Client, commit : Nat])]
    BY <1>1, ElementOfSeq DEF TypeOK
  <2>2. wal[i].txns \in Seq([client : Client, commit : Nat])
    BY <2>1
  <2>3. wal[i].txns[j] \in [client : Client, commit : Nat]
    BY <2>2, ElementOfSeq, LenProperties
  <2> QED BY <2>3
<1> QED BY <1>1, <1>2 DEF Group

\* One more group at the end of the file.
LEMMA LogGrows ==
  ASSUME TypeOK, wal' = Append(wal, Group)
  PROVE  /\ Len(wal') = Len(wal) + 1 /\ DOMAIN wal' = 1 .. Len(wal) + 1
         /\ \A i \in DOMAIN wal : wal'[i] = wal[i]
         /\ wal'[Len(wal) + 1] = Group
<1>1. wal \in Seq([epoch : Nat, txns : Seq([client : Client, commit : Nat])])
  BY DEF TypeOK
<1> DEFINE S == [epoch : Nat, txns : Seq([client : Client, commit : Nat])] \cup {Group}
<1>2. wal \in Seq(S) /\ Group \in S
  <2>1. wal \in [1 .. Len(wal) -> S] /\ Len(wal) \in Nat
    BY <1>1, LenProperties
  <2> HIDE DEF S
  <2>2. wal \in Seq(S)
    BY <2>1, FunctionIsSeq
  <2> QED BY <2>2 DEF S
<1> HIDE DEF S
<1> QED BY <1>2, AppendProperties, LenProperties

\* A commit is logged once: writing a group adds records that were not there.
LEMMA OnceStep ==
  ASSUME TypeOK, QueueInv, EpochInv, GroupInv, OnceInv, [Next]_vars
  PROVE  OnceInv'
<1> DEFINE R(i, j) == wal[i].txns[j]
<1>1. CASE WriteWal /\ wal' = Append(wal, Group)
  <2>1. spc = "write" /\ spc' = "sync" /\ wal' = Append(wal, Group)
        /\ UNCHANGED <<pc, epoch, commits, writing_epoch_id>>
    BY <1>1 DEF WriteWal, client, epochs
  <2> DEFINE n == Len(wal) + 1
  <2>2. /\ DOMAIN wal' = DOMAIN wal \cup {n} /\ n \notin DOMAIN wal
        /\ \A i \in DOMAIN wal : wal'[i] = wal[i]
        /\ wal'[n] = Group
    BY <2>1, LogGrows, LogTypes
  <2>3. DOMAIN Group.txns = DOMAIN group
        /\ \A j \in DOMAIN group : Group.txns[j] = Record(group[j]) /\ group[j] \in Client
    BY LogTypes, GroupMember
  <2>4. \A j \in DOMAIN group : Unlogged(group[j])
    BY <2>1, <2>3 DEF GroupInv, Unreleased, Unlogged
  <2>5. \A j, l \in DOMAIN group : Record(group[j]) = Record(group[l]) => j = l
    BY <2>1 DEF GroupInv, Unreleased, Record
  <2>6. \A i \in DOMAIN wal : \A j \in DOMAIN wal[i].txns : \A l \in DOMAIN group :
          wal[i].txns[j] # Record(group[l])
    BY <2>3, <2>4 DEF OnceInv
  <2>7. ASSUME NEW c \in Client, Unlogged(c)'
        PROVE  Unlogged(c) /\ \A j \in DOMAIN group : Record(group[j]) # Record(c)
    <3>1. epoch[c] = Unset /\ pc[c] # "idle"
      BY <2>1, <2>7 DEF Unlogged
    <3>2. \A j \in DOMAIN group : group[j] # c
      BY <2>1, <3>1 DEF GroupInv, Unreleased
    <3> QED BY <3>1, <3>2 DEF Unlogged, Record
  <2>8. ASSUME NEW c \in Client PROVE Record(c)' = Record(c) /\ Record(c).commit <= commits[Record(c).client]
    BY <2>1 DEF Record, TypeOK
  <2>9. ASSUME NEW i \in DOMAIN wal', NEW j \in DOMAIN wal'[i].txns
        PROVE  /\ wal'[i].txns[j].commit <= commits'[wal'[i].txns[j].client]
               /\ \A c \in Client : Unlogged(c)' => wal'[i].txns[j] # Record(c)'
               /\ \A k \in DOMAIN wal' : \A l \in DOMAIN wal'[k].txns :
                    wal'[i].txns[j] = wal'[k].txns[l] => i = k /\ j = l
    <3> HIDE DEF n
    <3>1. CASE i = n
      <4>1. j \in DOMAIN group /\ wal'[i].txns[j] = Record(group[j])
        BY <2>2, <2>3, <2>9, <3>1
      <4>2. ASSUME NEW k \in DOMAIN wal', NEW l \in DOMAIN wal'[k].txns, wal'[i].txns[j] = wal'[k].txns[l]
            PROVE  i = k /\ j = l
        <5>1. CASE k = n
          BY <2>2, <2>3, <2>5, <3>1, <4>1, <4>2, <5>1
        <5>2. CASE k # n
          BY <2>2, <2>6, <4>1, <4>2, <5>2
        <5> QED BY <5>1, <5>2
      <4> QED BY <2>1, <2>3, <2>7, <2>8, <4>1, <4>2
    <3>2. CASE i # n
      <4>1. i \in DOMAIN wal /\ wal'[i] = wal[i] /\ j \in DOMAIN wal[i].txns
        BY <2>2, <2>9, <3>2
      <4>2. ASSUME NEW k \in DOMAIN wal', NEW l \in DOMAIN wal'[k].txns, wal'[i].txns[j] = wal'[k].txns[l]
            PROVE  i = k /\ j = l
        <5>1. CASE k = n
          BY <2>2, <2>3, <2>6, <4>1, <4>2, <5>1
        <5>2. CASE k # n
          BY <2>2, <4>1, <4>2, <5>2 DEF OnceInv
        <5> QED BY <5>1, <5>2
      <4> QED BY <2>1, <2>7, <2>8, <4>1, <4>2 DEF OnceInv
    <3> QED BY <3>1, <3>2
  <2> QED BY <2>9 DEF OnceInv
<1>2. ASSUME wal' = wal,
             \A d \in Client : Unlogged(d)' => \/ Unlogged(d) /\ commits'[d] = commits[d]
                                               \/ commits'[d] = commits[d] + 1,
             \A d \in Client : commits'[d] \in {commits[d], commits[d] + 1}
      PROVE  OnceInv'
  <2>1. ASSUME NEW i \in DOMAIN wal, NEW j \in DOMAIN wal[i].txns
        PROVE  /\ wal[i].txns[j].commit <= commits'[wal[i].txns[j].client]
               /\ \A c \in Client : Unlogged(c)' => wal[i].txns[j] # Record(c)'
    <3>1. wal[i].txns[j].client \in Client /\ wal[i].txns[j].commit \in Nat
          /\ wal[i].txns[j].commit <= commits[wal[i].txns[j].client]
      BY LogTypes DEF OnceInv
    <3>2. \A d \in Client : commits[d] \in Nat
      BY DEF TypeOK
    <3>3. ASSUME NEW c \in Client, Unlogged(c)' PROVE wal[i].txns[j] # Record(c)'
      <4>1. CASE Unlogged(c) /\ commits'[c] = commits[c]
        BY <4>1 DEF OnceInv, Record
      <4>2. CASE commits'[c] = commits[c] + 1
        BY <3>1, <3>2, <4>2 DEF Record
      <4> QED BY <1>2, <3>3, <4>1, <4>2
    <3> QED BY <1>2, <3>1, <3>2, <3>3
  <2> QED BY <1>2, <2>1 DEF OnceInv
<1>3. CASE Seal
  <2>1. /\ spc = "seal" /\ spc' = "write" /\ wal' = wal /\ commits' = commits /\ pc' = pc
        /\ writing_epoch_id' = writing_epoch_id + 1
        /\ epoch' = [c \in Client |-> IF c \in {queue[sside][i] : i \in DOMAIN queue[sside]}
                                        THEN writing_epoch_id + 1 ELSE epoch[c]]
    BY <1>3 DEF Seal, log
  <2>2. sside \in Side
    BY DEF TypeOK
  <2>3. ASSUME NEW d \in Client, Unlogged(d)' PROVE Unlogged(d)
    <3>1. epoch[d] <= writing_epoch_id /\ epoch[d] \in Nat /\ writing_epoch_id \in Nat
      BY DEF EpochInv, TypeOK
    <3>2. CASE \E i \in DOMAIN queue[sside] : queue[sside][i] = d
      <4>1. PICK i \in DOMAIN queue[sside] : queue[sside][i] = d
        BY <3>2
      <4>2. InQueue(queue[sside][i], sside)
        BY <2>2, QueueMember
      <4> QED BY <4>1, <4>2 DEF Unlogged, InQueue
    <3>3. CASE ~\E i \in DOMAIN queue[sside] : queue[sside][i] = d
      BY <2>1, <2>3, <3>1, <3>3 DEF Unlogged
    <3> QED BY <3>2, <3>3
  <2> QED BY <1>2, <2>1, <2>3
<1>4. CASE SyncWal \/ (WriteWal /\ wal' = wal)
  <2>1. UNCHANGED <<wal, commits, pc, epoch, writing_epoch_id>> /\ spc' # "write"
    BY <1>4 DEF SyncWal, WriteWal, client, epochs
  <2> QED BY <1>2, <2>1 DEF Unlogged
<1>5. CASE (ServerStep \/ Close \/ UNCHANGED vars) /\ ~Seal /\ ~WriteWal /\ ~SyncWal
  BY <1>2, <1>5, ServerEffect DEF Unlogged
<1>6. ASSUME NEW c \in Client, Start(c) \/ ClientStep(c) PROVE OnceInv'
  <2>1. ASSUME NEW d \in Client, Unlogged(d)'
        PROVE  (Unlogged(d) /\ commits'[d] = commits[d]) \/ commits'[d] = commits[d] + 1
    <3>1. CASE d # c
      BY <1>6, <2>1, <3>1, ClientEffect DEF Unlogged
    <3>2. CASE d = c /\ pc[c] = "idle"
      BY <1>6, <3>2, ClientEffect
    <3>3. CASE d = c /\ pc[c] # "idle"
      <4>1. epoch'[c] = epoch[c]
        <5>1. epoch'[c] # epoch[c] => epoch'[c] = Unset /\ pc'[c] = "idle" /\ UNCHANGED <<spc, writing_epoch_id>>
          BY <1>6, ClientEffect
        <5> QED BY <2>1, <3>3, <5>1 DEF Unlogged, GroupInv, Unreleased
      <4> QED BY <1>6, <2>1, <3>3, <4>1, ClientEffect DEF Unlogged
    <3> QED BY <3>1, <3>2, <3>3
  <2> QED BY <1>2, <1>6, <2>1, ClientEffect
<1>7. WriteWal => wal' = wal \/ wal' = Append(wal, Group)
  BY DEF WriteWal
<1> QED BY <1>1, <1>3, <1>4, <1>5, <1>6, <1>7 DEF Next, Terminated

\* A group whose write and sync met no error is in the synced file with its threads.
LEMMA DurableStep ==
  ASSUME TypeOK, QueueInv, EpochInv, GroupInv, DurableInv, [Next]_vars
  PROVE  DurableInv'
<1> DEFINE Logged(c) == \E i \in DOMAIN wal :
                          Written(i, epoch[c]) /\ \E j \in DOMAIN wal[i].txns : wal[i].txns[j] = Record(c)
<1>1. Len(wal) \in Nat /\ DOMAIN wal = 1 .. Len(wal) /\ writing_epoch_id \in Nat /\ durable \in Nat
      /\ (\A c \in Client : epoch[c] \in Nat /\ epoch[c] <= writing_epoch_id)
      /\ (\A i \in DOMAIN wal : wal[i].epoch \in Nat)
  <2>1. \A i \in 1 .. Len(wal) : wal[i] \in [epoch : Nat, txns : Seq([client : Client, commit : Nat])]
    BY ElementOfSeq DEF TypeOK
  <2> QED BY <2>1, LogTypes DEF TypeOK, EpochInv
<1>2. CASE WriteWal
  <2>1. spc = "write" /\ spc' = "sync" /\ UNCHANGED <<pc, epoch, commits, writing_epoch_id, durable>>
    BY <1>2 DEF WriteWal, client, epochs
  <2>2. \A c \in Client : Record(c)' = Record(c)
    BY <2>1 DEF Record
  <2>3. \A c \in Client : epoch[c] # Unset /\ epoch[c] # writing_epoch_id => ~Unlogged(c)
    BY DEF Unlogged
  <2>4. CASE wal' = Append(wal, Group) /\ failed' = failed
    <3> DEFINE n == Len(wal) + 1
    <3>1. /\ DOMAIN wal' = DOMAIN wal \cup {n} /\ n \notin DOMAIN wal /\ n \in DOMAIN wal'
          /\ \A i \in DOMAIN wal : wal'[i] = wal[i] /\ i \in DOMAIN wal' /\ i < n
          /\ wal'[n] = Group /\ n \in Nat
      BY <1>1, <2>4, LogGrows
    <3>2. Group.epoch = writing_epoch_id
      BY DEF Group
    <3> HIDE DEF n
    <3>3. ASSUME NEW i \in DOMAIN wal' PROVE wal'[i].epoch <= writing_epoch_id
      BY <1>1, <3>1, <3>2 DEF DurableInv
    <3>4. ASSUME NEW i \in DOMAIN wal', NEW k \in DOMAIN wal', i < k PROVE wal'[i].epoch < wal'[k].epoch
      <4>1. i \in DOMAIN wal
        BY <1>1, <3>1, <3>4
      <4>2. CASE k = n
        <5>1. wal[i].epoch <= writing_epoch_id /\ wal[i].epoch # writing_epoch_id /\ wal[i].epoch \in Nat
          BY <1>1, <2>1, <4>1 DEF DurableInv
        <5> QED BY <1>1, <3>1, <3>2, <4>1, <4>2, <5>1
      <4>3. CASE k # n
        BY <3>1, <3>4, <4>1, <4>3 DEF DurableInv
      <4> QED BY <4>2, <4>3
    <3>5. ASSUME NEW e \in (1 .. writing_epoch_id) \ failed PROVE \E i \in DOMAIN wal' : wal'[i].epoch = e
      <4>1. CASE e = writing_epoch_id
        BY <3>1, <3>2, <4>1
      <4>2. CASE e # writing_epoch_id
        <5>1. PICK i \in DOMAIN wal : wal[i].epoch = e
          BY <3>5, <4>2 DEF DurableInv
        <5> QED BY <3>1, <5>1
      <4> QED BY <4>1, <4>2
    <3>6. ASSUME NEW c \in Client, epoch[c] # Unset, epoch[c] \notin failed PROVE Logged(c)'
      <4>1. CASE epoch[c] = writing_epoch_id
        <5>1. PICK j \in DOMAIN group : group[j] = c
          BY <2>1, <4>1 DEF GroupInv, Unreleased
        <5>2. j \in DOMAIN Group.txns /\ Group.txns[j] = Record(c)
          BY <5>1, LogTypes
        <5> QED BY <2>1, <2>2, <3>1, <3>2, <4>1, <5>2 DEF Written
      <4>2. CASE epoch[c] # writing_epoch_id
        <5>1. PICK i \in DOMAIN wal : Written(i, epoch[c]) /\ \E j \in DOMAIN wal[i].txns : wal[i].txns[j] = Record(c)
          BY <2>3, <3>6, <4>2 DEF DurableInv
        <5>2. Written(i, epoch[c])'
          BY <2>1, <3>1, <4>2, <5>1 DEF Written
        <5> QED BY <2>2, <3>1, <5>1, <5>2
      <4> QED BY <4>1, <4>2
    <3> QED BY <2>1, <2>4, <3>3, <3>4, <3>5, <3>6 DEF DurableInv
  <2>5. CASE wal' = wal /\ failed' = failed \cup {writing_epoch_id}
    <3>1. ASSUME NEW c \in Client, epoch[c] # Unset, epoch[c] \notin failed' PROVE Logged(c)'
      <4>1. PICK i \in DOMAIN wal : Written(i, epoch[c]) /\ \E j \in DOMAIN wal[i].txns : wal[i].txns[j] = Record(c)
        BY <2>3, <2>5, <3>1 DEF DurableInv
      <4>2. Written(i, epoch[c])'
        BY <2>1, <2>5, <3>1, <4>1 DEF Written
      <4> QED BY <2>2, <2>5, <4>1, <4>2
    <3>2. \A i \in DOMAIN wal' : wal'[i].epoch <= writing_epoch_id'
      BY <2>1, <2>5 DEF DurableInv
    <3>3. \A i, k \in DOMAIN wal' : i < k => wal'[i].epoch < wal'[k].epoch
      BY <2>5 DEF DurableInv
    <3>4. \A e \in (1 .. writing_epoch_id') \ failed' : \E i \in DOMAIN wal' : wal'[i].epoch = e
      BY <2>1, <2>5 DEF DurableInv
    <3> QED BY <2>1, <3>1, <3>2, <3>3, <3>4 DEF DurableInv
  <2>6. \/ wal' = Append(wal, Group) /\ failed' = failed
        \/ wal' = wal /\ failed' = failed \cup {writing_epoch_id}
    BY <1>2 DEF WriteWal, IoError
  <2> QED BY <2>4, <2>5, <2>6
<1>3. CASE SyncWal
  <2>1. spc = "sync" /\ spc' = "hold" /\ UNCHANGED <<wal, pc, epoch, commits, writing_epoch_id>>
    BY <1>3 DEF SyncWal, client, epochs
  <2>2. \/ durable' = Len(wal) /\ failed' = failed
        \/ durable' = durable /\ failed' = failed \cup {writing_epoch_id}
    BY <1>3 DEF SyncWal, IoError
  <2>3. ASSUME NEW c \in Client, epoch[c] # Unset, epoch[c] \notin failed', ~Unlogged(c)' PROVE Logged(c)'
    <3>1. ~Unlogged(c)
      BY <2>1, <2>3 DEF Unlogged
    <3>2. PICK i \in DOMAIN wal : Written(i, epoch[c]) /\ \E j \in DOMAIN wal[i].txns : wal[i].txns[j] = Record(c)
      BY <2>2, <2>3, <3>1 DEF DurableInv
    <3>3. Written(i, epoch[c])'
      <4>1. CASE durable' = Len(wal)
        BY <1>1, <2>1, <3>2, <4>1 DEF Written
      <4>2. CASE durable' = durable /\ failed' = failed \cup {writing_epoch_id}
        BY <2>1, <2>3, <3>2, <4>2 DEF Written
      <4> QED BY <2>2, <4>1, <4>2
    <3> QED BY <2>1, <3>2, <3>3 DEF Record
  <2>4. /\ \A i \in DOMAIN wal' : wal'[i].epoch <= writing_epoch_id'
        /\ \A i, k \in DOMAIN wal' : i < k => wal'[i].epoch < wal'[k].epoch
    BY <2>1 DEF DurableInv
  <2>5. \A e \in (1 .. writing_epoch_id') \ failed' : \E i \in DOMAIN wal' : wal'[i].epoch = e
    BY <2>1, <2>2 DEF DurableInv
  <2> QED BY <2>1, <2>3, <2>4, <2>5 DEF DurableInv
<1>4. CASE Seal
  <2>1. /\ spc = "seal" /\ spc' = "write" /\ UNCHANGED <<wal, durable, failed, commits, pc>>
        /\ writing_epoch_id' = writing_epoch_id + 1
        /\ epoch' = [c \in Client |-> IF c \in {queue[sside][i] : i \in DOMAIN queue[sside]}
                                        THEN writing_epoch_id + 1 ELSE epoch[c]]
    BY <1>4 DEF Seal, log
  <2>2. ASSUME NEW c \in Client, epoch'[c] # Unset, ~Unlogged(c)', epoch'[c] \notin failed'
        PROVE  Logged(c)'
    <3>1. epoch'[c] = epoch[c] /\ ~Unlogged(c)
      BY <2>1, <2>2 DEF Unlogged
    <3>2. PICK i \in DOMAIN wal : Written(i, epoch[c]) /\ \E j \in DOMAIN wal[i].txns : wal[i].txns[j] = Record(c)
      BY <2>1, <2>2, <3>1 DEF DurableInv
    <3>3. Written(i, epoch[c])'
      BY <2>1, <3>1, <3>2 DEF Written
    <3> QED BY <2>1, <3>1, <3>2, <3>3 DEF Record
  <2>3. /\ \A i \in DOMAIN wal' : wal'[i].epoch <= writing_epoch_id' /\ wal'[i].epoch # writing_epoch_id'
        /\ \A i, k \in DOMAIN wal' : i < k => wal'[i].epoch < wal'[k].epoch
    BY <1>1, <2>1 DEF DurableInv
  <2>4. \A e \in (1 .. writing_epoch_id') \ failed' :
          e = writing_epoch_id' \/ \E i \in DOMAIN wal' : wal'[i].epoch = e
    <3>1. ASSUME NEW e \in (1 .. writing_epoch_id') \ failed', e # writing_epoch_id'
          PROVE  \E i \in DOMAIN wal' : wal'[i].epoch = e
      <4>1. e \in (1 .. writing_epoch_id) \ failed
        BY <1>1, <2>1, <3>1
      <4> QED BY <2>1, <4>1 DEF DurableInv
    <3> QED BY <3>1
  <2> QED BY <2>1, <2>2, <2>3, <2>4 DEF DurableInv
<1>5. CASE (ServerStep \/ Close \/ UNCHANGED vars) /\ ~Seal /\ ~WriteWal /\ ~SyncWal
  <2>1. /\ UNCHANGED <<wal, durable, failed, writing_epoch_id, epoch, commits>>
        /\ (spc = "write" <=> spc' = "write") /\ (spc = "sync" <=> spc' = "sync")
    BY <1>5, ServerEffect
  <2>2. \A c \in Client : epoch[c] # Unset => (Unlogged(c)' <=> Unlogged(c))
    BY <2>1 DEF Unlogged
  <2> QED BY <2>1, <2>2 DEF DurableInv, Written, Record
<1>6. ASSUME NEW c \in Client, Start(c) \/ ClientStep(c) PROVE DurableInv'
  <2>1. UNCHANGED <<wal, durable, failed, spc, writing_epoch_id>>
    BY <1>6, ClientEffect
  <2>2. ASSUME NEW d \in Client, epoch'[d] # Unset
        PROVE  epoch'[d] = epoch[d] /\ (Unlogged(d)' <=> Unlogged(d)) /\ Record(d)' = Record(d)
    <3>1. epoch'[d] = epoch[d]
      BY <1>6, <2>2, ClientEffect
    <3>2. pc[d] # "idle"
      BY <2>2, <3>1 DEF EpochInv
    <3> QED BY <1>6, <2>1, <2>2, <3>1, <3>2, ClientEffect DEF Unlogged, Record
  <2> QED BY <2>1, <2>2 DEF DurableInv, Written
<1> QED BY <1>2, <1>3, <1>4, <1>5, <1>6 DEF Next, Terminated

\* The log's part of the inductive invariant.
LEMMA LogInvariance == Spec => []LogInv
<1>1. Init => LogInv
  <2> SUFFICES ASSUME Init PROVE LogInv
    OBVIOUS
  <2>1. spc = "top" /\ wal = <<>> /\ durable = 0 /\ writing_epoch_id = 0 /\ \A c \in Client : epoch[c] = Unset
    BY DEF Init
  <2>2. Len(wal) = 0 /\ DOMAIN wal = {} /\ 1 .. writing_epoch_id = {}
    BY <2>1
  <2> QED BY <2>1, <2>2 DEF LogInv, GroupInv, OnceInv, DurableInv, Unreleased
<1>2. CommitInv /\ LogInv /\ [Next]_vars => LogInv'
  BY GroupStep, OnceStep, DurableStep DEF CommitInv, LogInv
<1> QED BY <1>1, <1>2, Invariance, PTL DEF Spec

\* A commit is acknowledged only when it is on disk: register_commit returns with the record of
\* the commit in the synced part of the log, under the epoch it returns, unless writing or
\* syncing its own group met an error, which the server does not look at.
THEOREM Durable == Spec => []AckedIsDurable
<1>1. ASSUME CommitInv, LogInv PROVE AckedIsDurable
  <2>1. ASSUME NEW c \in Acknowledged, epoch[c] \notin failed
        PROVE  \E i \in 1 .. durable : /\ wal[i].epoch = epoch[c]
                                      /\ \E j \in DOMAIN wal[i].txns : wal[i].txns[j] = Record(c)
    <3>1. /\ c \in Client /\ pc[c] \in {"install", "spin"} /\ epoch[c] # Unset
          /\ durable \in Nat /\ Len(wal) \in Nat /\ DOMAIN wal = 1 .. Len(wal)
      BY <1>1, LogTypes DEF CommitInv, EpochInv, TypeOK, Acknowledged
    <3>2. Unreleased => epoch[c] # writing_epoch_id
      <4>1. SUFFICES ASSUME Unreleased, epoch[c] = writing_epoch_id PROVE FALSE
        OBVIOUS
      <4>2. PICK i \in DOMAIN group : group[i] = c
        BY <1>1, <3>1, <4>1 DEF LogInv, GroupInv
      <4> QED BY <1>1, <3>1, <4>1, <4>2 DEF LogInv, GroupInv
    <3>3. ~Unlogged(c)
      BY <3>1, <3>2 DEF Unlogged, Unreleased
    <3>4. PICK i \in DOMAIN wal : Written(i, epoch[c]) /\ \E j \in DOMAIN wal[i].txns : wal[i].txns[j] = Record(c)
      BY <1>1, <2>1, <3>1, <3>3 DEF LogInv, DurableInv
    <3>5. i \in 1 .. durable /\ wal[i].epoch = epoch[c]
      BY <3>1, <3>2, <3>4 DEF Written, Unreleased
    <3> QED BY <3>4, <3>5
  <2> QED BY <2>1 DEF AckedIsDurable
<1>2. CommitInv /\ LogInv => AckedIsDurable
  BY <1>1
<1> QED BY <1>2, Invariance, LogInvariance, PTL

\* Recovery reads every commit once and the epochs in order: no record is in the file twice, and
\* the only epochs missing among those written so far met an error in write() or fdatasync().
THEOREM LoggedInOrder == Spec => []LoggedOnceInOrder
<1>1. LogInv => LoggedOnceInOrder
  BY DEF LogInv, OnceInv, DurableInv, LoggedOnceInOrder
<1> QED BY <1>1, LogInvariance, PTL
=============================================================================
