---------------------------- MODULE LGFutexProof ----------------------------
(***************************************************************************)
(* The lock of LGFutex, for any finite set of threads and any number of    *)
(* calls: mutual exclusion, the exact count, and no lost wake-up.          *)
(***************************************************************************)
EXTENDS LGFutex, FiniteSetTheorems, TLAPS

FutexInv == TypeOK /\ MutualExclusion /\ UsingExact /\ NoLostWakeup

\* Threads are where pc says they are after one or two of them move.
LEMMA Moved ==
  ASSUME TypeOK, NEW t \in Thread, NEW place \in Places, Goto(t, place)
  PROVE  /\ pc' \in [Thread -> Places]
         /\ pc'[t] = place
         /\ \A s \in Thread \ {t} : pc'[s] = pc[s]
  BY DEF TypeOK, Goto

\* Every step keeps the types.
LEMMA TypeStep ==
  ASSUME TypeOK, [Next]_vars
  PROVE  TypeOK'
<1> USE CallsAssumption DEF TypeOK, Places, Goto
<1>1. CASE UNCHANGED vars
  BY <1>1 DEF vars
<1>2. ASSUME NEW t \in Thread, NEW withTimeout \in BOOLEAN, Call(t, withTimeout) PROVE TypeOK'
  BY <1>2 DEF Call
<1>3. ASSUME NEW t \in Thread, Step(t) PROVE TypeOK'
  <2>1. CASE Announce(t)
    BY <2>1 DEF Announce
  <2>2. CASE Acquire(t)
    BY <2>2 DEF Acquire
  <2>3. CASE Contend(t)
    BY <2>3 DEF Contend
  <2>4. CASE FutexWait(t)
    BY <2>4 DEF FutexWait
  <2>5. CASE Withdraw(t)
    BY <2>5 DEF Withdraw
  <2>6. CASE Release(t)
    BY <2>6 DEF Release
  <2>7. CASE LeaveShared(t)
    BY <2>7 DEF LeaveShared
  <2>8. CASE Wake(t)
    BY <2>8 DEF Wake, Sleepers, At
  <2> QED BY <1>3, <2>1, <2>2, <2>3, <2>4, <2>5, <2>6, <2>7, <2>8 DEF Step
<1>4. ASSUME NEW t \in Thread, Expire(t) \/ Signal(t) PROVE TypeOK'
  BY <1>4 DEF Expire, Signal
<1> QED BY <1>1, <1>2, <1>3, <1>4 DEF Next

\* The lock word and the critical section stay in step.
LEMMA ExclusionStep ==
  ASSUME TypeOK, MutualExclusion, [Next]_vars
  PROVE  MutualExclusion'
<1> USE DEF TypeOK, MutualExclusion, Places, Goto, At
<1>1. CASE UNCHANGED vars
  BY <1>1 DEF vars
<1>2. ASSUME NEW t \in Thread, NEW withTimeout \in BOOLEAN, Call(t, withTimeout)
      PROVE  MutualExclusion'
  BY <1>2 DEF Call
<1>3. ASSUME NEW t \in Thread, Step(t) PROVE MutualExclusion'
  <2>1. CASE Announce(t)
    BY <2>1 DEF Announce
  <2>2. CASE Acquire(t)
    BY <2>2 DEF Acquire
  <2>3. CASE Contend(t)
    BY <2>3 DEF Contend
  <2>4. CASE FutexWait(t)
    BY <2>4 DEF FutexWait
  <2>5. CASE Withdraw(t)
    BY <2>5 DEF Withdraw
  <2>6. CASE Release(t)
    BY <2>6 DEF Release
  <2>7. CASE LeaveShared(t)
    BY <2>7 DEF LeaveShared
  <2>8. CASE Wake(t)
    BY <2>8 DEF Wake, Sleepers
  <2> QED BY <1>3, <2>1, <2>2, <2>3, <2>4, <2>5, <2>6, <2>7, <2>8 DEF Step
<1>4. ASSUME NEW t \in Thread, Expire(t) \/ Signal(t) PROVE MutualExclusion'
  BY <1>4 DEF Expire, Signal
<1> QED BY <1>1, <1>2, <1>3, <1>4 DEF Next

\* The users are finitely many.
LEMMA UsersFinite == IsFiniteSet(Users) /\ Cardinality(Users) \in Nat
<1>1. Users \subseteq Thread
  BY DEF Users, At
<1> QED BY <1>1, ThreadAssumption, FS_Subset, FS_CardinalityType

\* A step that neither announces nor withdraws a thread.
LEMMA UsersSame ==
  ASSUME UsingExact, Users' = Users, num_using' = num_using
  PROVE  UsingExact'
  BY DEF UsingExact

LEMMA UsersJoin ==
  ASSUME TypeOK, UsingExact, NEW t \in Thread, t \notin Users, Users' = Users \cup {t},
         num_using' = num_using + 1
  PROVE  UsingExact'
<1>1. Cardinality(Users \cup {t}) = Cardinality(Users) + 1
  BY UsersFinite, FS_AddElement
<1> QED BY <1>1 DEF UsingExact

LEMMA UsersLeave ==
  ASSUME TypeOK, UsingExact, NEW t \in Users, Users' = Users \ {t},
         num_using' = num_using - 1
  PROVE  UsingExact'
<1>1. Cardinality(Users \ {t}) = Cardinality(Users) - 1
  BY UsersFinite, FS_RemoveElement
<1> QED BY <1>1 DEF UsingExact

\* The count follows the announcements.
LEMMA UsingStep ==
  ASSUME TypeOK, UsingExact, [Next]_vars
  PROVE  UsingExact'
<1> USE DEF TypeOK, Places, Goto, At, Users
<1>1. CASE UNCHANGED vars
  BY <1>1, UsersSame DEF vars
<1>2. ASSUME NEW t \in Thread, NEW withTimeout \in BOOLEAN, Call(t, withTimeout)
      PROVE  UsingExact'
  <2>1. Users' = Users
    BY <1>2 DEF Call
  <2> QED BY <1>2, <2>1, UsersSame DEF Call
<1>3. ASSUME NEW t \in Thread, Step(t) PROVE UsingExact'
  <2>1. CASE Announce(t)
    <3>1. t \notin Users /\ Users' = Users \cup {t}
      BY <2>1 DEF Announce
    <3> QED BY <2>1, <3>1, UsersJoin DEF Announce
  <2>2. CASE Acquire(t) \/ Contend(t) \/ FutexWait(t) \/ Release(t)
    <3>1. Users' = Users
      BY <2>2 DEF Acquire, Contend, FutexWait, Release
    <3>2. num_using' = num_using
      BY <2>2 DEF Acquire, Contend, FutexWait, Release
    <3> QED BY <3>1, <3>2, UsersSame
  <2>3. CASE Withdraw(t)
    <3>1. t \in Users /\ Users' = Users \ {t}
      BY <2>3 DEF Withdraw
    <3> QED BY <2>3, <3>1, UsersLeave DEF Withdraw
  <2>4. CASE LeaveShared(t)
    <3>1. t \in Users /\ Users' = Users \ {t}
      BY <2>4 DEF LeaveShared
    <3> QED BY <2>4, <3>1, UsersLeave DEF LeaveShared
  <2>5. CASE Wake(t)
    <3>1. Users' = Users
      BY <2>5 DEF Wake, Sleepers
    <3> QED BY <2>5, <3>1, UsersSame DEF Wake
  <2> QED BY <1>3, <2>1, <2>2, <2>3, <2>4, <2>5 DEF Step
<1>4. ASSUME NEW t \in Thread, Expire(t) \/ Signal(t) PROVE UsingExact'
  <2>1. Users' = Users /\ num_using' = num_using
    BY <1>4 DEF Expire, Signal
  <2> QED BY <2>1, UsersSame
<1> QED BY <1>1, <1>2, <1>3, <1>4 DEF Next

\* A sleeper keeps the count of an unlock above zero, so the unlock goes on to wake.
LEMMA SleepersCounted ==
  ASSUME TypeOK, UsingExact, NEW t \in Users, NEW s \in Users, s # t
  PROVE  num_using - 1 # 0
<1>1. Cardinality(Users \ {t}) = Cardinality(Users) - 1 /\ IsFiniteSet(Users \ {t})
  BY UsersFinite, FS_RemoveElement
<1>2. Cardinality(Users \ {t}) # 0
  BY <1>1, FS_EmptySet
<1> QED BY <1>1, <1>2 DEF UsingExact

\* A free lock with sleepers always has somebody active.
LEMMA WakeupStep ==
  ASSUME TypeOK, UsingExact, NoLostWakeup, [Next]_vars
  PROVE  NoLostWakeup'
<1> USE DEF TypeOK, NoLostWakeup, Places, Goto, At, Sleepers, Active
<1>1. CASE UNCHANGED vars
  BY <1>1 DEF vars
<1>2. ASSUME NEW t \in Thread, NEW withTimeout \in BOOLEAN, Call(t, withTimeout)
      PROVE  NoLostWakeup'
  BY <1>2 DEF Call
<1>3. ASSUME NEW t \in Thread, Step(t) PROVE NoLostWakeup'
  <2>1. CASE Announce(t)
    BY <2>1 DEF Announce
  <2>2. CASE Acquire(t)
    BY <2>2 DEF Acquire
  <2>3. CASE Contend(t)
    BY <2>3 DEF Contend
  <2>4. CASE FutexWait(t)
    BY <2>4 DEF FutexWait
  <2>5. CASE Withdraw(t)
    BY <2>5 DEF Withdraw
  <2>6. CASE Release(t)
    BY <2>6 DEF Release
  <2>7. CASE LeaveShared(t)
    <3>1. CASE Sleepers = {}
      BY <2>7, <3>1 DEF LeaveShared
    <3>2. CASE Sleepers # {}
      <4>1. PICK s \in Thread : pc[s] = "asleep"
        BY <3>2
      <4>2. num_using - 1 # 0
        BY <2>7, <4>1, SleepersCounted DEF LeaveShared, Users
      <4> QED BY <2>7, <4>2 DEF LeaveShared
    <3> QED BY <3>1, <3>2
  <2>8. CASE Wake(t)
    BY <2>8 DEF Wake
  <2> QED BY <1>3, <2>1, <2>2, <2>3, <2>4, <2>5, <2>6, <2>7, <2>8 DEF Step
<1>4. ASSUME NEW t \in Thread, Expire(t) \/ Signal(t) PROVE NoLostWakeup'
  BY <1>4 DEF Expire, Signal
<1> QED BY <1>1, <1>2, <1>3, <1>4 DEF Next

\* The inductive invariant holds at first.
LEMMA FutexInit == Init => FutexInv
<1> SUFFICES ASSUME Init PROVE FutexInv
  OBVIOUS
<1>1. TypeOK /\ MutualExclusion /\ NoLostWakeup
  BY CallsAssumption DEF Init, TypeOK, MutualExclusion, NoLostWakeup, Places, At, Sleepers
<1>2. Users = {}
  BY DEF Init, Users, At, Places
<1>3. UsingExact
  BY <1>2, FS_EmptySet DEF Init, UsingExact
<1> QED BY <1>1, <1>3 DEF FutexInv

\* The four invariants of the lock hold together in every behaviour.
THEOREM Invariance == Spec => []FutexInv
<1>1. FutexInv /\ [Next]_vars => FutexInv'
  BY TypeStep, ExclusionStep, UsingStep, WakeupStep DEF FutexInv
<1> QED BY FutexInit, <1>1, PTL DEF Spec

\* Every variable keeps its type: no waiter count becomes negative, and no thread leaves
\* the program of the lock.
THEOREM Typing == Spec => []TypeOK
<1>1. FutexInv => TypeOK
  BY DEF FutexInv
<1> QED BY <1>1, Invariance, PTL

\* At most one thread is in the critical section, and the word says so.
THEOREM Exclusion == Spec => []MutualExclusion
<1>1. FutexInv => MutualExclusion
  BY DEF FutexInv
<1> QED BY <1>1, Invariance, PTL

\* num_using counts the threads on the lock exactly.
THEOREM CountExact == Spec => []UsingExact
<1>1. FutexInv => UsingExact
  BY DEF FutexInv
<1> QED BY <1>1, Invariance, PTL

\* A free lock with sleepers always has a thread about to take it or to wake one.
THEOREM WakeupsKept == Spec => []NoLostWakeup
<1>1. FutexInv => NoLostWakeup
  BY DEF FutexInv
<1> QED BY <1>1, Invariance, PTL
=============================================================================
