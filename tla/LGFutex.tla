------------------------------ MODULE LGFutex -------------------------------
(***************************************************************************)
(* LiveGraph's per-vertex lock, class Futex (include/core/futex.hpp): a    *)
(* word futexp that is 1 while the lock is held, and a count num_using of  *)
(* the threads inside a lock call or a critical section, which lets unlock *)
(* skip the FUTEX_WAKE system call when nobody else is there.              *)
(*                                                                         *)
(* Each __sync builtin and each futex system call is one step.  The kernel *)
(* side (external) is what futex(2) promises: FUTEX_WAIT compares the word *)
(* and sleeps atomically, FUTEX_WAKE wakes one sleeper of its choice, and  *)
(* a sleeper may also be ended by its timeout or by a signal.              *)
(***************************************************************************)
EXTENDS Integers, FiniteSets

CONSTANTS Thread,      \* threads that use the lock
          MaxCalls     \* bound: lock calls per thread

ASSUME CallsAssumption == MaxCalls \in Nat \ {0}
ASSUME ThreadAssumption == IsFiniteSet(Thread)

VARIABLES futexp,      \* the lock word
          num_using,   \* threads announced on the lock
          pc,          \* where each thread is
          timed,       \* whether its lock call is try_lock_for
          calls        \* lock calls each thread has made

vars == <<futexp, num_using, pc, timed, calls>>

\* "use" .. "expired" are inside lock or try_lock_for, "held" is the critical section,
\* "sub" and "wake" are the tail of unlock.
Places == {"idle", "use", "cas", "wait", "asleep", "leave", "expired", "signalled",
           "held", "sub", "wake"}

At(P) == {t \in Thread : pc[t] \in P}

Goto(t, place) == pc' = [pc EXCEPT ![t] = place]

Init ==
  /\ futexp = 0 /\ num_using = 0
  /\ pc = [t \in Thread |-> "idle"]
  /\ timed = [t \in Thread |-> FALSE]
  /\ calls = [t \in Thread |-> 0]

-----------------------------------------------------------------------------
(* lock and try_lock_for: announce, try the word, else sleep and start over. *)

Call(t, withTimeout) ==
  /\ pc[t] = "idle" /\ calls[t] < MaxCalls
  /\ Goto(t, "use")
  /\ timed' = [timed EXCEPT ![t] = withTimeout]
  /\ calls' = [calls EXCEPT ![t] = calls[t] + 1]
  /\ UNCHANGED <<futexp, num_using>>

Announce(t) ==
  /\ pc[t] = "use"
  /\ num_using' = num_using + 1
  /\ Goto(t, "cas")
  /\ UNCHANGED <<futexp, timed, calls>>

Acquire(t) ==
  /\ pc[t] = "cas" /\ futexp = 0
  /\ futexp' = 1
  /\ Goto(t, "held")
  /\ UNCHANGED <<num_using, timed, calls>>

\* A slip: the word is bumped with a fetch-and-add in place of the compare-and-swap.
ContendByAdding(t) ==
  /\ pc[t] = "cas" /\ futexp # 0
  /\ futexp' = futexp + 1
  /\ Goto(t, "wait")
  /\ UNCHANGED <<num_using, timed, calls>>

Contend(t) ==
  /\ pc[t] = "cas" /\ futexp = 1
  /\ Goto(t, "wait")
  /\ UNCHANGED <<futexp, num_using, timed, calls>>

\* A slip: FUTEX_WAIT without its comparison of the word.
WaitBlindly(t) ==
  /\ pc[t] = "wait"
  /\ Goto(t, "asleep")
  /\ UNCHANGED <<futexp, num_using, timed, calls>>

\* FUTEX_WAIT: sleep if the word is still 1, else EAGAIN.
FutexWait(t) ==
  /\ pc[t] = "wait"
  /\ Goto(t, IF futexp = 1 THEN "asleep" ELSE "leave")
  /\ UNCHANGED <<futexp, num_using, timed, calls>>

\* ETIMEDOUT ends the sleep of try_lock_for.
Expire(t) ==
  /\ pc[t] = "asleep" /\ timed[t]
  /\ Goto(t, "expired")
  /\ UNCHANGED <<futexp, num_using, timed, calls>>

\* EINTR ends any sleep.
Signal(t) ==
  /\ pc[t] = "asleep"
  /\ Goto(t, "signalled")
  /\ UNCHANGED <<futexp, num_using, timed, calls>>

\* A slip: an expired wait falls out of the loop as if it had the lock.
WithdrawAsOwner(t) ==
  /\ pc[t] \in {"leave", "expired", "signalled"}
  /\ num_using' = num_using - 1
  /\ Goto(t, IF pc[t] = "leave" THEN "use" ELSE IF pc[t] = "expired" THEN "held" ELSE "idle")
  /\ UNCHANGED <<futexp, timed, calls>>

\* After a wait: off the count, then try again, return false (ETIMEDOUT), or
\* throw "Futex wait error." (EINTR).
Withdraw(t) ==
  /\ pc[t] \in {"leave", "expired", "signalled"}
  /\ num_using' = num_using - 1
  /\ Goto(t, IF pc[t] = "leave" THEN "use" ELSE "idle")
  /\ UNCHANGED <<futexp, timed, calls>>

-----------------------------------------------------------------------------
(* unlock: release the word, leave the count, wake one sleeper if any is left. *)

Release(t) ==
  /\ pc[t] = "held" /\ futexp = 1
  /\ futexp' = 0
  /\ Goto(t, "sub")
  /\ UNCHANGED <<num_using, timed, calls>>

\* A slip: the caller does not take its own decrement into account.
LeaveSharedOffByOne(t) ==
  /\ pc[t] = "sub"
  /\ num_using' = num_using - 1
  /\ Goto(t, IF num_using' <= 1 THEN "idle" ELSE "wake")
  /\ UNCHANGED <<futexp, timed, calls>>

LeaveShared(t) ==
  /\ pc[t] = "sub"
  /\ num_using' = num_using - 1
  /\ Goto(t, IF num_using' = 0 THEN "idle" ELSE "wake")
  /\ UNCHANGED <<futexp, timed, calls>>

Sleepers == At({"asleep"})

\* FUTEX_WAKE: one sleeper, or nobody.
Wake(t) ==
  /\ pc[t] = "wake"
  /\ \/ /\ Sleepers = {}
        /\ Goto(t, "idle")
     \/ \E s \in Sleepers : pc' = [pc EXCEPT ![t] = "idle", ![s] = "leave"]
  /\ UNCHANGED <<futexp, num_using, timed, calls>>

-----------------------------------------------------------------------------
\* What a thread does by itself once it has called lock or holds the lock.
Step(t) ==
  \/ Announce(t) \/ Acquire(t) \/ Contend(t) \/ FutexWait(t) \/ Withdraw(t)
  \/ Release(t) \/ LeaveShared(t) \/ Wake(t)

Next ==
  \E t \in Thread :
    \/ \E withTimeout \in BOOLEAN : Call(t, withTimeout)
    \/ Step(t)
    \/ Expire(t)
    \/ Signal(t)

\* Threads are scheduled; neither a timeout nor a signal is needed for progress.
Fairness == \A t \in Thread : WF_vars(Step(t))

Spec == Init /\ [][Next]_vars /\ Fairness

-----------------------------------------------------------------------------
(* Properties. *)

TypeOK ==
  /\ futexp \in {0, 1}
  /\ num_using \in Int
  /\ pc \in [Thread -> Places]
  /\ timed \in [Thread -> BOOLEAN]
  /\ calls \in [Thread -> 0 .. MaxCalls]

\* At most one thread is in the critical section, and the word says whether one is,
\* whatever mix of timeouts, signals and wakes ended the waits before (futex.hpp 31-75).
MutualExclusion ==
  /\ \A s, t \in At({"held"}) : s = t
  /\ futexp = 1 <=> At({"held"}) # {}

\* Threads counted in num_using: those between the increment and the decrement of their
\* current round (futex.hpp 35, 39, 52, 56 and 69).
Users == At(Places \ {"idle", "use", "wake"})

\* num_using is exactly the number of threads on the lock: a thread that gives up, throws
\* or loses a race never leaves a residue (which would cost a wake or a system call).
UsingExact == num_using = Cardinality(Users)

\* Threads that will look at the word again, or will wake somebody.
Active == At({"use", "cas", "wait", "leave", "sub", "wake"})

\* No wake-up is lost: while the lock is free and someone sleeps on it, another thread is
\* on its way to take the lock (and wake at its unlock) or to wake.  This is what allows
\* unlock skip the system call when its decrement reaches 0 (futex.hpp 69).
NoLostWakeup == futexp = 0 /\ Sleepers # {} => Active # {}

\* Every call of lock or try_lock_for comes back and every critical section is left, even
\* if no timeout ever fires: with finitely many calls nobody sleeps for ever.
CallsReturn == \A t \in Thread : pc[t] # "idle" ~> pc[t] = "idle"
=============================================================================
