----------------------------- MODULE MCLGFutex ------------------------------
(* Small instances of LGFutex. *)
EXTENDS LGFutex, TLC

CONSTANTS t1, t2, t3

ThreeThreads == {t1, t2, t3}
Threads == Permutations(ThreeThreads)
=============================================================================
