----------------------------- MODULE MCLGBlocks -----------------------------
(* Small instances of LGBlockManager. *)
EXTENDS LGBlockManager, TLC

CONSTANTS t1, t2, t3

TwoThreads   == {t1, t2}
ThreeThreads == {t1, t2, t3}
Threads      == Permutations(Thread)
=============================================================================
