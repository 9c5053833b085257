------------------------------ MODULE MCTeseo ------------------------------
(* Instances of TeseoTransactions for TLC. *)
EXTENDS TeseoTransactions, TLC

CONSTANTS x1, x2, reader, h1, h2, h3, merger

AllTxns   == {x1, x2, reader}
OneReader == {reader}
AllThreads == {h1, h2, h3, merger}
OneEach   == (x1 :> h1) @@ (x2 :> h2) @@ (reader :> h3)
Merger    == {merger}

TwoVertices == {1, 2}
BothWays    == {<<1, 2>>, <<2, 1>>}
EachOnce    == [t \in Txn |-> 1]
Targets     == [t \in Txn |-> IF t = reader THEN {<<2, 1>>} ELSE {<<1, 0>>, <<2, 1>>}]

\* The writers may change places, with their threads.
Renamings ==
  {p \in Permutations({x1, x2, h1, h2}) : p[x1] \in {x1, x2} /\ ThreadOf[p[x1]] = p[ThreadOf[x1]]}
=============================================================================
