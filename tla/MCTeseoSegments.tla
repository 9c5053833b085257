-------------------------- MODULE MCTeseoSegments --------------------------
(* Instances of TeseoSegments for TLC. *)
EXTENDS TeseoSegments, TLC

CONSTANTS r1, w1, o1, c1, c2, m1

OneReader   == {r1}
OneWriter   == {w1}
OneOptimist == {o1}
TwoServices == {c1, c2}
OneMerger   == {m1}

\* The segments at both ends wait to be rebalanced; the others meet in the middle, the writer also
\* left of it.
Ends        == {0, NumSegments - 1}
Once        == [t \in Thread |-> 1]
Twice       == [t \in Thread |-> IF t \in Reader THEN 2 ELSE 1]
Targets     == [t \in Thread |-> IF t \in Service THEN Segment
                                 ELSE IF t \in Writer THEN {0, 1} ELSE {1}]

\* The two service threads may change places.
Renamings   == Permutations(Service)
=============================================================================
