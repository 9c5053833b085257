----------------------------- MODULE MCLGCommit -----------------------------
(* Small instances of LGCommitManager. *)
EXTENDS LGCommitManager

CONSTANTS c1, c2

TwoClients   == {c1, c2}
TwoEach      == [c \in Client |-> 2]
=============================================================================
