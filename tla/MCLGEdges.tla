------------------------------ MODULE MCLGEdges ------------------------------
(* Instances of LGEdges for TLC. *)
EXTENDS LGEdges, TLC

CONSTANTS w1, w2, knows, likes, hates, d1, d2

TwoWriters   == {w1, w2}
NoClient     == {}
TwoLabels    == {knows, hates}
LoadedTwo    == <<knows, likes>>
OneDst       == {d1}

\* One destination written twice by the loader, so that its first entry is dead.
Rewritten == (knows :> <<d1, d2, d1>>) @@ (likes :> <<d2>>)

Backwards == {TRUE}

\* Two clients with a transaction each, of which the second compacts as it begins; and one that works while the
\* other only compacts, twice.
Budget(t1, t2, calls) == [txns |-> [c \in Client |-> IF c = w1 THEN t1 ELSE t2], compacts |-> calls]
OneCompacts   == {Budget(2, 0, 2)}
SharedOrApart == {Budget(1, 1, 0), Budget(2, 0, 2), Budget(0, 2, 2)}

\* Clients that differ in nothing but their name may change places.
Renamings == {p \in Permutations(Client) : \A c \in Client : p[c] \in ReadOnly <=> c \in ReadOnly}
=============================================================================
