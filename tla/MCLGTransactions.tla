------------------------- MODULE MCLGTransactions -------------------------
(* Instances of LGTransactions for TLC. *)
EXTENDS LGTransactions, TLC

CONSTANTS w1, w2, reader, t1, t2, t3

AllClients  == {w1, w2, reader}
Writers     == {w1, w2}
AllThreads  == {t1, t2, t3}
OneEach     == (w1 :> t1) @@ (w2 :> t2) @@ (reader :> t3)
WritersOnly == (w1 :> t1) @@ (w2 :> t2)
OnlyReader  == {reader}
NoClient    == {}
TwoThreads  == {t1, t2}

\* Clients that differ in nothing but their name may change places, with their threads.
Renamings ==
  {p \in Permutations(Client \cup Thread) : \A c \in Client :
     /\ p[c] \in Client /\ (p[c] \in ReadOnly <=> c \in ReadOnly)
     /\ p[ThreadOf[c]] = ThreadOf[p[c]]}

Once        == [c \in Client |-> 1]
FirstTwice  == [c \in Client |-> IF c = w1 THEN 2 ELSE 1]

Never       == {FALSE}
Always      == {TRUE}
=============================================================================
