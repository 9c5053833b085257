------------------------------ MODULE LGEpochs ------------------------------
(***************************************************************************)
(* What LiveGraph's commit manager promises to its callers.  A commit asks *)
(* for an epoch and waits; some of the waiting commits are granted the     *)
(* next epoch together; each then finishes on its own; an epoch is made    *)
(* visible only after the ones before it and only when none of the commits *)
(* it was granted to is unfinished.  No queue, lock or file is mentioned.  *)
(***************************************************************************)
EXTENDS Naturals

CONSTANT Client

VARIABLES sealed,    \* newest epoch granted
          visible,   \* newest epoch readers may use
          stage,     \* "idle", "queued" or "granted", for each client
          grant      \* the epoch a granted client commits at, else 0

epochsVars == <<sealed, visible, stage, grant>>

Queued     == {c \in Client : stage[c] = "queued"}
Holders(e) == {c \in Client : stage[c] = "granted" /\ grant[c] = e}

EpochsInit ==
  /\ sealed = 0 /\ visible = 0
  /\ stage = [c \in Client |-> "idle"]
  /\ grant = [c \in Client |-> 0]

Ask(c) ==
  /\ stage[c] = "idle"
  /\ stage' = [stage EXCEPT ![c] = "queued"]
  /\ UNCHANGED <<sealed, visible, grant>>

\* A group of waiting commits is granted the next epoch at once.
Grant(G) ==
  /\ G # {} /\ G \subseteq Queued
  /\ sealed' = sealed + 1
  /\ stage' = [c \in Client |-> IF c \in G THEN "granted" ELSE stage[c]]
  /\ grant' = [c \in Client |-> IF c \in G THEN sealed + 1 ELSE grant[c]]
  /\ UNCHANGED visible

Finish(c) ==
  /\ stage[c] = "granted"
  /\ stage' = [stage EXCEPT ![c] = "idle"]
  /\ grant' = [grant EXCEPT ![c] = 0]
  /\ UNCHANGED <<sealed, visible>>

MakeVisible ==
  /\ visible < sealed /\ Holders(visible + 1) = {}
  /\ visible' = visible + 1
  /\ UNCHANGED <<sealed, stage, grant>>

EpochsNext ==
  \/ \E c \in Client : Ask(c) \/ Finish(c)
  \/ \E G \in SUBSET Client : Grant(G)
  \/ MakeVisible

EpochsSpec == EpochsInit /\ [][EpochsNext]_epochsVars
=============================================================================
