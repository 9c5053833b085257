---------------------------- MODULE LGBlockProof ----------------------------
(***************************************************************************)
(* The allocator of LGBlockManager, for any threads, orders and sizes and  *)
(* with no bound on the cursor but Capacity: no byte is ever in two        *)
(* blocks, no block in two places, no usable block outside the file, and   *)
(* none is lost but by a failed growth.                                    *)
(***************************************************************************)
EXTENDS LGBlockManager, SequenceTheorems, TLAPS

\* The parts of the inductive invariant.  The lists hold every block once.
ListsApart ==
  /\ \A t \in Thread, o \in Order : Distinct(free_blocks[t][o])
  /\ \A o \in Order : Distinct(large_free_blocks[o])
  /\ \A t, u \in Thread, o, q \in Order :
       <<t, o>> # <<u, q>> => Listed(free_blocks[t][o], o) \cap Listed(free_blocks[u][q], q) = {}

CallsApart == \A t, u \in InCall : t # u => Mine(t) # Mine(u)

\* No element is in two of six sets.
Apart(A, B, C, D, E, F) ==
  /\ A \cap B = {} /\ A \cap C = {} /\ A \cap D = {} /\ A \cap E = {} /\ A \cap F = {}
  /\ B \cap C = {} /\ B \cap D = {} /\ B \cap E = {} /\ B \cap F = {}
  /\ C \cap D = {} /\ C \cap E = {} /\ C \cap F = {}
  /\ D \cap E = {} /\ D \cap F = {}
  /\ E \cap F = {}

PlacesApart == Apart(handed, lost, {null_holder}, Calls, Small, Large)

BytesApart ==
  /\ \A a, b \in AllBlocks : a = b \/ Disjoint(a, b)
  /\ \A b \in AllBlocks : b.ptr + Size(b.order) <= used_size

\* Only the thread inside the critical section is about to grow the file or has; the file
\* is never shorter than the threads believe, and covers the usable blocks.
FileInv ==
  /\ \A t \in Thread : pc[t] \in {"grow", "store"} <=> t \in growing
  /\ file_size <= disk_size
  /\ \A t \in Thread : pc[t] = "store" => disk_size = Grown(t)
  /\ \A b \in handed \cup Small \cup Large : b.ptr + Size(b.order) < file_size

BlockInv ==
  TypeOK /\ ListsApart /\ CallsApart /\ PlacesApart /\ BytesApart /\ FileInv /\ NothingLeaked

----------------------------------------------------------------------------
(* Sizes, sequences and lists. *)

\* No block is empty.
LEMMA SizeFacts == \A o \in Order : Size(o) \in Nat /\ Size(o) > 0
  BY SizeAssumption DEF Size

\* A growth always covers the block it is for.
LEMMA GrownCovers ==
  ASSUME TypeOK, NEW t \in Thread
  PROVE  End(t) \in Nat /\ Grown(t) \in Nat /\ End(t) < Grown(t)
<1>1. ASSUME NEW a \in Nat, NEW n \in Nat \ {0}
      PROVE  (a \div n + 1) * n \in Nat /\ a < (a \div n + 1) * n
  OBVIOUS
<1>2. FILE_TRUNC_SIZE \in Nat \ {0}
  BY SizeAssumption, SizeFacts, OrderAssumption DEF Size
<1>3. End(t) \in Nat
  BY SizeFacts DEF End, TypeOK
<1> QED BY <1>1, <1>2, <1>3 DEF Grown

\* What pop_back leaves.
LEMMA PoppedSeq ==
  ASSUME NEW s \in Seq(Nat), s # <<>>
  PROVE  /\ Len(s) \in Nat \ {0} /\ Front(s) \in Seq(Nat) /\ Len(Front(s)) = Len(s) - 1
         /\ \A i \in 1 .. Len(s) - 1 : Front(s)[i] = s[i]
         /\ Last(s) \in Nat
<1>1. s \in [1 .. Len(s) -> Nat] /\ Len(s) \in Nat /\ Len(s) # 0
  BY LenProperties, EmptySeq
<1> QED BY <1>1, SubSeqProperties DEF Front, Last

\* pop_back takes one block out of a list ...
LEMMA PoppedList ==
  ASSUME NEW s \in Seq(Nat), s # <<>>, Distinct(s), NEW o
  PROVE  LET b == [ptr |-> Last(s), order |-> o]
         IN  /\ b \in Listed(s, o)
             /\ Listed(Front(s), o) = Listed(s, o) \ {b}
             /\ Distinct(Front(s))
<1> DEFINE b == [ptr |-> Last(s), order |-> o]
<1>1. /\ Len(s) \in Nat \ {0} /\ Len(Front(s)) = Len(s) - 1 /\ Last(s) = s[Len(s)]
      /\ \A i \in 1 .. Len(s) - 1 : Front(s)[i] = s[i]
  BY PoppedSeq DEF Last
<1>2. \A i, j \in 1 .. Len(s) : s[i] = s[j] => i = j
  BY DEF Distinct
<1>3. b \in Listed(s, o)
  BY <1>1 DEF Listed
<1>4. ASSUME NEW x \in Listed(Front(s), o) PROVE x \in Listed(s, o) /\ x # b
  <2>1. PICK i \in 1 .. Len(s) - 1 : x = [ptr |-> s[i], order |-> o]
    BY <1>1, <1>4 DEF Listed
  <2>2. i \in 1 .. Len(s) /\ s[i] # s[Len(s)]
    BY <1>1, <1>2, <2>1
  <2>3. x.ptr # b.ptr
    BY <1>1, <2>1, <2>2
  <2> QED BY <2>1, <2>2, <2>3 DEF Listed
<1>5. ASSUME NEW x \in Listed(s, o), x # b PROVE x \in Listed(Front(s), o)
  <2>1. PICK i \in 1 .. Len(s) : x = [ptr |-> s[i], order |-> o]
    BY <1>5 DEF Listed
  <2>2. i # Len(s)
    BY <1>1, <1>5, <2>1
  <2>3. i \in 1 .. Len(s) - 1
    BY <1>1, <2>2
  <2> QED BY <1>1, <2>1, <2>3 DEF Listed
<1>6. Distinct(Front(s))
  BY <1>1, <1>2 DEF Distinct
<1>7. Listed(Front(s), o) = Listed(s, o) \ {b}
  BY <1>4, <1>5
<1> QED BY <1>3, <1>6, <1>7

\* ... and push_back adds one.
LEMMA PushedList ==
  ASSUME NEW s \in Seq(Nat), NEW p \in Nat, NEW o,
         [ptr |-> p, order |-> o] \notin Listed(s, o), Distinct(s)
  PROVE  /\ Append(s, p) \in Seq(Nat)
         /\ Listed(Append(s, p), o) = Listed(s, o) \cup {[ptr |-> p, order |-> o]}
         /\ Distinct(Append(s, p))
<1> DEFINE r == Append(s, p)
           b == [ptr |-> p, order |-> o]
<1>1. /\ r \in Seq(Nat) /\ Len(s) \in Nat /\ Len(r) = Len(s) + 1 /\ r[Len(s) + 1] = p
      /\ \A i \in 1 .. Len(s) : r[i] = s[i]
  BY AppendProperties, LenProperties
<1>2. \A i \in 1 .. Len(s) : s[i] # p
  BY DEF Listed
<1> HIDE DEF r
<1>3. ASSUME NEW x \in Listed(r, o) PROVE x \in Listed(s, o) \cup {b}
  <2>1. PICK i \in 1 .. Len(s) + 1 : x = [ptr |-> r[i], order |-> o]
    BY <1>1, <1>3 DEF Listed
  <2>2. i \in 1 .. Len(s) \/ i = Len(s) + 1
    BY <1>1
  <2> QED BY <1>1, <2>1, <2>2 DEF Listed
<1>4. ASSUME NEW x \in Listed(s, o) PROVE x \in Listed(r, o)
  <2>1. PICK i \in 1 .. Len(s) : x = [ptr |-> s[i], order |-> o]
    BY <1>4 DEF Listed
  <2>2. i \in 1 .. Len(r) /\ r[i] = s[i]
    BY <1>1, <2>1
  <2> QED BY <2>1, <2>2 DEF Listed
<1>5. b \in Listed(r, o)
  BY <1>1 DEF Listed
<1>6. Distinct(r)
  <2>1. ASSUME NEW i \in 1 .. Len(r), NEW j \in 1 .. Len(r), r[i] = r[j] PROVE i = j
    <3>1. \A k \in 1 .. Len(r) : k \in 1 .. Len(s) \/ k = Len(s) + 1
      BY <1>1
    <3>2. CASE i \in 1 .. Len(s) /\ j \in 1 .. Len(s)
      BY <1>1, <2>1, <3>2 DEF Distinct
    <3> QED BY <1>1, <1>2, <2>1, <3>1, <3>2
  <2> QED BY <2>1 DEF Distinct
<1>7. Listed(r, o) = Listed(s, o) \cup {b}
  BY <1>3, <1>4, <1>5
<1> QED BY <1>1, <1>6, <1>7 DEF r

----------------------------------------------------------------------------
(* Blocks that move from one place to another. *)

LEMMA SmallTypes ==
  ASSUME TypeOK, NEW t \in Thread, NEW o \in Order
  PROVE  free_blocks[t][o] \in Seq(Nat) /\ large_free_blocks[o] \in Seq(Nat)
BY DEF TypeOK

\* A thread takes the last block of one of its lists.
LEMMA PopSmall ==
  ASSUME TypeOK, ListsApart, NEW t \in Thread, NEW o \in Order, free_blocks[t][o] # <<>>,
         free_blocks' = [free_blocks EXCEPT ![t][o] = Front(free_blocks[t][o])],
         large_free_blocks' = large_free_blocks
  PROVE  LET b == [ptr |-> Last(free_blocks[t][o]), order |-> o]
         IN  b \in Small /\ Small' = Small \ {b} /\ Large' = Large /\ ListsApart'
<1> DEFINE s == free_blocks[t][o]
           b == [ptr |-> Last(s), order |-> o]
<1>1. s \in Seq(Nat) /\ Distinct(s)
  BY SmallTypes DEF ListsApart
<1>2. b \in Listed(s, o) /\ Listed(Front(s), o) = Listed(s, o) \ {b} /\ Distinct(Front(s))
  BY <1>1, PoppedList
<1>3. \A u \in Thread, q \in Order :
        free_blocks'[u][q] = IF <<u, q>> = <<t, o>> THEN Front(s) ELSE free_blocks[u][q]
  BY DEF TypeOK
<1> DEFINE L(u, q)  == Listed(free_blocks[u][q], q)
           LN(u, q) == Listed(free_blocks'[u][q], q)
<1>4. \A u \in Thread, q \in Order : b \in L(u, q) => <<u, q>> = <<t, o>>
  BY <1>2 DEF ListsApart
<1>5. \A u \in Thread, q \in Order : LN(u, q) = L(u, q) \ {b}
  <2> TAKE u \in Thread, q \in Order
  <2>1. CASE <<u, q>> = <<t, o>>
    BY <1>2, <1>3, <2>1
  <2>2. CASE <<u, q>> # <<t, o>>
    <3>1. free_blocks'[u][q] = free_blocks[u][q]
      BY <1>3, <2>2
    <3> QED BY <1>4, <2>2, <3>1
  <2> QED BY <2>1, <2>2
<1>6. Small = UNION {L(u, q) : u \in Thread, q \in Order}
      /\ Small' = UNION {LN(u, q) : u \in Thread, q \in Order}
  BY DEF Small, Listed
<1>7. b \in Small
  BY <1>2, <1>6
<1>8. ListsApart'
  <2>1. \A u \in Thread, q \in Order : Distinct(free_blocks'[u][q])
    BY <1>2, <1>3 DEF ListsApart
  <2>2. \A u, v \in Thread, p, q \in Order : <<u, p>> # <<v, q>> => LN(u, p) \cap LN(v, q) = {}
    <3>1. \A u, v \in Thread, p, q \in Order : <<u, p>> # <<v, q>> => L(u, p) \cap L(v, q) = {}
      BY DEF ListsApart
    <3> HIDE DEF L, LN
    <3> QED BY <1>5, <3>1
  <2>3. ListsApart' <=>
         /\ \A u \in Thread, q \in Order : Distinct(free_blocks'[u][q])
         /\ \A q \in Order : Distinct(large_free_blocks[q])
         /\ \A u, v \in Thread, p, q \in Order : <<u, p>> # <<v, q>> => LN(u, p) \cap LN(v, q) = {}
    BY DEF ListsApart, Distinct, Listed
  <2> QED BY <2>1, <2>2, <2>3 DEF ListsApart
<1>9. Small' = Small \ {b}
  <2> HIDE DEF L, LN, b
  <2> QED BY <1>5, <1>6
<1>10. Large' = Large
  BY DEF Large, Listed
<1> QED BY <1>7, <1>8, <1>9, <1>10

\* A thread puts a block in one of its lists.
LEMMA PushSmall ==
  ASSUME TypeOK, ListsApart, NEW t \in Thread, NEW b \in Block, b \notin Small,
         free_blocks' = [free_blocks EXCEPT ![t][b.order] = Append(free_blocks[t][b.order], b.ptr)],
         large_free_blocks' = large_free_blocks
  PROVE  Small' = Small \cup {b} /\ Large' = Large /\ ListsApart'
<1> DEFINE o == b.order
           s == free_blocks[t][o]
           r == Append(s, b.ptr)
           L(u, q)  == Listed(free_blocks[u][q], q)
           LN(u, q) == Listed(free_blocks'[u][q], q)
<1>1. o \in Order /\ b.ptr \in Nat /\ b = [ptr |-> b.ptr, order |-> o]
  BY DEF Block
<1>2. Small = UNION {L(u, q) : u \in Thread, q \in Order}
      /\ Small' = UNION {LN(u, q) : u \in Thread, q \in Order}
  BY DEF Small, Listed
<1>3. \A u \in Thread, q \in Order : b \notin L(u, q)
  BY <1>2
<1>4. s \in Seq(Nat) /\ Distinct(s) /\ [ptr |-> b.ptr, order |-> o] \notin Listed(s, o)
  BY <1>1, <1>3, SmallTypes DEF ListsApart
<1>5. Listed(r, o) = Listed(s, o) \cup {b} /\ Distinct(r)
  BY <1>1, <1>4, PushedList
<1>6. \A u \in Thread, q \in Order :
        free_blocks'[u][q] = IF <<u, q>> = <<t, o>> THEN r ELSE free_blocks[u][q]
  BY <1>1 DEF TypeOK
<1> HIDE DEF r
<1>7. LN(t, o) = L(t, o) \cup {b}
      /\ \A u \in Thread, q \in Order : <<u, q>> # <<t, o>> => LN(u, q) = L(u, q)
  BY <1>1, <1>5, <1>6
<1>8. ListsApart'
  <2>1. \A u \in Thread, q \in Order : Distinct(free_blocks'[u][q])
    BY <1>5, <1>6 DEF ListsApart
  <2>2. \A u, v \in Thread, p, q \in Order : <<u, p>> # <<v, q>> => LN(u, p) \cap LN(v, q) = {}
    <3>1. \A u, v \in Thread, p, q \in Order : <<u, p>> # <<v, q>> => L(u, p) \cap L(v, q) = {}
      BY DEF ListsApart
    <3> HIDE DEF L, LN, o
    <3> QED BY <1>3, <1>7, <3>1
  <2>3. ListsApart' <=>
         /\ \A u \in Thread, q \in Order : Distinct(free_blocks'[u][q])
         /\ \A q \in Order : Distinct(large_free_blocks[q])
         /\ \A u, v \in Thread, p, q \in Order : <<u, p>> # <<v, q>> => LN(u, p) \cap LN(v, q) = {}
    BY DEF ListsApart, Distinct, Listed
  <2> QED BY <2>1, <2>2, <2>3 DEF ListsApart
<1>9. Small' = Small \cup {b}
  <2> HIDE DEF L, LN, o
  <2> QED BY <1>1, <1>2, <1>7
<1>10. Large' = Large
  BY DEF Large, Listed
<1> QED BY <1>8, <1>9, <1>10

\* The same for the shared lists.
LEMMA PopLarge ==
  ASSUME TypeOK, ListsApart, NEW o \in Order, large_free_blocks[o] # <<>>,
         large_free_blocks' = [large_free_blocks EXCEPT ![o] = Front(large_free_blocks[o])],
         free_blocks' = free_blocks
  PROVE  LET b == [ptr |-> Last(large_free_blocks[o]), order |-> o]
         IN  b \in Large /\ Large' = Large \ {b} /\ Small' = Small /\ ListsApart'
<1> DEFINE s == large_free_blocks[o]
           b == [ptr |-> Last(s), order |-> o]
           L(q)  == Listed(large_free_blocks[q], q)
           LN(q) == Listed(large_free_blocks'[q], q)
<1>1. s \in Seq(Nat) /\ Distinct(s)
  BY DEF ListsApart, TypeOK
<1>2. b \in Listed(s, o) /\ Listed(Front(s), o) = Listed(s, o) \ {b} /\ Distinct(Front(s))
  BY <1>1, PoppedList
<1>3. \A q \in Order : large_free_blocks'[q] = IF q = o THEN Front(s) ELSE large_free_blocks[q]
  BY DEF TypeOK
<1>4. \A q \in Order : b \in L(q) => q = o
  BY DEF Listed
<1>5. \A q \in Order : LN(q) = L(q) \ {b}
  <2> TAKE q \in Order
  <2>1. CASE q = o
    BY <1>2, <1>3, <2>1
  <2>2. CASE q # o
    <3>1. large_free_blocks'[q] = large_free_blocks[q]
      BY <1>3, <2>2
    <3> QED BY <1>4, <2>2, <3>1
  <2> QED BY <2>1, <2>2
<1>6. Large = UNION {L(q) : q \in Order} /\ Large' = UNION {LN(q) : q \in Order}
  BY DEF Large, Listed
<1>7. ListsApart'
  <2>1. \A q \in Order : Distinct(large_free_blocks'[q])
    BY <1>2, <1>3 DEF ListsApart
  <2> QED BY <2>1 DEF ListsApart, Distinct, Listed
<1>8. Small' = Small
  BY DEF Small, Listed
<1>9. b \in Large
  BY <1>2, <1>6
<1>10. Large' = Large \ {b}
  <2> HIDE DEF L, LN, b
  <2> QED BY <1>5, <1>6
<1> QED BY <1>7, <1>8, <1>9, <1>10

LEMMA PushLarge ==
  ASSUME TypeOK, ListsApart, NEW b \in Block, b \notin Large,
         large_free_blocks' = [large_free_blocks EXCEPT ![b.order] =
                                 Append(large_free_blocks[b.order], b.ptr)],
         free_blocks' = free_blocks
  PROVE  Large' = Large \cup {b} /\ Small' = Small /\ ListsApart'
<1> DEFINE o == b.order
           s == large_free_blocks[o]
           r == Append(s, b.ptr)
           L(q)  == Listed(large_free_blocks[q], q)
           LN(q) == Listed(large_free_blocks'[q], q)
<1>1. o \in Order /\ b.ptr \in Nat /\ b = [ptr |-> b.ptr, order |-> o]
  BY DEF Block
<1>2. Large = UNION {L(q) : q \in Order} /\ Large' = UNION {LN(q) : q \in Order}
  BY DEF Large, Listed
<1>3. s \in Seq(Nat) /\ Distinct(s) /\ [ptr |-> b.ptr, order |-> o] \notin Listed(s, o)
  BY <1>1, <1>2 DEF ListsApart, TypeOK
<1>4. Listed(r, o) = Listed(s, o) \cup {b} /\ Distinct(r)
  BY <1>1, <1>3, PushedList
<1>5. \A q \in Order : large_free_blocks'[q] = IF q = o THEN r ELSE large_free_blocks[q]
  BY <1>1 DEF TypeOK
<1> HIDE DEF r
<1>6. LN(o) = L(o) \cup {b} /\ \A q \in Order : q # o => LN(q) = L(q)
  BY <1>1, <1>4, <1>5
<1>7. ListsApart'
  <2>1. \A q \in Order : Distinct(large_free_blocks'[q])
    BY <1>4, <1>5 DEF ListsApart
  <2> QED BY <2>1 DEF ListsApart, Distinct, Listed
<1>8. Small' = Small
  BY DEF Small, Listed
<1>9. Large' = Large \cup {b}
  <2> HIDE DEF L, LN, o
  <2> QED BY <1>1, <1>2, <1>6
<1> QED BY <1>7, <1>8, <1>9

\* Nothing moves between the lists.
LEMMA ListsSame ==
  ASSUME ListsApart, UNCHANGED lists
  PROVE  Small' = Small /\ Large' = Large /\ ListsApart'
BY DEF ListsApart, lists, Small, Large, Distinct, Listed

\* A call keeps its block from one place of alloc to the next.
LEMMA CallStays ==
  ASSUME TypeOK, CallsApart, NEW t \in Thread, NEW place, Goto(t, place),
         t \in InCall <=> place \in {"check", "lock", "grow", "store"},
         \A u \in InCall : got'[u] = got[u] /\ wanted'[u] = wanted[u]
  PROVE  Calls' = Calls /\ CallsApart'
<1>1. InCall' = InCall
  BY DEF Goto, TypeOK, InCall
<1>2. \A u \in InCall : Mine(u)' = Mine(u)
  BY DEF Mine
<1> QED BY <1>1, <1>2 DEF Calls, CallsApart

\* A call ends.
LEMMA CallEnds ==
  ASSUME TypeOK, CallsApart, NEW t \in InCall, Goto(t, "idle"), UNCHANGED local
  PROVE  Mine(t) \in Calls /\ Calls' = Calls \ {Mine(t)} /\ CallsApart'
<1>1. InCall' = InCall \ {t}
  BY DEF Goto, TypeOK, InCall
<1>2. \A u : Mine(u)' = Mine(u)
  BY DEF Mine, local
<1>3. Calls = {Mine(u) : u \in InCall} /\ Calls' = {Mine(u) : u \in InCall \ {t}}
  BY <1>1, <1>2 DEF Calls
<1>4. Calls' = Calls \ {Mine(t)}
  BY <1>3 DEF CallsApart
<1> QED BY <1>1, <1>2, <1>3, <1>4 DEF CallsApart

\* A call gets a block nobody else has.
LEMMA CallGets ==
  ASSUME TypeOK, CallsApart, NEW t \in Thread, t \notin InCall, Goto(t, "check"),
         got' = [got EXCEPT ![t] = used_size], wanted' = wanted,
         [ptr |-> used_size, order |-> wanted[t]] \notin Calls
  PROVE  Calls' = Calls \cup {[ptr |-> used_size, order |-> wanted[t]]} /\ CallsApart'
<1> DEFINE b == [ptr |-> used_size, order |-> wanted[t]]
<1>1. InCall' = InCall \cup {t}
  BY DEF Goto, TypeOK, InCall
<1>2. Mine(t)' = b /\ \A u \in InCall : Mine(u)' = Mine(u)
  BY DEF Mine, TypeOK, InCall
<1>3. \A u \in InCall : Mine(u) # b
  BY DEF Calls
<1> HIDE DEF b
<1>4. Calls' = Calls \cup {b}
  BY <1>1, <1>2 DEF Calls
<1>5. CallsApart'
  BY <1>1, <1>2, <1>3 DEF CallsApart
<1> QED BY <1>4, <1>5 DEF b

----------------------------------------------------------------------------
(* Steps. *)

\* What a step does with the places of blocks: nothing, move one block from one place to
\* another, or cut a new one.
Places == <<handed, lost, Calls, Small, Large>>

MoveOf(b) ==
  \/ /\ b \in Small /\ handed' = handed \cup {b} /\ Small' = Small \ {b}
     /\ UNCHANGED <<lost, Calls, Large>>
  \/ /\ b \in Large /\ handed' = handed \cup {b} /\ Large' = Large \ {b}
     /\ UNCHANGED <<lost, Calls, Small>>
  \/ /\ b \in Calls /\ handed' = handed \cup {b} /\ Calls' = Calls \ {b}
     /\ UNCHANGED <<lost, Small, Large>>
  \/ /\ b \in Calls /\ lost' = lost \cup {b} /\ Calls' = Calls \ {b}
     /\ UNCHANGED <<handed, Small, Large>>
  \/ /\ b \in handed /\ handed' = handed \ {b} /\ Small' = Small \cup {b}
     /\ UNCHANGED <<lost, Calls, Large>>
  \/ /\ b \in handed /\ handed' = handed \ {b} /\ Large' = Large \cup {b}
     /\ UNCHANGED <<lost, Calls, Small>>

Cut(t) == [ptr |-> used_size, order |-> wanted[t]]

\* The block at the cursor is a new one.
LEMMA CutIsNew ==
  ASSUME TypeOK, BytesApart, NEW t \in Thread
  PROVE  Cut(t) \notin AllBlocks
<1>1. wanted[t] \in Order /\ used_size \in Nat /\ Size(wanted[t]) \in Nat /\ Size(wanted[t]) > 0
  BY SizeFacts DEF TypeOK
<1>2. Cut(t).ptr + Size(Cut(t).order) > used_size
  BY <1>1 DEF Cut
<1>3. Cut(t).ptr + Size(Cut(t).order) \in Nat
  BY <1>1 DEF Cut
<1> QED BY <1>1, <1>2, <1>3 DEF BytesApart

\* The steps that move no block.
LEMMA StillStep ==
  ASSUME TypeOK, ListsApart, CallsApart, NEW t \in Thread,
         \/ \E o \in Order : Miss(t, o)
         \/ MustGrow(t) \/ LockFile(t) \/ Truncate(t)
  PROVE  UNCHANGED Places /\ used_size' = used_size /\ ListsApart' /\ CallsApart'
<1>1. UNCHANGED <<handed, lost, lists, used_size>>
  BY DEF Miss, MustGrow, LockFile, Truncate
<1>2. CASE \E o \in Order : Miss(t, o)
  <2>1. Goto(t, "bump") /\ t \notin InCall /\ got' = got
    BY <1>2 DEF Miss, InCall
  <2>2. \A u \in InCall : wanted'[u] = wanted[u]
    BY <1>2, <2>1 DEF Miss, TypeOK, InCall
  <2> QED BY <1>1, <2>1, <2>2, CallStays, ListsSame DEF Places
<1>3. CASE MustGrow(t) \/ LockFile(t) \/ Truncate(t)
  <2>1. t \in InCall /\ UNCHANGED <<got, wanted>>
        /\ (Goto(t, "lock") \/ Goto(t, "grow") \/ Goto(t, "store"))
    BY <1>3 DEF MustGrow, LockFile, Truncate, InCall, local
  <2> QED BY <1>1, <2>1, CallStays, ListsSame DEF Places
<1> QED BY <1>2, <1>3

\* The steps of a call that take a block from a list.
LEMMA ReuseStep ==
  ASSUME TypeOK, ListsApart, CallsApart, NEW t \in Thread, NEW o \in Order,
         ReuseSmall(t, o) \/ ReuseLarge(t, o)
  PROVE  (\E b \in Small \cup Large : MoveOf(b)) /\ used_size' = used_size /\ ListsApart' /\ CallsApart'
<1>1. UNCHANGED <<lost, used_size>> /\ Calls' = Calls /\ CallsApart'
  BY DEF ReuseSmall, ReuseLarge, local, Calls, CallsApart, Mine, InCall
<1>2. CASE ReuseSmall(t, o)
  BY <1>1, <1>2, PopSmall DEF ReuseSmall, Hand, MoveOf
<1>3. CASE ReuseLarge(t, o)
  BY <1>1, <1>3, PopLarge DEF ReuseLarge, Hand, MoveOf
<1> QED BY <1>2, <1>3

\* The steps that end a call.
LEMMA EndStep ==
  ASSUME TypeOK, ListsApart, CallsApart, NEW t \in Thread,
         Fits(t) \/ StoreSize(t) \/ AlreadyGrown(t) \/ TruncateFails(t)
  PROVE  MoveOf(Mine(t)) /\ used_size' = used_size /\ ListsApart' /\ CallsApart'
<1>1. UNCHANGED <<used_size, lists, local>> /\ t \in InCall /\ Goto(t, "idle")
  BY DEF Fits, StoreSize, AlreadyGrown, TruncateFails, InCall
<1>2. \/ handed' = handed \cup {Mine(t)} /\ lost' = lost
      \/ lost' = lost \cup {Mine(t)} /\ handed' = handed
  BY DEF Fits, StoreSize, AlreadyGrown, TruncateFails
<1> QED BY <1>1, <1>2, CallEnds, ListsSame DEF MoveOf

\* A block given back goes to a list.
LEMMA FreeStep ==
  ASSUME TypeOK, ListsApart, CallsApart, PlacesApart, NEW t \in Thread, NEW b \in handed,
         FreeSmall(t, b) \/ FreeLarge(t, b)
  PROVE  MoveOf(b) /\ used_size' = used_size /\ ListsApart' /\ CallsApart'
<1>1. UNCHANGED <<lost, used_size>> /\ Calls' = Calls /\ CallsApart' /\ handed' = handed \ {b}
  BY DEF FreeSmall, FreeLarge, local, Calls, CallsApart, Mine, InCall
<1>2. b \in Block /\ b \notin Small /\ b \notin Large
  BY DEF TypeOK, PlacesApart, Apart
<1>3. CASE FreeSmall(t, b)
  BY <1>1, <1>2, <1>3, PushSmall DEF FreeSmall, MoveOf
<1>4. CASE FreeLarge(t, b)
  BY <1>1, <1>2, <1>4, PushLarge DEF FreeLarge, MoveOf
<1> QED BY <1>3, <1>4

\* The cursor moves.
LEMMA BumpStep ==
  ASSUME TypeOK, ListsApart, CallsApart, BytesApart, NEW t \in Thread, Bump(t)
  PROVE  /\ UNCHANGED <<handed, lost, Small, Large>> /\ Calls' = Calls \cup {Cut(t)}
         /\ used_size' = used_size + Size(wanted[t]) /\ ListsApart' /\ CallsApart'
<1>1. /\ UNCHANGED <<handed, lost, lists>> /\ t \notin InCall /\ Goto(t, "check")
      /\ got' = [got EXCEPT ![t] = used_size] /\ wanted' = wanted
      /\ used_size' = used_size + Size(wanted[t])
  BY DEF Bump, InCall
<1>2. Cut(t) \notin Calls
  BY CutIsNew DEF AllBlocks
<1> QED BY <1>1, <1>2, CallGets, ListsSame DEF Cut

\* Whatever moved, a block is in one place.
LEMMA PlacesKept ==
  ASSUME PlacesApart,
         \/ UNCHANGED Places
         \/ \E b : MoveOf(b)
         \/ \E b : /\ b \notin AllBlocks /\ Calls' = Calls \cup {b}
                   /\ UNCHANGED <<handed, lost, Small, Large>>
  PROVE  PlacesApart'
<1>1. {null_holder}' = {null_holder}
  BY DEF null_holder, NULLPOINTER
<1>2. CASE UNCHANGED Places
  BY <1>1, <1>2 DEF PlacesApart, Apart, Places
<1>3. ASSUME NEW b, MoveOf(b) PROVE PlacesApart'
  BY <1>1, <1>3 DEF PlacesApart, Apart, MoveOf
<1>4. ASSUME NEW b, b \notin AllBlocks, Calls' = Calls \cup {b},
             UNCHANGED <<handed, lost, Small, Large>>
      PROVE  PlacesApart'
  BY <1>1, <1>4 DEF PlacesApart, Apart, AllBlocks
<1> QED BY <1>2, <1>3, <1>4

\* Moves make no block and destroy none.
LEMMA BlocksKept ==
  ASSUME PlacesApart, UNCHANGED Places \/ \E b : MoveOf(b)
  PROVE  AllBlocks' = AllBlocks
<1>1. null_holder' = null_holder
  BY DEF null_holder, NULLPOINTER
<1>2. CASE UNCHANGED Places
  BY <1>1, <1>2 DEF AllBlocks, Places
<1>3. ASSUME NEW b, MoveOf(b) PROVE AllBlocks' = AllBlocks
  BY <1>1, <1>3 DEF AllBlocks, MoveOf
<1> QED BY <1>2, <1>3

LEMMA BlockTypes ==
  ASSUME TypeOK
  PROVE  AllBlocks \subseteq Block
<1>1. \A t \in InCall : Mine(t) \in Block
  BY DEF TypeOK, Mine, InCall, Block
<1>2. ASSUME NEW s \in Seq(Nat), NEW o \in Order PROVE Listed(s, o) \subseteq Block
  <2>1. s \in [1 .. Len(s) -> Nat]
    BY LenProperties
  <2> QED BY <2>1 DEF Listed, Block
<1>3. Small \subseteq Block /\ Large \subseteq Block
  <2>1. \A t \in Thread, o \in Order :
          Listed(free_blocks[t][o], o) \subseteq Block /\ Listed(large_free_blocks[o], o) \subseteq Block
    BY <1>2, SmallTypes
  <2>2. Small \subseteq Block
    BY <2>1 DEF Small
  <2>3. \A o \in Order : Listed(large_free_blocks[o], o) \subseteq Block
    BY <1>2 DEF TypeOK
  <2>4. Large \subseteq Block
    BY <2>3 DEF Large
  <2> QED BY <2>2, <2>4
<1>4. null_holder \in Block
  BY OrderAssumption DEF null_holder, NULLPOINTER, Block
<1> QED BY <1>1, <1>3, <1>4 DEF AllBlocks, Calls, TypeOK

\* A new block at the cursor overlaps none and leaves no gap.
LEMMA BytesStep ==
  ASSUME TypeOK, BytesApart, NothingLeaked, NEW t \in Thread,
         AllBlocks' = AllBlocks \cup {Cut(t)}, used_size' = used_size + Size(wanted[t])
  PROVE  BytesApart' /\ NothingLeaked'
<1>1. used_size \in Nat /\ Size(wanted[t]) \in Nat /\ Size(wanted[t]) > 0
  BY SizeFacts DEF TypeOK
<1>2. Cut(t).ptr = used_size /\ Size(Cut(t).order) = Size(wanted[t])
  BY DEF Cut
<1>3. ASSUME NEW b \in AllBlocks
      PROVE  b.ptr \in Nat /\ Size(b.order) \in Nat /\ b.ptr + Size(b.order) <= used_size
  BY BlockTypes, SizeFacts DEF Block, BytesApart
<1>4. \A b \in AllBlocks : Disjoint(b, Cut(t)) /\ Disjoint(Cut(t), b)
  BY <1>2, <1>3 DEF Disjoint
<1>5. \A a, b \in AllBlocks' : a = b \/ Disjoint(a, b)
  BY <1>4 DEF BytesApart
<1>6. \A b \in AllBlocks' : b.ptr + Size(b.order) <= used_size'
  BY <1>1, <1>2, <1>3
<1>7. ASSUME NEW x \in 0 .. used_size' - 1 PROVE \E b \in AllBlocks' : x \in Bytes(b)
  <2>1. CASE x \in 0 .. used_size - 1
    BY <2>1 DEF NothingLeaked
  <2>2. CASE x \notin 0 .. used_size - 1
    <3>1. x \in Bytes(Cut(t))
      BY <1>1, <1>2, <1>7, <2>2 DEF Bytes
    <3> QED BY <3>1
  <2> QED BY <2>1, <2>2
<1>8. BytesApart'
  BY <1>5, <1>6 DEF BytesApart, Disjoint, Size
<1> QED BY <1>7, <1>8 DEF NothingLeaked, Bytes, Size

\* Types are kept.
LEMMA TypeStep ==
  ASSUME TypeOK, [Next]_vars
  PROVE  TypeOK'
<1>1. CASE UNCHANGED vars
  BY <1>1 DEF vars, file, lists, local, TypeOK
<1>2. ASSUME NEW t \in Thread, NEW o \in Order, ReuseSmall(t, o) PROVE TypeOK'
  <2>1. free_blocks[t][o] \in Seq(Nat) /\ free_blocks[t][o] # <<>>
    BY <1>2, SmallTypes DEF ReuseSmall
  <2>2. Last(free_blocks[t][o]) \in Nat /\ Front(free_blocks[t][o]) \in Seq(Nat)
    BY <2>1, PoppedSeq
  <2>3. free_blocks' \in [Thread -> [Order -> Seq(Nat)]]
    BY <1>2, <2>2 DEF TypeOK, ReuseSmall
  <2>4. handed' \in SUBSET Block
    BY <1>2, <2>2 DEF TypeOK, ReuseSmall, Hand, Block
  <2> QED BY <1>2, <2>3, <2>4 DEF TypeOK, ReuseSmall, file, local
<1>3. ASSUME NEW t \in Thread, NEW o \in Order, ReuseLarge(t, o) PROVE TypeOK'
  <2>1. large_free_blocks[o] \in Seq(Nat) /\ large_free_blocks[o] # <<>>
    BY <1>3 DEF ReuseLarge, TypeOK
  <2>2. Last(large_free_blocks[o]) \in Nat /\ Front(large_free_blocks[o]) \in Seq(Nat)
    BY <2>1, PoppedSeq
  <2>3. large_free_blocks' \in [Order -> Seq(Nat)]
    BY <1>3, <2>2 DEF TypeOK, ReuseLarge
  <2>4. handed' \in SUBSET Block
    BY <1>3, <2>2 DEF TypeOK, ReuseLarge, Hand, Block
  <2> QED BY <1>3, <2>3, <2>4 DEF TypeOK, ReuseLarge, file, local
<1>4. ASSUME NEW t \in Thread, NEW o \in Order, Miss(t, o) PROVE TypeOK'
  BY <1>4 DEF TypeOK, Miss, Goto, file, lists
<1>5. ASSUME NEW t \in Thread, Bump(t) PROVE TypeOK'
  <2>1. Size(wanted[t]) \in Nat
    BY SizeFacts DEF TypeOK
  <2> QED BY <1>5, <2>1 DEF TypeOK, Bump, Goto, file, lists
<1>6. ASSUME NEW t \in Thread, MustGrow(t) \/ LockFile(t) \/ Truncate(t) PROVE TypeOK'
  BY <1>6, GrownCovers DEF TypeOK, MustGrow, LockFile, Truncate, Goto, NoThread, MutexFree, file, lists, local
<1>7. ASSUME NEW t \in Thread, Fits(t) \/ StoreSize(t) \/ AlreadyGrown(t) \/ TruncateFails(t) PROVE TypeOK'
  <2>1. Mine(t) \in Block
    BY DEF TypeOK, Mine, Block
  <2> QED BY <1>7, <2>1, GrownCovers DEF TypeOK, Fits, StoreSize, AlreadyGrown, TruncateFails, Goto, NoThread,
             file, lists, local
<1>8. ASSUME NEW t \in Thread, NEW b \in handed, FreeSmall(t, b) PROVE TypeOK'
  <2>1. b.order \in Order /\ b.ptr \in Nat
    BY DEF TypeOK, Block
  <2>2. Append(free_blocks[t][b.order], b.ptr) \in Seq(Nat)
    BY <2>1, SmallTypes, AppendProperties
  <2>3. free_blocks' \in [Thread -> [Order -> Seq(Nat)]]
    BY <1>8, <2>1, <2>2 DEF TypeOK, FreeSmall
  <2> QED BY <1>8, <2>3 DEF TypeOK, FreeSmall, file, local
<1>9. ASSUME NEW t \in Thread, NEW b \in handed, FreeLarge(t, b) PROVE TypeOK'
  <2>1. b.order \in Order /\ b.ptr \in Nat
    BY DEF TypeOK, Block
  <2>2. Append(large_free_blocks[b.order], b.ptr) \in Seq(Nat)
    BY <2>1, AppendProperties DEF TypeOK
  <2>3. large_free_blocks' \in [Order -> Seq(Nat)]
    BY <1>9, <2>1, <2>2 DEF TypeOK, FreeLarge
  <2> QED BY <1>9, <2>3 DEF TypeOK, FreeLarge, file, local
<1> QED BY <1>1, <1>2, <1>3, <1>4, <1>5, <1>6, <1>7, <1>8, <1>9 DEF Next, Alloc, Free

\* The usable blocks, of which a step adds at most one.
Usable == handed \cup Small \cup Large

\* The file covers the usable blocks.
LEMMA FileStep ==
  ASSUME TypeOK, ListsApart, CallsApart, PlacesApart, BytesApart, FileInv, [Next]_vars
  PROVE  FileInv'
<1> DEFINE Inside(b, n) == b.ptr + Size(b.order) < n
<1>0. file_size \in Nat /\ disk_size \in Nat /\ \A t \in Thread : pc[t] = "store" => growing = {t}
  <2>1. \A t \in Thread : t \in growing => growing = {t}
    BY DEF TypeOK, NoThread
  <2> QED BY <2>1 DEF FileInv, TypeOK
<1>1. ASSUME Usable' \subseteq Usable, UNCHANGED <<file, growing, pc, local>> PROVE FileInv'
  BY <1>1 DEF FileInv, Usable, file, local, Size, Grown, End
<1>2. CASE UNCHANGED vars
  <2>1. UNCHANGED lists /\ handed' = handed
    BY <1>2 DEF vars
  <2> QED BY <1>1, <1>2, <2>1, ListsSame DEF vars, Usable
<1>3. ASSUME NEW t \in Thread, NEW o \in Order, ReuseSmall(t, o) \/ ReuseLarge(t, o) PROVE FileInv'
  <2>1. Usable' \subseteq Usable
    <3>1. PICK b \in Small \cup Large : MoveOf(b)
      BY <1>3, ReuseStep
    <3>2. b \notin Calls /\ b \notin handed
      BY DEF PlacesApart, Apart
    <3> QED BY <3>1, <3>2 DEF MoveOf, Usable
  <2> QED BY <1>1, <1>3, <2>1 DEF ReuseSmall, ReuseLarge
<1>4. ASSUME NEW t \in Thread, NEW b \in handed, FreeSmall(t, b) \/ FreeLarge(t, b) PROVE FileInv'
  <2>1. Usable' \subseteq Usable
    <3>1. MoveOf(b) /\ b \notin Calls /\ b \notin Small /\ b \notin Large
      BY <1>4, FreeStep DEF PlacesApart, Apart
    <3> QED BY <3>1 DEF MoveOf, Usable
  <2> QED BY <1>1, <1>4, <2>1 DEF FreeSmall, FreeLarge
<1>5. ASSUME NEW t \in Thread,
             \/ \E o \in Order : Miss(t, o)
             \/ Bump(t) \/ MustGrow(t) \/ LockFile(t) \/ Truncate(t)
      PROVE  FileInv'
  <2>1. Usable' = Usable /\ file_size' = file_size
    BY <1>5, StillStep, BumpStep DEF Usable, Places, Miss, Bump, MustGrow, LockFile, Truncate, file
  <2>2. \A b \in Usable' : b.ptr + Size(b.order) < file_size'
    BY <2>1 DEF FileInv, Usable
  <2>3. CASE \/ \E o \in Order : Miss(t, o)
             \/ Bump(t) \/ MustGrow(t)
    <3>1. UNCHANGED <<growing, disk_size>> /\ pc[t] \notin {"grow", "store"}
          /\ (Goto(t, "bump") \/ Goto(t, "check") \/ Goto(t, "lock"))
          /\ \A u \in Thread \ {t} : wanted'[u] = wanted[u] /\ got'[u] = got[u]
      BY <2>3 DEF Miss, Bump, MustGrow, file, local, TypeOK
    <3>2. \A u \in Thread : /\ pc'[u] \in {"grow", "store"} <=> u \in growing'
                            /\ pc'[u] = "store" => pc[u] = "store" /\ u # t
      BY <3>1 DEF FileInv, Goto, TypeOK
    <3>3. \A u \in Thread : pc'[u] = "store" => disk_size' = Grown(u)'
      BY <3>1, <3>2 DEF FileInv, Grown, End
    <3> QED BY <2>1, <2>2, <3>1, <3>2, <3>3 DEF FileInv, Usable, Size
  <2>4. CASE LockFile(t)
    <3>1. growing = {} /\ growing' = {t} /\ Goto(t, "grow") /\ UNCHANGED <<disk_size, wanted, got>>
      BY <2>4 DEF LockFile, MutexFree, NoThread, file, local
    <3>2. \A u \in Thread : pc'[u] \in {"grow", "store"} <=> u \in growing'
      BY <3>1 DEF FileInv, Goto, TypeOK
    <3>3. \A u \in Thread : pc'[u] # "store"
      BY <3>1 DEF FileInv, Goto, TypeOK
    <3> QED BY <2>1, <2>2, <3>1, <3>2, <3>3 DEF FileInv, Usable, Size
  <2>5. CASE Truncate(t)
    <3>1. pc[t] = "grow" /\ Goto(t, "store") /\ UNCHANGED <<growing, wanted, got>>
          /\ disk_size' = Grown(t) /\ Grown(t) >= file_size
      BY <2>5 DEF Truncate, local
    <3>2. growing = {t} /\ \A u \in Thread : pc'[u] \in {"grow", "store"} <=> u \in growing'
      BY <3>1 DEF FileInv, Goto, TypeOK, NoThread
    <3>3. \A u \in Thread : pc'[u] = "store" => disk_size' = Grown(u)'
      BY <3>1, <3>2 DEF Grown, End
    <3>4. file_size' <= disk_size'
      BY <1>0, <2>1, <3>1, GrownCovers
    <3> QED BY <2>1, <2>2, <3>2, <3>3, <3>4 DEF FileInv, Usable, Size
  <2> QED BY <1>5, <2>3, <2>4, <2>5
<1>6. ASSUME NEW t \in Thread, Fits(t) \/ StoreSize(t) \/ AlreadyGrown(t) \/ TruncateFails(t) PROVE FileInv'
  <2>1. MoveOf(Mine(t)) /\ UNCHANGED <<wanted, got, disk_size>> /\ Goto(t, "idle") /\ UNCHANGED lists
    BY <1>6, EndStep DEF Fits, StoreSize, AlreadyGrown, TruncateFails, file, local
  <2>2. Small' = Small /\ Large' = Large /\ (handed' = handed \/ handed' = handed \cup {Mine(t)})
    BY <1>6, <2>1, ListsSame DEF Fits, StoreSize, AlreadyGrown, TruncateFails
  <2>3. End(t) \in Nat /\ Grown(t) \in Nat /\ End(t) < Grown(t)
        /\ Mine(t).ptr + Size(Mine(t).order) = End(t)
    BY GrownCovers DEF Mine, End
  <2>4. file_size' \in Nat /\ file_size <= file_size' /\ file_size' <= disk_size'
        /\ (handed' # handed => End(t) < file_size')
    BY <1>0, <1>6, <2>1, <2>3 DEF FileInv, Fits, StoreSize, AlreadyGrown, TruncateFails, file
  <2>5. \A u \in Thread : pc'[u] \in {"grow", "store"} <=> u \in growing'
    <3>1. growing' = growing \ {t}
      BY <1>6, <1>0 DEF FileInv, TypeOK, Fits, StoreSize, AlreadyGrown, TruncateFails, NoThread
    <3> QED BY <2>1, <3>1 DEF FileInv, Goto, TypeOK
  <2>6. \A u \in Thread : pc'[u] = "store" => disk_size' = Grown(u)'
    BY <2>1 DEF FileInv, Grown, End, Goto, TypeOK
  <2>7. ASSUME NEW b \in Usable' PROVE b.ptr + Size(b.order) < file_size'
    <3>1. CASE b \in Usable
      <4>1. b \in Block /\ b.ptr + Size(b.order) < file_size
        BY <3>1, BlockTypes DEF FileInv, Usable, AllBlocks
      <4>2. b.ptr + Size(b.order) \in Nat
        BY <4>1, SizeFacts DEF Block
      <4> QED BY <1>0, <2>4, <4>1, <4>2
    <3>2. CASE b \notin Usable
      BY <2>2, <2>3, <2>4, <2>7, <3>2 DEF Usable
    <3> QED BY <3>1, <3>2
  <2> QED BY <2>4, <2>5, <2>6, <2>7 DEF FileInv, Usable, Size
<1> QED BY <1>2, <1>3, <1>4, <1>5, <1>6 DEF Next, Alloc, Free

----------------------------------------------------------------------------
(* The theorems. *)

LEMMA BlockInit == Init => BlockInv
<1> SUFFICES ASSUME Init PROVE BlockInv
  OBVIOUS
<1>1. TypeOK
  BY SizeAssumption, SizeFacts, OrderAssumption, EmptySeq DEF Init, TypeOK, NULLPOINTER, NoThread
<1>2. ListsApart
  BY DEF Init, ListsApart, Distinct, Listed
<1>3. InCall = {} /\ Calls = {} /\ Small = {} /\ Large = {} /\ handed = {} /\ lost = {}
  BY DEF Init, InCall, Calls, Small, Large, Listed
<1>4. CallsApart /\ PlacesApart
  BY <1>3 DEF CallsApart, PlacesApart, Apart
<1>5. AllBlocks = {null_holder}
  BY <1>3 DEF AllBlocks
<1>6. used_size = Size(LARGE_BLOCK_THRESHOLD) /\ used_size \in Nat /\ null_holder.ptr = 0
      /\ null_holder.order = LARGE_BLOCK_THRESHOLD
  BY SizeFacts, OrderAssumption DEF Init, null_holder, NULLPOINTER
<1>7. BytesApart /\ NothingLeaked
  BY <1>5, <1>6 DEF BytesApart, NothingLeaked, Bytes
<1>8. FileInv
  BY <1>1, <1>3 DEF Init, FileInv, NoThread, TypeOK
<1> QED BY <1>1, <1>2, <1>4, <1>7, <1>8 DEF BlockInv

\* Every step keeps the places of blocks apart.
LEMMA PlacesStep ==
  ASSUME TypeOK, ListsApart, CallsApart, PlacesApart, BytesApart, NothingLeaked, [Next]_vars
  PROVE  ListsApart' /\ CallsApart' /\ PlacesApart' /\ BytesApart' /\ NothingLeaked'
<1>1. ASSUME ListsApart', CallsApart', used_size' = used_size, UNCHANGED Places \/ \E b : MoveOf(b)
      PROVE  ListsApart' /\ CallsApart' /\ PlacesApart' /\ BytesApart' /\ NothingLeaked'
  <2>1. PlacesApart' /\ AllBlocks' = AllBlocks
    BY <1>1, PlacesKept, BlocksKept
  <2> QED BY <1>1, <2>1 DEF BytesApart, NothingLeaked, Disjoint, Bytes, Size
<1>2. CASE UNCHANGED vars
  <2>1. UNCHANGED Places /\ ListsApart' /\ CallsApart'
    BY <1>2, ListsSame DEF vars, local, Places, CallsApart, Calls, InCall, Mine
  <2> QED BY <1>1, <1>2, <2>1 DEF vars
<1>3. ASSUME NEW t \in Thread, Alloc(t), ~Bump(t)
      PROVE  ListsApart' /\ CallsApart' /\ PlacesApart' /\ BytesApart' /\ NothingLeaked'
  BY <1>1, <1>3, StillStep, ReuseStep, EndStep DEF Alloc
<1>4. ASSUME NEW t \in Thread, Bump(t)
      PROVE  ListsApart' /\ CallsApart' /\ PlacesApart' /\ BytesApart' /\ NothingLeaked'
  <2>1. /\ UNCHANGED <<handed, lost, Small, Large>> /\ Calls' = Calls \cup {Cut(t)}
        /\ used_size' = used_size + Size(wanted[t]) /\ ListsApart' /\ CallsApart'
    BY <1>4, BumpStep
  <2>2. PlacesApart'
    BY <2>1, CutIsNew, PlacesKept
  <2>3. AllBlocks' = AllBlocks \cup {Cut(t)}
    BY <2>1 DEF AllBlocks, null_holder, NULLPOINTER
  <2> QED BY <2>1, <2>2, <2>3, BytesStep
<1>5. ASSUME NEW t \in Thread, NEW b \in handed, FreeSmall(t, b) \/ FreeLarge(t, b)
      PROVE  ListsApart' /\ CallsApart' /\ PlacesApart' /\ BytesApart' /\ NothingLeaked'
  BY <1>1, <1>5, FreeStep
<1> QED BY <1>2, <1>3, <1>4, <1>5 DEF Next, Free

\* The inductive invariant holds in every behaviour.
THEOREM Invariance == Spec => []BlockInv
<1>1. BlockInv /\ [Next]_vars => BlockInv'
  BY TypeStep, PlacesStep, FileStep DEF BlockInv
<1> QED BY BlockInit, <1>1, PTL DEF Spec

\* Pointers and orders stay what the lists, the calls and the callers take them for.
THEOREM Typing == Spec => []TypeOK
<1>1. BlockInv => TypeOK
  BY DEF BlockInv
<1> QED BY <1>1, Invariance, PTL

\* No byte is in two blocks and no block in two places; what alloc returns is inside the file.
THEOREM Ownership == Spec => []SingleOwner
<1>1. ASSUME BlockInv PROVE SingleOwner
  <2>1. InsideFile
    <3>1. file_size \in Nat /\ disk_size \in Nat /\ file_size <= disk_size
      BY <1>1 DEF BlockInv, TypeOK, FileInv
    <3>2. ASSUME NEW b \in handed \cup Small \cup Large PROVE b.ptr + Size(b.order) <= disk_size
      <4>1. b.ptr + Size(b.order) < file_size
        BY <1>1 DEF BlockInv, FileInv
      <4>2. b \in Block
        BY <1>1, BlockTypes DEF BlockInv, AllBlocks
      <4>3. b.ptr + Size(b.order) \in Nat
        BY <4>2, SizeFacts DEF Block
      <4> QED BY <3>1, <4>1, <4>3
    <3> QED BY <3>2 DEF InsideFile
  <2>2. LET places == <<handed, lost, {null_holder}, Calls, Small, Large>>
        IN  \A i, j \in 1 .. 6 : i # j => places[i] \cap places[j] = {}
    BY <1>1 DEF BlockInv, PlacesApart, Apart
  <2> QED BY <1>1, <2>1, <2>2 DEF BlockInv, SingleOwner, BytesApart, ListsApart, CallsApart
<1>2. BlockInv => SingleOwner
  BY <1>1
<1> QED BY <1>2, Invariance, PTL

\* Every byte below the cursor is in a block that somebody can still return or free, except
\* for those of the calls that threw.
THEOREM Accounting == Spec => []NothingLeaked
<1>1. BlockInv => NothingLeaked
  BY DEF BlockInv
<1> QED BY <1>1, Invariance, PTL

=============================================================================
