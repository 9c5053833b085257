--------------------------- MODULE LGBlockManager ---------------------------
(***************************************************************************)
(* LiveGraph's storage allocator, class BlockManager                       *)
(* (include/core/block_manager.hpp): a mapping of a growing file, carved   *)
(* into blocks of 2^order bytes at an atomic cursor.  Freed blocks go to   *)
(* per-thread lists by order, or, from LARGE_BLOCK_THRESHOLD on, to lists  *)
(* all threads share under a mutex that also covers the file's growth.     *)
(*                                                                         *)
(* A step is one atomic access or one critical section, except that the    *)
(* file's growth takes the ftruncate and the store one at a time.  A block *)
(* is a record of its pointer and order.                                   *)
(***************************************************************************)
EXTENDS Integers, Sequences, FiniteSets

CONSTANTS Thread,                 \* threads that allocate and free
          Order,                  \* block orders in use
          LARGE_BLOCK_THRESHOLD,  \* first order kept in the shared lists
          FILE_TRUNC_SIZE,        \* the file grows in multiples of this
          Capacity                \* bound: bytes the cursor may hand out

ASSUME OrderAssumption ==
  /\ Order \subseteq Nat
  /\ LARGE_BLOCK_THRESHOLD \in Order
ASSUME SizeAssumption ==
  /\ FILE_TRUNC_SIZE \in Nat /\ Capacity \in Nat
  /\ 2 ^ LARGE_BLOCK_THRESHOLD < FILE_TRUNC_SIZE
  /\ \A o \in Order : 2 ^ o \in Nat \ {0}   \* arithmetic the provers do not have

NULLPOINTER == 0
Size(o) == 2 ^ o
Block == [ptr : Nat, order : Order]

VARIABLES used_size,          \* the cursor
          file_size,          \* what the threads believe the file's length is
          disk_size,          \* the file's length
          free_blocks,        \* each thread's lists, by order
          large_free_blocks,  \* the shared lists, by order
          growing,            \* the thread inside the growth's critical section, or none
          pc, wanted, got,    \* each thread's alloc: place, order asked, pointer so far
          handed,             \* history: blocks callers hold
          lost                \* history: blocks of calls that threw

lists == <<free_blocks, large_free_blocks>>
file  == <<file_size, disk_size>>
local == <<wanted, got>>
vars  == <<used_size, file, lists, growing, pc, local, handed, lost>>

NoThread == {}
MutexFree == growing = NoThread

Goto(t, place) == pc' = [pc EXCEPT ![t] = place]
Mine(t) == [ptr |-> got[t], order |-> wanted[t]]

\* The constructor, up to and with the block that keeps pointer 0 from ever being handed out.
null_holder == [ptr |-> NULLPOINTER, order |-> LARGE_BLOCK_THRESHOLD]

Init ==
  /\ used_size = Size(LARGE_BLOCK_THRESHOLD)
  /\ file_size = FILE_TRUNC_SIZE /\ disk_size = FILE_TRUNC_SIZE
  /\ free_blocks = [t \in Thread |-> [o \in Order |-> <<>>]]
  /\ large_free_blocks = [o \in Order |-> <<>>]
  /\ growing = NoThread
  /\ pc = [t \in Thread |-> "idle"]
  /\ wanted = [t \in Thread |-> LARGE_BLOCK_THRESHOLD]
  /\ got = [t \in Thread |-> NULLPOINTER]
  /\ handed = {} /\ lost = {}

-----------------------------------------------------------------------------
(* alloc *)

Last(s)  == s[Len(s)]
Front(s) == SubSeq(s, 1, Len(s) - 1)

\* A list's last pointer goes to the caller.
Hand(o, list) == handed' = handed \cup {[ptr |-> Last(list), order |-> o]}

\* A slip: back() without pop_back().
ReuseSmallKept(t, o) ==
  /\ pc[t] = "idle" /\ o < LARGE_BLOCK_THRESHOLD
  /\ free_blocks[t][o] # <<>>
  /\ Hand(o, free_blocks[t][o])
  /\ UNCHANGED <<used_size, file, lists, growing, pc, local, lost>>

ReuseSmall(t, o) ==
  /\ pc[t] = "idle" /\ o < LARGE_BLOCK_THRESHOLD
  /\ free_blocks[t][o] # <<>>
  /\ Hand(o, free_blocks[t][o])
  /\ free_blocks' = [free_blocks EXCEPT ![t][o] = Front(free_blocks[t][o])]
  /\ UNCHANGED <<used_size, file, large_free_blocks, growing, pc, local, lost>>

ReuseLarge(t, o) ==
  /\ pc[t] = "idle" /\ o >= LARGE_BLOCK_THRESHOLD /\ MutexFree
  /\ large_free_blocks[o] # <<>>
  /\ Hand(o, large_free_blocks[o])
  /\ large_free_blocks' = [large_free_blocks EXCEPT ![o] = Front(large_free_blocks[o])]
  /\ UNCHANGED <<used_size, file, free_blocks, growing, pc, local, lost>>

\* No block of this order to reuse.
Miss(t, o) ==
  /\ pc[t] = "idle"
  /\ IF o < LARGE_BLOCK_THRESHOLD THEN free_blocks[t][o] = <<>>
                                  ELSE MutexFree /\ large_free_blocks[o] = <<>>
  /\ wanted' = [wanted EXCEPT ![t] = o]
  /\ Goto(t, "bump")
  /\ UNCHANGED <<used_size, file, lists, growing, got, handed, lost>>

\* used_size.fetch_add(block_size)
Bump(t) ==
  /\ pc[t] = "bump" /\ used_size + Size(wanted[t]) <= Capacity
  /\ got' = [got EXCEPT ![t] = used_size]
  /\ used_size' = used_size + Size(wanted[t])
  /\ Goto(t, "check")
  /\ UNCHANGED <<file, lists, growing, wanted, handed, lost>>

End(t) == got[t] + Size(wanted[t])

\* A slip: the pointer, not the end of the block, is compared with the file's size.
ChecksOut(t) ==
  /\ pc[t] = "check" /\ got[t] < file_size
  /\ handed' = handed \cup {Mine(t)}
  /\ Goto(t, "idle")
  /\ UNCHANGED <<used_size, file, lists, growing, local, lost>>

\* The block ends inside the file.
Fits(t) ==
  /\ pc[t] = "check" /\ End(t) < file_size
  /\ handed' = handed \cup {Mine(t)}
  /\ Goto(t, "idle")
  /\ UNCHANGED <<used_size, file, lists, growing, local, lost>>

MustGrow(t) ==
  /\ pc[t] = "check" /\ End(t) >= file_size
  /\ Goto(t, "lock")
  /\ UNCHANGED <<used_size, file, lists, growing, local, handed, lost>>

Grown(t) == (End(t) \div FILE_TRUNC_SIZE + 1) * FILE_TRUNC_SIZE

\* A slip: the growth is entered without the mutex.
GrowUnlocked(t) ==
  /\ pc[t] = "lock"
  /\ growing' = growing \cup {t}
  /\ Goto(t, "grow")
  /\ UNCHANGED <<used_size, file, lists, local, handed, lost>>

LockFile(t) ==
  /\ pc[t] = "lock" /\ MutexFree
  /\ growing' = {t}
  /\ Goto(t, "grow")
  /\ UNCHANGED <<used_size, file, lists, local, handed, lost>>

\* ftruncate, when nobody has grown the file as far meanwhile.
Truncate(t) ==
  /\ pc[t] = "grow" /\ Grown(t) >= file_size
  /\ disk_size' = Grown(t)
  /\ Goto(t, "store")
  /\ UNCHANGED <<used_size, file_size, lists, growing, local, handed, lost>>

StoreSize(t) ==
  /\ pc[t] = "store"
  /\ file_size' = Grown(t)
  /\ handed' = handed \cup {Mine(t)}
  /\ growing' = NoThread
  /\ Goto(t, "idle")
  /\ UNCHANGED <<used_size, disk_size, lists, local, lost>>

\* A slip: when another thread has grown the file, alloc starts over.
AlreadyGrownRetries(t) ==
  /\ pc[t] = "grow" /\ Grown(t) < file_size
  /\ growing' = NoThread
  /\ Goto(t, "bump")
  /\ UNCHANGED <<used_size, file, lists, local, handed, lost>>

AlreadyGrown(t) ==
  /\ pc[t] = "grow" /\ Grown(t) < file_size
  /\ handed' = handed \cup {Mine(t)}
  /\ growing' = NoThread
  /\ Goto(t, "idle")
  /\ UNCHANGED <<used_size, file, lists, local, lost>>

\* ftruncate fails and alloc throws: the block is nobody's.
TruncateFails(t) ==
  /\ pc[t] = "grow" /\ Grown(t) >= file_size
  /\ lost' = lost \cup {Mine(t)}
  /\ growing' = NoThread
  /\ Goto(t, "idle")
  /\ UNCHANGED <<used_size, file, lists, local, handed>>

-----------------------------------------------------------------------------
(* free: any thread gives back any block a caller holds, with its order. *)

FreeSmall(t, b) ==
  /\ pc[t] = "idle" /\ b \in handed /\ b.order < LARGE_BLOCK_THRESHOLD
  /\ free_blocks' = [free_blocks EXCEPT ![t][b.order] = Append(free_blocks[t][b.order], b.ptr)]
  /\ handed' = handed \ {b}
  /\ UNCHANGED <<used_size, file, large_free_blocks, growing, pc, local, lost>>

FreeLarge(t, b) ==
  /\ pc[t] = "idle" /\ b \in handed /\ b.order >= LARGE_BLOCK_THRESHOLD /\ MutexFree
  /\ large_free_blocks' = [large_free_blocks EXCEPT ![b.order] =
                             Append(large_free_blocks[b.order], b.ptr)]
  /\ handed' = handed \ {b}
  /\ UNCHANGED <<used_size, file, free_blocks, growing, pc, local, lost>>

-----------------------------------------------------------------------------
Alloc(t) ==
  \/ \E o \in Order : ReuseSmall(t, o) \/ ReuseLarge(t, o) \/ Miss(t, o)
  \/ Bump(t) \/ Fits(t) \/ MustGrow(t) \/ LockFile(t) \/ Truncate(t) \/ StoreSize(t)
  \/ AlreadyGrown(t) \/ TruncateFails(t)

Free(t) == \E b \in handed : FreeSmall(t, b) \/ FreeLarge(t, b)

Next == \E t \in Thread : Alloc(t) \/ Free(t)

Spec == Init /\ [][Next]_vars

-----------------------------------------------------------------------------
(* Properties. *)

TypeOK ==
  /\ used_size \in Nat /\ file_size \in Nat /\ disk_size \in Nat
  /\ free_blocks \in [Thread -> [Order -> Seq(Nat)]]
  /\ large_free_blocks \in [Order -> Seq(Nat)]
  /\ growing \in {NoThread} \cup {{t} : t \in Thread}
  /\ pc \in [Thread -> {"idle", "bump", "check", "lock", "grow", "store"}]
  /\ wanted \in [Thread -> Order]
  /\ got \in [Thread -> Nat]
  /\ handed \in SUBSET Block
  /\ lost \in SUBSET Block

\* Where a block can be: with a caller, lost, in a call under way, in a list.
InCall    == {t \in Thread : pc[t] \in {"check", "lock", "grow", "store"}}
Calls     == {Mine(t) : t \in InCall}
Listed(list, o) == {[ptr |-> list[i], order |-> o] : i \in 1 .. Len(list)}
Small     == UNION {Listed(free_blocks[t][o], o) : t \in Thread, o \in Order}
Large     == UNION {Listed(large_free_blocks[o], o) : o \in Order}
AllBlocks == handed \cup lost \cup {null_holder} \cup Calls \cup Small \cup Large

Bytes(b)       == b.ptr .. b.ptr + Size(b.order) - 1
Disjoint(a, b) == a.ptr + Size(a.order) <= b.ptr \/ b.ptr + Size(b.order) <= a.ptr
Distinct(list) == \A i, j \in 1 .. Len(list) : list[i] = list[j] => i = j

\* A block in use or ready for reuse lies inside the file, whatever other threads were
\* growing it to meanwhile: a write to it cannot fault (block_manager.hpp 101-114).
InsideFile == \A b \in handed \cup Small \cup Large : b.ptr + Size(b.order) <= disk_size

\* No byte is in two blocks, none reaches past the cursor, and every block is in one place and,
\* when a caller may write it, inside the file: what alloc returns is in no list, in no other
\* caller's hands and in no other call, so no two callers ever write the same bytes
\* (block_manager.hpp 83-131).
SingleOwner ==
  /\ InsideFile
  /\ \A a, b \in AllBlocks : a = b \/ Disjoint(a, b)
  /\ \A b \in AllBlocks : b.ptr + Size(b.order) <= used_size
  /\ \A t \in Thread, o \in Order : Distinct(free_blocks[t][o])
  /\ \A o \in Order : Distinct(large_free_blocks[o])
  /\ \A t, u \in Thread, o, q \in Order :
       <<t, o>> # <<u, q>> => Listed(free_blocks[t][o], o) \cap Listed(free_blocks[u][q], q) = {}
  /\ \A t, u \in InCall : t # u => Mine(t) # Mine(u)
  /\ LET places == <<handed, lost, {null_holder}, Calls, Small, Large>>
     IN  \A i, j \in 1 .. 6 : i # j => places[i] \cap places[j] = {}

\* Nothing is leaked: every byte below the cursor belongs to some block, and the only blocks
\* no caller or list can ever return are those of calls that threw.
NothingLeaked == \A x \in 0 .. used_size - 1 : \E b \in AllBlocks : x \in Bytes(b)

=============================================================================
