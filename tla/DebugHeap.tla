----------------------------- MODULE DebugHeap -----------------------------
(***************************************************************************)
(* DebugHeap (Heap.Debug.hxx) over Spinlock (Spinlock_win32.hxx): threads  *)
(* allocate, free and dump; a list of all blocks and counts of them are    *)
(* kept under the lock.                                                    *)
(***************************************************************************)
EXTENDS Naturals, Sequences, SequencesExt

CONSTANTS Threads, Blocks,
          NoThread, NoBlock

HeapAssumption == NoThread \notin Threads /\ NoBlock \notin Blocks

VARIABLES under,    \* blocks that the heap below has given out
          held,     \* blocks that clients hold
          ours,     \* blocks whose header names this heap
          list,     \* m_list
          current,  \* m_currentAllocations
          peak,     \* m_peakAllocations
          lock,     \* Spinlock::m_lock
          threadId, \* Spinlock::m_threadId
          pc,       \* where each thread is
          op,       \* what it wants the lock for
          blk,      \* the block it works on
          reg       \* the count it read, or its place in a dump

locks == <<lock, threadId>>
data == <<under, held, ours, list, current, peak>>
vars == <<under, held, ours, list, current, peak, lock, threadId, pc, op, blk, reg>>

Init ==
    /\ under = {} /\ held = {} /\ ours = {} /\ list = <<>> /\ current = 0 /\ peak = 0
    /\ lock = 0 /\ threadId = NoThread
    /\ pc = [t \in Threads |-> "idle"] /\ op = [t \in Threads |-> "none"]
    /\ blk = [t \in Threads |-> NoBlock] /\ reg = [t \in Threads |-> 0]

Goto(t, l) == pc' = [pc EXCEPT ![t] = l]
At(t, l) == pc[t] = l

----------------------------------------------------------------------------
(* Calls, up to the lock *)

Begin(t, what, b) ==
    /\ At(t, "idle") /\ Goto(t, "lock")
    /\ op' = [op EXCEPT ![t] = what] /\ blk' = [blk EXCEPT ![t] = b]
    /\ UNCHANGED <<list, current, peak, locks, reg>>

\* allocate(): the header is written before the block is listed.
Allocate(t, b) ==
    /\ b \notin under /\ under' = under \cup {b} /\ ours' = ours \cup {b}
    /\ Begin(t, "record", b) /\ UNCHANGED held

\* free(): the header is checked, then cleared, then the block is unlisted.
Free(t, b) ==
    /\ b \in held /\ b \in ours
    /\ held' = held \ {b} /\ ours' = ours \ {b}
    /\ Begin(t, "remove", b) /\ UNCHANGED under

Dump(t) == Begin(t, "dump", NoBlock) /\ UNCHANGED <<under, held, ours>>

----------------------------------------------------------------------------
(* The spinlock *)

\* Mutant: the lock is taken whatever the exchange returns.
TakeAlways(t) ==
    /\ At(t, "lock") /\ lock' = 1 /\ Goto(t, "mark")
    /\ UNCHANGED <<data, threadId, op, blk, reg>>

Exchange(t) ==
    /\ At(t, "lock") /\ lock' = 1 /\ Goto(t, IF lock = 0 THEN "mark" ELSE "spin")
    /\ UNCHANGED <<data, threadId, op, blk, reg>>

Spin(t) ==
    /\ At(t, "spin") /\ lock = 0 /\ Goto(t, "lock")
    /\ UNCHANGED <<data, locks, op, blk, reg>>

Mark(t) ==
    /\ At(t, "mark") /\ threadId' = t /\ Goto(t, op[t])
    /\ UNCHANGED <<data, lock, op, blk, reg>>

Unmark(t) ==
    /\ At(t, "unlock") /\ threadId' = NoThread /\ Goto(t, "release")
    /\ UNCHANGED <<data, lock, op, blk, reg>>

\* The call returns, or goes on to free the block.
Release(t) ==
    /\ At(t, "release") /\ lock' = 0
    /\ Goto(t, IF op[t] = "remove" THEN "free" ELSE "idle")
    /\ held' = IF op[t] = "record" THEN held \cup {blk[t]} ELSE held
    /\ UNCHANGED <<under, ours, list, current, peak, threadId, op, blk, reg>>

----------------------------------------------------------------------------
(* Under the lock *)

Listing(t, from, new, to) ==
    /\ At(t, from) /\ list' = new /\ Goto(t, to)
    /\ UNCHANGED <<under, held, ours, current, peak, locks, op, blk>>

\* Where a block is in the list, whose links are in the block itself.
Place(b) == CHOOSE i \in DOMAIN list : list[i] = b

List(t) == Listing(t, "record", Append(list, blk[t]), "count") /\ reg' = [reg EXCEPT ![t] = current]
Unlist(t) == Listing(t, "remove", RemoveAt(list, Place(blk[t])), "count") /\ reg' = [reg EXCEPT ![t] = current]

Larger(m, n) == IF m > n THEN m ELSE n
Counted(t, n) ==
    /\ At(t, "count") /\ Goto(t, "unlock") /\ current' = n
    /\ peak' = IF op[t] = "record" THEN Larger(peak, n) ELSE peak
    /\ reg' = [reg EXCEPT ![t] = 0]
    /\ UNCHANGED <<under, held, ours, list, locks, op, blk>>
\* Mutant: a block is counted down when it is listed.
CountSwapped(t) == Counted(t, IF op[t] = "record" THEN reg[t] - 1 ELSE reg[t] + 1)
Count(t) == Counted(t, IF op[t] = "record" THEN reg[t] + 1 ELSE reg[t] - 1)

\* Mutant: the dump begins again at the end of the list.
LogAround(t) ==
    /\ At(t, "dump") /\ reg' = [reg EXCEPT ![t] = IF @ < Len(list) THEN @ + 1 ELSE 0]
    /\ UNCHANGED <<data, locks, pc, op, blk>>

\* The next listed block is logged.
Log(t) ==
    /\ At(t, "dump")
    /\ IF reg[t] < Len(list)
       THEN reg' = [reg EXCEPT ![t] = @ + 1] /\ UNCHANGED pc
       ELSE reg' = [reg EXCEPT ![t] = 0] /\ Goto(t, "unlock")
    /\ UNCHANGED <<data, locks, op, blk>>

\* The block goes back to the heap below.
Freed(t) ==
    /\ At(t, "free") /\ under' = under \ {blk[t]} /\ Goto(t, "idle")
    /\ UNCHANGED <<held, ours, list, current, peak, locks, op, blk, reg>>

Inside(t) ==
    \/ Exchange(t) \/ Spin(t) \/ Mark(t) \/ Unmark(t) \/ Release(t)
    \/ List(t) \/ Unlist(t) \/ Count(t) \/ Log(t) \/ Freed(t)

Next ==
    \E t \in Threads :
      Inside(t) \/ Dump(t) \/ \E b \in Blocks : Allocate(t, b) \/ Free(t, b)

Spec == Init /\ [][Next]_vars

\* A thread inside a call is scheduled.
FairSpec == Spec /\ \A t \in Threads : WF_vars(Inside(t))

----------------------------------------------------------------------------
Locked == {t \in Threads : pc[t] \notin {"idle", "lock", "spin", "free"}}

TypeOK ==
    /\ under \subseteq Blocks /\ held \subseteq Blocks /\ ours \subseteq Blocks
    /\ list \in Seq(Blocks) /\ current \in Nat /\ peak \in Nat
    /\ lock \in {0, 1} /\ threadId \in Threads \cup {NoThread}
    /\ op \in [Threads -> {"none", "record", "remove", "dump"}]
    /\ blk \in [Threads -> Blocks \cup {NoBlock}] /\ reg \in [Threads -> Nat]

\* One thread works on the list at a time, and the assertions in lock() and
\* unlock() hold (Spinlock_win32.hxx:50, 71).
AssertOwner ==
    /\ \A t, s \in Locked : t = s
    /\ \A t \in Threads : /\ At(t, "lock") => threadId # t
                          /\ At(t, "unlock") => threadId = t

\* What a dump reads is allocated, and what clients hold is listed
\* (Heap.Debug.hxx:73-85, 311-357).
ListIsSound ==
    /\ held \subseteq ToSet(list) /\ ToSet(list) \subseteq under
    /\ \A i, j \in 1 .. Len(list) : list[i] = list[j] => i = j

\* The counts agree with the list whenever the lock is free; the first never
\* goes below zero (line 352).
CountsAgree == Locked = {} => current = Len(list) /\ peak >= current

\* A lock that is taken is released: no call waits inside.  That a given
\* thread gets it does not follow.
LockIsReleased == lock = 1 ~> lock = 0
=============================================================================
