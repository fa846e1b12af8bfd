------------------------------- MODULE Queue -------------------------------
(***************************************************************************)
(* The lock-free bounded ring of pointers of include/SkBase/Queue.hxx.     *)
(* Producers call push(), consumers call pop(); each action below is one   *)
(* access to shared memory, so the threads interleave at every load and at *)
(* every compare-and-exchange.  A vacant slot holds a tag naming the put   *)
(* that may fill it; the tag is a hash in the code and is taken here to be *)
(* injective.  m_puts and m_gets are unbounded (they are 64 bits wide in   *)
(* the x64 builds).  A pointer popped by a client may be pushed again.     *)
(***************************************************************************)
EXTENDS Integers

CONSTANTS Producers,  \* threads that call push()
          Consumers,  \* threads that call pop()
          Items,      \* the pointers in circulation
          Capacity    \* m_capacity

ASSUME QueueAssumption ==
    /\ Capacity \in Nat \ {0}
    /\ Producers \cap Consumers = {}

VARIABLES slots,   \* m_queue
          m_puts,  \* number of the next put
          m_gets,  \* number of the next get
          free,    \* pointers the clients own: not handed to the queue
          pc,      \* where each thread is
          cnt,     \* its putCnt or getCnt
          val,     \* its argument p, or the item it read
          won      \* its res: the exchange on the slot was its own

vars == <<slots, m_puts, m_gets, free, pc, cnt, val, won>>

Threads == Producers \cup Consumers
SlotSet == 0 .. Capacity - 1
SlotOf(n) == n % Capacity

VacantTag(n) == [kind |-> "tag", of |-> n]
Pointer(x) == [kind |-> "ptr", of |-> x]
IsVacantTag(v) == v.kind = "tag"

Contents == [kind : {"tag"}, of : Nat] \cup [kind : {"ptr"}, of : Items]

PushPCs == {"idle", "push_check", "push_swap", "push_advance",
            "push_return", "push_reload"}
PopPCs == {"idle", "pop_check", "pop_load", "pop_swap", "pop_advance",
           "pop_return", "pop_reload"}

Init ==
    /\ slots = [s \in SlotSet |-> VacantTag(s)]
    /\ m_puts = 0
    /\ m_gets = 0
    /\ free = Items
    /\ pc = [t \in Threads |-> "idle"]
    /\ cnt = [t \in Threads |-> 0]
    /\ val = [t \in Threads |-> VacantTag(0)]
    /\ won = [t \in Threads |-> FALSE]

Goto(t, l) == pc' = [pc EXCEPT ![t] = l]

\* The call returns: its locals are gone.
Return(t) ==
    /\ Goto(t, "idle")
    /\ cnt' = [cnt EXCEPT ![t] = 0]
    /\ val' = [val EXCEPT ![t] = VacantTag(0)]
    /\ won' = [won EXCEPT ![t] = FALSE]

----------------------------------------------------------------------------
(* push(p) *)

\* The call starts and loads m_puts.
PushBegin(p, x) ==
    /\ pc[p] = "idle"
    /\ x \in free
    /\ free' = free \ {x}
    /\ val' = [val EXCEPT ![p] = Pointer(x)]
    /\ cnt' = [cnt EXCEPT ![p] = m_puts]
    /\ Goto(p, "push_check")
    /\ UNCHANGED <<slots, m_puts, m_gets, won>>

\* Mutant: room for one too many.
HasRoomForOneMore(p) == cnt[p] - m_gets <= Capacity

HasRoom(p) == cnt[p] - m_gets < Capacity

PushCheck(p) ==
    /\ pc[p] = "push_check"
    /\ HasRoom(p)
    /\ Goto(p, "push_swap")
    /\ UNCHANGED <<slots, m_puts, m_gets, free, cnt, val, won>>

\* "Queue is full": the caller keeps its pointer.
PushFull(p) ==
    /\ pc[p] = "push_check"
    /\ ~HasRoom(p)
    /\ free' = free \cup {val[p].of}
    /\ Return(p)
    /\ UNCHANGED <<slots, m_puts, m_gets>>

\* Mutant: any vacant slot will do, whatever its tag.
PushSwapAnyTag(p) ==
    LET s == SlotOf(cnt[p])
        res == IsVacantTag(slots[s])
    IN  /\ pc[p] = "push_swap"
        /\ slots' = IF res THEN [slots EXCEPT ![s] = val[p]] ELSE slots
        /\ won' = [won EXCEPT ![p] = res]
        /\ Goto(p, "push_advance")
        /\ UNCHANGED <<m_puts, m_gets, free, cnt, val>>

PushSwap(p) ==
    LET s == SlotOf(cnt[p])
        res == slots[s] = VacantTag(cnt[p])
    IN  /\ pc[p] = "push_swap"
        /\ slots' = IF res THEN [slots EXCEPT ![s] = val[p]] ELSE slots
        /\ won' = [won EXCEPT ![p] = res]
        /\ Goto(p, "push_advance")
        /\ UNCHANGED <<m_puts, m_gets, free, cnt, val>>

\* Mutant: the thread that filled the slot leaves m_puts to the others.
PushAdvanceLosersOnly(p) ==
    /\ pc[p] = "push_advance"
    /\ m_puts' = IF m_puts = cnt[p] /\ ~won[p] THEN cnt[p] + 1 ELSE m_puts
    /\ Goto(p, IF won[p] THEN "push_return" ELSE "push_reload")
    /\ UNCHANGED <<slots, m_gets, free, cnt, val, won>>

\* Mutant: only the thread that filled the slot moves m_puts.
PushAdvanceNoHelp(p) ==
    /\ pc[p] = "push_advance"
    /\ m_puts' = IF m_puts = cnt[p] /\ won[p] THEN cnt[p] + 1 ELSE m_puts
    /\ Goto(p, IF won[p] THEN "push_return" ELSE "push_reload")
    /\ UNCHANGED <<slots, m_gets, free, cnt, val, won>>

\* Whoever filled the slot, this thread moves m_puts past it.
PushAdvance(p) ==
    /\ pc[p] = "push_advance"
    /\ m_puts' = IF m_puts = cnt[p] THEN cnt[p] + 1 ELSE m_puts
    /\ Goto(p, IF won[p] THEN "push_return" ELSE "push_reload")
    /\ UNCHANGED <<slots, m_gets, free, cnt, val, won>>

PushReturn(p) ==
    /\ pc[p] = "push_return"
    /\ Return(p)
    /\ UNCHANGED <<slots, m_puts, m_gets, free>>

PushReload(p) ==
    /\ pc[p] = "push_reload"
    /\ cnt' = [cnt EXCEPT ![p] = m_puts]
    /\ Goto(p, "push_check")
    /\ UNCHANGED <<slots, m_puts, m_gets, free, val, won>>

PushStep(p) ==
    \/ PushCheck(p)
    \/ PushFull(p)
    \/ PushSwap(p)
    \/ PushAdvance(p)
    \/ PushReturn(p)
    \/ PushReload(p)

----------------------------------------------------------------------------
(* pop() *)

PopBegin(c) ==
    /\ pc[c] = "idle"
    /\ cnt' = [cnt EXCEPT ![c] = m_gets]
    /\ Goto(c, "pop_check")
    /\ UNCHANGED <<slots, m_puts, m_gets, free, val, won>>

PopCheck(c) ==
    /\ pc[c] = "pop_check"
    /\ m_puts - cnt[c] > 0
    /\ Goto(c, "pop_load")
    /\ UNCHANGED <<slots, m_puts, m_gets, free, cnt, val, won>>

\* "Queue is empty"
PopEmpty(c) ==
    /\ pc[c] = "pop_check"
    /\ m_puts - cnt[c] <= 0
    /\ Return(c)
    /\ UNCHANGED <<slots, m_puts, m_gets, free>>

PopLoad(c) ==
    /\ pc[c] = "pop_load"
    /\ val' = [val EXCEPT ![c] = slots[SlotOf(cnt[c])]]
    /\ Goto(c, "pop_swap")
    /\ UNCHANGED <<slots, m_puts, m_gets, free, cnt, won>>

\* Mutant: the tag of the lap that ends, not of the next one.
PopSwapSameLap(c) ==
    LET s == SlotOf(cnt[c])
        res == slots[s] = val[c]
    IN  /\ pc[c] = "pop_swap"
        /\ slots' = IF res THEN [slots EXCEPT ![s] = VacantTag(cnt[c])] ELSE slots
        /\ won' = [won EXCEPT ![c] = res]
        /\ Goto(c, "pop_advance")
        /\ UNCHANGED <<m_puts, m_gets, free, cnt, val>>

\* Mutant: a plain store where the exchange is.
PopSwapPlainStore(c) ==
    LET s == SlotOf(cnt[c])
    IN  /\ pc[c] = "pop_swap"
        /\ slots' = [slots EXCEPT ![s] = VacantTag(cnt[c] + Capacity)]
        /\ won' = [won EXCEPT ![c] = TRUE]
        /\ Goto(c, "pop_advance")
        /\ UNCHANGED <<m_puts, m_gets, free, cnt, val>>

PopSwap(c) ==
    LET s == SlotOf(cnt[c])
        res == slots[s] = val[c]
    IN  /\ pc[c] = "pop_swap"
        /\ slots' = IF res
                    THEN [slots EXCEPT ![s] = VacantTag(cnt[c] + Capacity)]
                    ELSE slots
        /\ won' = [won EXCEPT ![c] = res]
        /\ Goto(c, "pop_advance")
        /\ UNCHANGED <<m_puts, m_gets, free, cnt, val>>

\* Mutant: a vacant tag is handed to the caller.
PopAdvanceTagOut(c) ==
    /\ pc[c] = "pop_advance"
    /\ m_gets' = IF m_gets = cnt[c] THEN cnt[c] + 1 ELSE m_gets
    /\ Goto(c, IF won[c] THEN "pop_return" ELSE "pop_reload")
    /\ UNCHANGED <<slots, m_puts, free, cnt, val, won>>

\* A thread that swapped out a vacant tag goes round again.
PopAdvance(c) ==
    /\ pc[c] = "pop_advance"
    /\ m_gets' = IF m_gets = cnt[c] THEN cnt[c] + 1 ELSE m_gets
    /\ Goto(c, IF won[c] /\ ~IsVacantTag(val[c]) THEN "pop_return"
                                                 ELSE "pop_reload")
    /\ UNCHANGED <<slots, m_puts, free, cnt, val, won>>

PopReturn(c) ==
    /\ pc[c] = "pop_return"
    /\ free' = free \cup {val[c].of}
    /\ Return(c)
    /\ UNCHANGED <<slots, m_puts, m_gets>>

PopReload(c) ==
    /\ pc[c] = "pop_reload"
    /\ cnt' = [cnt EXCEPT ![c] = m_gets]
    /\ val' = [val EXCEPT ![c] = VacantTag(0)]
    /\ won' = [won EXCEPT ![c] = FALSE]
    /\ Goto(c, "pop_check")
    /\ UNCHANGED <<slots, m_puts, m_gets, free>>

PopStep(c) ==
    \/ PopCheck(c)
    \/ PopEmpty(c)
    \/ PopLoad(c)
    \/ PopSwap(c)
    \/ PopAdvance(c)
    \/ PopReturn(c)
    \/ PopReload(c)

----------------------------------------------------------------------------

Next ==
    \/ \E p \in Producers : (\E x \in free : PushBegin(p, x)) \/ PushStep(p)
    \/ \E c \in Consumers : PopBegin(c) \/ PopStep(c)

Spec == Init /\ [][Next]_vars

----------------------------------------------------------------------------
(* Properties *)

\* Every variable has its type.
TypeOK ==
    /\ slots \in [SlotSet -> Contents]
    /\ m_puts \in Nat
    /\ m_gets \in Nat
    /\ free \in SUBSET Items
    /\ pc \in [Threads -> PushPCs \cup PopPCs]
    /\ \A p \in Producers : pc[p] \in PushPCs
    /\ \A c \in Consumers : pc[c] \in PopPCs
    /\ cnt \in [Threads -> Nat]
    /\ val \in [Threads -> Contents]
    /\ won \in [Threads -> BOOLEAN]

\* However late the threads that advance them are, m_gets never passes
\* m_puts and m_puts never runs more than a lap ahead: size() stays within
\* 0 .. capacity().
CountersBounded ==
    /\ m_gets <= m_puts
    /\ m_puts <= m_gets + Capacity

\* The three places, besides the clients, where a pointer can be: in a push
\* that has not stored it, in a slot, in a pop that took it out.
InPush(p, x) == pc[p] # "idle" /\ ~won[p] /\ val[p] = Pointer(x)
InSlot(s, x) == slots[s] = Pointer(x)
InPop(c, x) == won[c] /\ val[c] = Pointer(x)

\* No pointer is lost and none is handed out twice: at any moment each one is
\* with the clients, in one push, in one slot or in one pop, never in two of
\* these places, whatever threads race for its slot.
ItemsConserved ==
    \A x \in Items :
        /\ \/ x \in free
           \/ \E p \in Producers : InPush(p, x)
           \/ \E s \in SlotSet : InSlot(s, x)
           \/ \E c \in Consumers : InPop(c, x)
        /\ \A p \in Producers : InPush(p, x) =>
              /\ x \notin free
              /\ \A q \in Producers : InPush(q, x) => q = p
              /\ \A s \in SlotSet : ~InSlot(s, x)
              /\ \A c \in Consumers : ~InPop(c, x)
        /\ \A s \in SlotSet : InSlot(s, x) =>
              /\ x \notin free
              /\ \A r \in SlotSet : InSlot(r, x) => r = s
              /\ \A c \in Consumers : ~InPop(c, x)
        /\ \A c \in Consumers : InPop(c, x) =>
              /\ x \notin free
              /\ \A d \in Consumers : InPop(d, x) => d = c

\* A stored pointer whose push() has not returned yet.
Publishing(x) ==
    \E p \in Producers : /\ pc[p] = "push_advance"
                         /\ won[p]
                         /\ val[p] = Pointer(x)

\* While empty() holds, no slot has a pointer whose push() returned true:
\* what pop() calls "Queue is empty" is an empty queue.
EmptyIsEmpty ==
    m_puts = m_gets =>
        \A s \in SlotSet, x \in Items : InSlot(s, x) => Publishing(x)

\* While the counters say full, every slot has a pointer, or the pop that took
\* it out is about to count it: what push() calls "Queue is full" is a full
\* queue.
FullIsFull ==
    m_puts = m_gets + Capacity =>
        \A s \in SlotSet :
            \/ \E x \in Items : InSlot(s, x)
            \/ \E c \in Consumers, x \in Items :
                  /\ pc[c] = "pop_advance"
                  /\ InPop(c, x)
                  /\ SlotOf(cnt[c]) = s

\* A pop() that swaps a vacant tag leaves a tag that a coming put can match.
VacantTagRestored ==
    [][\A c \in Consumers :
          (pc[c] = "pop_swap" /\ won'[c] /\ ~won[c] /\ IsVacantTag(val[c]))
             => cnt[c] + Capacity >= m_puts]_vars

----------------------------------------------------------------------------
(* The inductive invariant behind TypeOK, CountersBounded, ItemsConserved *)

\* What the locals of a call are worth at each point of it.
CallShape ==
    /\ \A p \in Producers :
          /\ pc[p] # "idle" => val[p].kind = "ptr"
          /\ won[p] => pc[p] \in {"push_advance", "push_return"}
          /\ pc[p] = "push_return" => won[p]
    /\ \A c \in Consumers :
          /\ won[c] => pc[c] \in {"pop_advance", "pop_return", "pop_reload"}
          /\ pc[c] = "pop_return" => won[c] /\ val[c].kind = "ptr"
          /\ won[c] /\ pc[c] = "pop_reload" => val[c].kind = "tag"

\* A thread past its check can advance its counter without breaking the
\* window: the check stays true because m_gets and m_puts only grow.
Window ==
    /\ CountersBounded
    /\ \A p \in Producers :
          /\ cnt[p] <= m_puts
          /\ pc[p] \in {"push_swap", "push_advance"} => cnt[p] < m_gets + Capacity
    /\ \A c \in Consumers :
          /\ cnt[c] <= m_gets
          /\ pc[c] \in {"pop_load", "pop_swap", "pop_advance"} => cnt[c] < m_puts

IndInv == TypeOK /\ CallShape /\ Window
=============================================================================
