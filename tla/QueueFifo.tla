----------------------------- MODULE QueueFifo -----------------------------
(***************************************************************************)
(* What the ring of module Queue promises when it has one consumer, as the *)
(* trace library uses it: it implements BoundedFifo.  A push takes effect  *)
(* when m_puts passes its slot, a pop when m_gets does.                    *)
(***************************************************************************)
EXTENDS Queue, Sequences

CONSTANT None  \* no pointer

\* The consumer took the oldest pointer out and has not counted it yet.
TakenAt(c, n) == pc[c] = "pop_advance" /\ won[c] /\ cnt[c] = n

\* The pointer put under number n, wherever it is.
PutAt(n) ==
    IF \E c \in Consumers : TakenAt(c, n)
    THEN val[CHOOSE c \in Consumers : TakenAt(c, n)].of
    ELSE slots[SlotOf(n)].of

\* A push is done once m_puts has passed its slot, whoever moved m_puts.
FifoStage(t) ==
    CASE pc[t] = "idle" -> "idle"
      [] pc[t] \in {"push_return", "pop_return"} -> "done"
      [] pc[t] = "push_advance" /\ won[t] /\ m_puts > cnt[t] -> "done"
      [] OTHER -> "called"

FifoItem(t) ==
    IF (t \in Producers /\ pc[t] # "idle") \/ pc[t] = "pop_return"
    THEN val[t].of ELSE None

FifoContents == [i \in 1 .. m_puts - m_gets |-> PutAt(m_gets + i - 1)]
FifoStages == [t \in Threads |-> FifoStage(t)]
FifoItems == [t \in Threads |-> FifoItem(t)]

Fifo == INSTANCE BoundedFifo
        WITH fifo <- FifoContents, owned <- free,
             stage <- FifoStages, item <- FifoItems

\* With one consumer the ring is a bounded first-in-first-out queue: pointers
\* come out in the order in which m_puts counted them, and "full" and "empty"
\* are answered only at an instant when they are true.
ImplementsFifo == Fifo!Spec

----------------------------------------------------------------------------
(* The invariant behind ImplementsFifo, EmptyIsEmpty and FullIsFull *)

SingleConsumer == \A c, d \in Consumers : c = d

\* The consumer acts on the oldest pointer alone and never goes round again.
ConsumerInv ==
    \A c \in Consumers :
        /\ pc[c] # "pop_reload"
        /\ pc[c] \in {"pop_check", "pop_load", "pop_swap", "pop_advance"}
              => cnt[c] = m_gets
        /\ pc[c] = "pop_swap" => val[c] = slots[SlotOf(m_gets)]
        /\ pc[c] = "pop_advance" =>
              /\ won[c]
              /\ val[c].kind = "ptr"
              /\ slots[SlotOf(m_gets)] = VacantTag(m_gets + Capacity)

\* The numbers from m_gets to m_puts - 1 have their pointers.
FilledInv ==
    \A n \in m_gets .. m_puts - 1 :
        \/ slots[SlotOf(n)].kind = "ptr"
        \/ n = m_gets /\ \E c \in Consumers : pc[c] = "pop_advance"

\* The numbers still to be put have their own tags, but for the next one: a
\* producer may have filled its slot and be about to move m_puts.
VacantInv ==
    \A n \in m_puts .. m_gets + Capacity - 1 :
        \/ slots[SlotOf(n)] = VacantTag(n)
        \/ /\ n = m_puts
           /\ \E p \in Producers : /\ pc[p] = "push_advance"
                                   /\ won[p]
                                   /\ cnt[p] = m_puts
                                   /\ val[p] = slots[SlotOf(n)]

\* Whoever is about to move m_puts moves it past a filled slot, and one thread
\* at most filled it.
AdvanceInv ==
    \A p \in Producers : pc[p] = "push_advance" /\ cnt[p] = m_puts =>
        /\ slots[SlotOf(m_puts)].kind = "ptr"
        /\ won[p] => val[p] = slots[SlotOf(m_puts)]
        /\ \A q \in Producers :
              won[p] /\ won[q] /\ pc[q] = "push_advance" /\ cnt[q] = m_puts => q = p

RingInv == ConsumerInv /\ FilledInv /\ VacantInv /\ AdvanceInv
=============================================================================
