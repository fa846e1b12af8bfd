------------------------------ MODULE MCQueue ------------------------------
(***************************************************************************)
(* Small instances of Queue for TLC.  m_puts grows for ever in Queue; here *)
(* no push() starts once m_puts has reached MaxPuts.                       *)
(***************************************************************************)
EXTENDS QueueFifo, TLC

CONSTANTS MaxPuts,  \* no push() starts at or above this m_puts
          Running   \* threads, one of which the scheduler never abandons

VARIABLE running  \* the one, or None

mcvars == <<vars, running>>

MCInit == Init /\ running \in Running

MCNext ==
    /\ \/ \E p \in Producers :
             \/ m_puts < MaxPuts /\ \E x \in free : PushBegin(p, x)
             \/ PushStep(p)
       \/ \E c \in Consumers : PopBegin(c) \/ PopStep(c)
    /\ UNCHANGED running

MCSpec == MCInit /\ [][MCNext]_mcvars

Symmetric == Permutations(Producers) \cup Permutations(Consumers)
                \cup Permutations(Items)

\* Only one thread is sure to go on; any other may be stopped by the scheduler
\* for ever, at any point of its call.
FairSpec ==
    /\ MCSpec
    /\ \A p \in Producers : WF_mcvars(running = p /\ PushStep(p) /\ UNCHANGED running)
    /\ \A c \in Consumers : WF_mcvars(running = c /\ PopStep(c) /\ UNCHANGED running)

\* The call of a running thread returns even when every other thread has
\* stopped inside its own: no thread waits for another.
CallReturns == \A t \in Running : running = t /\ pc[t] # "idle" ~> pc[t] = "idle"
=============================================================================
