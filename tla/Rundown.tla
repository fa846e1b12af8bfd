------------------------------- MODULE Rundown -------------------------------
(***************************************************************************)
(* RundownGuard of Rundown.hxx: users enter with increment() and leave     *)
(* with decrement(), and one thread waits to close it.  The guard is one   *)
(* word, a count or the mark RUNDOWN_ACTIVE; every access to it is a step. *)
(*                                                                         *)
(* The loops compare with a value they read once.  In increment() and      *)
(* decrement() it is what the word was at the call; in wait() it is 0, so  *)
(* that wait() spins until nobody is inside, and the count it would leave  *)
(* in its WaitBlock is always 0: its event, and the branch of decrement()  *)
(* for a word with the mark, are never used (ClosedIsEmpty).               *)
(***************************************************************************)
EXTENDS Naturals, FiniteSets

CONSTANTS Users,
          MaxEntries  \* bound: calls of increment()

RundownAssumption == IsFiniteSet(Users) /\ MaxEntries \in Nat

VARIABLES count, active,  \* m_ptr: RUNDOWN_COUNT_INC times count, or the mark
          pc, val,        \* the users
          waiter,         \* the thread of wait()
          entries         \* increments begun

vars == <<count, active, pc, val, waiter, entries>>

Init ==
    /\ count = 0 /\ active = FALSE
    /\ pc = [t \in Users |-> "out"]
    /\ val = [t \in Users |-> 0]
    /\ waiter = "idle" /\ entries = 0

Goto(t, place) == pc' = [pc EXCEPT ![t] = place]

IncBegin(t) ==
    /\ pc[t] = "out" /\ entries < MaxEntries
    /\ val' = [val EXCEPT ![t] = count]
    /\ entries' = entries + 1
    /\ Goto(t, "inc_test")
    /\ UNCHANGED <<count, active, waiter>>

IncTest(t) ==
    /\ pc[t] = "inc_test"
    /\ Goto(t, IF active THEN "out" ELSE "inc_swap")
    /\ UNCHANGED <<count, active, val, waiter, entries>>

\* Mutant: the exchange does not see the mark.
IncSwapClosed(t) ==
    /\ pc[t] = "inc_swap"
    /\ IF count = val[t] THEN count' = count + 1 /\ Goto(t, "in")
                         ELSE Goto(t, "inc_test") /\ UNCHANGED count
    /\ UNCHANGED <<active, val, waiter, entries>>

IncSwap(t) ==
    /\ pc[t] = "inc_swap"
    /\ IF ~active /\ count = val[t]
       THEN count' = count + 1 /\ Goto(t, "in")
       ELSE Goto(t, "inc_test") /\ UNCHANGED count
    /\ UNCHANGED <<active, val, waiter, entries>>

DecBegin(t) ==
    /\ pc[t] = "in"
    /\ val' = [val EXCEPT ![t] = count]
    /\ Goto(t, "dec_swap")
    /\ UNCHANGED <<count, active, waiter, entries>>

\* The loop of decrement() goes on as long as the word is not val.
DecSwap(t) ==
    /\ pc[t] = "dec_swap"
    /\ ~active /\ count = val[t]
    /\ count' = count - 1
    /\ Goto(t, "out")
    /\ UNCHANGED <<active, val, waiter, entries>>

WaitBegin ==
    /\ waiter = "idle" /\ waiter' = "wait"
    /\ UNCHANGED <<count, active, pc, val, entries>>

\* Mutant: the first exchange that fails ends the wait.
WaitSwapOnce ==
    /\ waiter = "wait" /\ waiter' = "done"
    /\ active' = (count = 0)
    /\ UNCHANGED <<count, pc, val, entries>>

\* The first exchange, and those of the loop, all of the value 0.
WaitSwap ==
    /\ waiter = "wait" /\ count = 0
    /\ active' = TRUE /\ waiter' = "done"
    /\ UNCHANGED <<count, pc, val, entries>>

UserStep(t) == IncTest(t) \/ IncSwap(t) \/ DecBegin(t) \/ DecSwap(t)

Next == WaitBegin \/ WaitSwap \/ \E t \in Users : IncBegin(t) \/ UserStep(t)

Spec == Init /\ [][Next]_vars

\* Every thread is scheduled, and users leave.
FairSpec == Spec /\ WF_vars(WaitSwap) /\ \A t \in Users : WF_vars(UserStep(t))

----------------------------------------------------------------------------
Inside == {t \in Users : pc[t] \in {"in", "dec_swap"}}

TypeOK ==
    /\ count \in Nat /\ active \in BOOLEAN /\ entries \in 0 .. MaxEntries
    /\ pc \in [Users -> {"out", "inc_test", "inc_swap", "in", "dec_swap"}]
    /\ val \in [Users -> Nat]
    /\ waiter \in {"idle", "wait", "done"}

\* The word counts the users inside, so that 0 means nobody (lines 25-72):
\* exchanges with a value read long before do not lose or add one.
CountIsInside == count = Cardinality(Inside)

\* After wait() returned nobody is inside (lines 74-109).
ClosedIsEmpty == active \/ waiter = "done" => active /\ Inside = {}

\* increment(), decrement() and wait() take effect at one instant each.
Gate == INSTANCE RundownGate WITH inside <- Inside, closed <- active
ImplementsGate == Gate!Spec

\* In decrement() with a val that the word is not (lines 46-71): no exchange
\* succeeds until other users have made the word val again.
Caught(t) == pc[t] = "dec_swap" /\ count # val[t]

\* Once no more users come wait() returns (line 74), or else users are caught in
\* decrement() for ever, each with a value that it read before another left.
WaitReturns ==
    waiter = "wait" ~> waiter = "done" \/ [](\E t \in Users : Caught(t))
=============================================================================
