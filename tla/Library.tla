------------------------------ MODULE Library ------------------------------
(***************************************************************************)
(* SkBase::initialize() and finalize(), init.cxx, and the programs that    *)
(* call them: a count, and a table of components that are initialized in   *)
(* order and finalized in reverse order.                                   *)
(***************************************************************************)
EXTENDS Naturals, FiniteSets

CONSTANTS Callers,
          Last,      \* the number of components
          MaxCalls   \* bound: calls of initialize()

LibraryAssumption ==
    IsFiniteSet(Callers) /\ {Last, MaxCalls} \subseteq Nat \ {0}

Components == 1 .. Last

VARIABLES refs,  \* g_RefCount
          up,    \* components that are initialized
          pc, i, \* each caller: where it is, and its index into g_Components
          calls

vars == <<refs, up, pc, i, calls>>

Init ==
    /\ refs = 0 /\ up = {} /\ calls = 0
    /\ pc = [t \in Callers |-> "out"]
    /\ i = [t \in Callers |-> 0]

Busy(t) == pc[t] \in {"init", "rollback", "fin"}
\* The programs call from one thread at a time.
MayEnter == \A t \in Callers : ~Busy(t)
Move(t, place, n) == pc' = [pc EXCEPT ![t] = place] /\ i' = [i EXCEPT ![t] = n]

\* Only the caller that raises the count from 0 initializes.
InitBegin(t) ==
    /\ pc[t] = "out" /\ MayEnter /\ calls < MaxCalls
    /\ calls' = calls + 1
    /\ refs' = refs + 1
    /\ IF refs = 0 THEN Move(t, "init", 1) ELSE Move(t, "holder", 0)
    /\ UNCHANGED up

InitComponent(t) ==
    /\ pc[t] = "init"
    /\ \/ /\ up' = up \cup {i[t]}
          /\ IF i[t] = Last THEN Move(t, "holder", 0) ELSE Move(t, "init", i[t] + 1)
       \/ /\ Move(t, IF i[t] = 1 THEN "failed" ELSE "rollback",
                  IF i[t] = 1 THEN 0 ELSE i[t])
          /\ UNCHANGED up
    /\ UNCHANGED <<refs, calls>>

\* Finalizers of the components below i, downwards.  The count stays.
Rollback(t) ==
    /\ pc[t] = "rollback"
    /\ up' = up \ {i[t] - 1}
    /\ IF i[t] = 2 THEN Move(t, "failed", 0) ELSE Move(t, "rollback", i[t] - 1)
    /\ UNCHANGED <<refs, calls>>

FinBegin(t) ==
    /\ pc[t] = "holder" /\ MayEnter
    /\ refs' = refs - 1
    /\ IF refs = 1 THEN Move(t, "fin", Last) ELSE Move(t, "out", 0)
    /\ UNCHANGED <<up, calls>>

\* Mutant: first come, first gone.
FinComponentForward(t) ==
    /\ pc[t] = "fin"
    /\ up' = up \ {Last - i[t] + 1}
    /\ IF i[t] = 1 THEN Move(t, "out", 0) ELSE Move(t, "fin", i[t] - 1)
    /\ UNCHANGED <<refs, calls>>

FinComponent(t) ==
    /\ pc[t] = "fin"
    /\ up' = up \ {i[t]}
    /\ IF i[t] = 1 THEN Move(t, "out", 0) ELSE Move(t, "fin", i[t] - 1)
    /\ UNCHANGED <<refs, calls>>

Next ==
    \E t \in Callers : \/ InitBegin(t) \/ InitComponent(t) \/ Rollback(t)
                       \/ FinBegin(t) \/ FinComponent(t)

Spec == Init /\ [][Next]_vars

----------------------------------------------------------------------------
TypeOK ==
    /\ refs \in 0 .. MaxCalls /\ calls \in 0 .. MaxCalls
    /\ up \subseteq Components
    /\ pc \in [Callers -> {"out", "init", "rollback", "failed", "holder", "fin"}]
    /\ i \in [Callers -> 0 .. Last]

\* Components come up in the table's order and go down in reverse, so that
\* each has those it may use (init.cxx 49-71, 86-93).
UpInOrder == \E n \in 0 .. Last : up = 1 .. n

\* Who failed leaves nothing behind, and the last to go neither: components
\* are up only for a holder, or on the way (init.cxx 58-68).
NothingLeftUp ==
    (\A t \in Callers : pc[t] \in {"out", "failed"}) => up = {}

\* A finalizer runs only of a component that is up: WSACleanup() does not look
\* (Net_win32.cxx), and would take back a start that is another module's.
FinalizedWereUp ==
    \A t \in Callers : /\ pc[t] = "fin" => i[t] \in up
                       /\ pc[t] = "rollback" => i[t] - 1 \in up
=============================================================================
