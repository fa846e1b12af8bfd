------------------------------- MODULE Timer -------------------------------
(***************************************************************************)
(* TimerImpl (Timer_win32.hxx): one thread arms, cancels and destroys it,  *)
(* pool threads run its callback.  The delegate does not call the timer.   *)
(***************************************************************************)
EXTENDS Naturals, FiniteSets

CONSTANTS Handles,   \* timers the queue can create
          NoHandle,  \* m_h = 0
          MaxRunning \* bound: callbacks of one timer that overlap

TimerAssumption == NoHandle \notin Handles /\ MaxRunning \in Nat \ {0}

VARIABLES m_h,     \* the timer's handle
          timers,  \* the timers in the queue: "none", "once", "every" or "fired"
          running, \* callbacks of each timer now running
          pc,      \* the owner: idle, cancel, arm, closing, gone
          then     \* what follows a cancel()

vars == <<m_h, timers, running, pc, then>>

Modes == {"once", "every"}

Init ==
    /\ m_h = NoHandle /\ timers = [h \in Handles |-> "none"] /\ running = [h \in Handles |-> 0]
    /\ pc = "idle" /\ then = "idle"

\* singleShot(), periodic(), cancel() and the destructor all begin with
\* cancel(): the timer is taken out of the queue, then its callbacks are
\* waited for.
CancelBegin(what) ==
    /\ pc = "idle"
    /\ IF m_h = NoHandle
       THEN pc' = what /\ UNCHANGED <<timers, then>>
       ELSE pc' = "cancel" /\ then' = what /\ timers' = [timers EXCEPT ![m_h] = "none"]
    /\ UNCHANGED <<m_h, running>>

\* Mutant: the callbacks are not waited for.
CancelWaitsNot ==
    /\ pc = "cancel" /\ m_h' = NoHandle /\ pc' = then /\ then' = "idle"
    /\ UNCHANGED <<timers, running>>

CancelEnd ==
    /\ pc = "cancel" /\ running[m_h] = 0
    /\ m_h' = NoHandle /\ pc' = then /\ then' = "idle"
    /\ UNCHANGED <<timers, running>>

\* CreateTimerQueueTimer(), which may fail.  The timer may run at once.
Arm ==
    /\ pc \in Modes /\ pc' = "idle"
    /\ \/ UNCHANGED <<m_h, timers>>
       \/ \E h \in Handles :
            /\ timers[h] = "none" /\ running[h] = 0
            /\ timers' = [timers EXCEPT ![h] = pc] /\ m_h' = h
    /\ UNCHANGED <<running, then>>

\* DeleteTimerQueueEx(): what is left of the queue is waited for.
CloseQueue ==
    /\ pc = "close" /\ timers' = [h \in Handles |-> "none"] /\ pc' = "closing"
    /\ UNCHANGED <<m_h, running, then>>
Closed ==
    /\ pc = "closing" /\ \A h \in Handles : running[h] = 0
    /\ pc' = "gone" /\ UNCHANGED <<m_h, timers, running, then>>

\* The pool starts and ends the callback.
Fire(h) ==
    /\ timers[h] \in Modes /\ running[h] < MaxRunning
    /\ running' = [running EXCEPT ![h] = @ + 1]
    /\ timers' = [timers EXCEPT ![h] = IF @ = "once" THEN "fired" ELSE @]
    /\ UNCHANGED <<m_h, pc, then>>
Returns(h) ==
    /\ running[h] > 0 /\ running' = [running EXCEPT ![h] = @ - 1]
    /\ UNCHANGED <<m_h, timers, pc, then>>

Owner == CancelEnd \/ Arm \/ CloseQueue \/ Closed

Next ==
    \/ Owner \/ CancelBegin("idle") \/ CancelBegin("close")
    \/ \E kind \in Modes : CancelBegin(kind)
    \/ \E h \in Handles : Fire(h) \/ Returns(h)

Spec == Init /\ [][Next]_vars

\* The owner goes on inside a call; a callback returns.
FairSpec == Spec /\ WF_vars(Owner) /\ \A h \in Handles : WF_vars(Returns(h))

----------------------------------------------------------------------------
TypeOK ==
    /\ m_h \in Handles \cup {NoHandle} /\ running \in [Handles -> 0 .. MaxRunning]
    /\ timers \in [Handles -> Modes \cup {"none", "fired"}]
    /\ pc \in {"idle", "cancel", "close", "closing", "gone"} \cup Modes
    /\ then \in {"idle", "close"} \cup Modes

\* No callback runs that the handle does not stand for: after cancel() and
\* after the destructor the delegate is left alone, and no timer is lost
\* when the object is armed again ("wait for the callback", lines 21-46).
OnlyTheTimerRuns ==
    \A h \in Handles : h # m_h => running[h] = 0 /\ timers[h] = "none"

\* A call on the timer returns.
CallsReturn == pc \in {"cancel", "close", "closing"} \cup Modes ~> pc \in {"idle", "gone"}
=============================================================================
