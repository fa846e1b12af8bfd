---------------------------- MODULE BoundedFifo ----------------------------
(***************************************************************************)
(* What a bounded first-in-first-out queue promises its callers.  A call   *)
(* starts, takes effect at one instant between its start and its return,   *)
(* and returns.  A push may be refused only at an instant when the queue   *)
(* holds Capacity pointers, a pop may come back empty-handed only at an    *)
(* instant when it holds none.                                             *)
(***************************************************************************)
EXTENDS Integers, Sequences

CONSTANTS Producers, Consumers, Items, Capacity, None

VARIABLES fifo,   \* the pointers in the queue, oldest first
          owned,  \* the pointers the clients own
          stage,  \* of each thread's call: "idle", "called" or "done"
          item    \* the pointer of each thread's call

vars == <<fifo, owned, stage, item>>

Threads == Producers \cup Consumers

Init ==
    /\ fifo = <<>>
    /\ owned = Items
    /\ stage = [t \in Threads |-> "idle"]
    /\ item = [t \in Threads |-> None]

Enter(t, s, x) ==
    /\ stage' = [stage EXCEPT ![t] = s]
    /\ item' = [item EXCEPT ![t] = x]

PushCall(p, x) ==
    /\ stage[p] = "idle"
    /\ x \in owned
    /\ owned' = owned \ {x}
    /\ Enter(p, "called", x)
    /\ UNCHANGED fifo

PushEffect(p) ==
    /\ stage[p] = "called"
    /\ Len(fifo) < Capacity
    /\ fifo' = Append(fifo, item[p])
    /\ Enter(p, "done", item[p])
    /\ UNCHANGED owned

PushTrue(p) ==
    /\ stage[p] = "done"
    /\ Enter(p, "idle", None)
    /\ UNCHANGED <<fifo, owned>>

PushFalse(p) ==
    /\ stage[p] = "called"
    /\ Len(fifo) = Capacity
    /\ owned' = owned \cup {item[p]}
    /\ Enter(p, "idle", None)
    /\ UNCHANGED fifo

PopCall(c) ==
    /\ stage[c] = "idle"
    /\ Enter(c, "called", None)
    /\ UNCHANGED <<fifo, owned>>

PopEffect(c) ==
    /\ stage[c] = "called"
    /\ fifo # <<>>
    /\ fifo' = Tail(fifo)
    /\ Enter(c, "done", Head(fifo))
    /\ UNCHANGED owned

PopItem(c) ==
    /\ stage[c] = "done"
    /\ owned' = owned \cup {item[c]}
    /\ Enter(c, "idle", None)
    /\ UNCHANGED fifo

PopNull(c) ==
    /\ stage[c] = "called"
    /\ fifo = <<>>
    /\ Enter(c, "idle", None)
    /\ UNCHANGED <<fifo, owned>>

Next ==
    \/ \E p \in Producers : \/ \E x \in owned : PushCall(p, x)
                            \/ PushEffect(p)
                            \/ PushTrue(p)
                            \/ PushFalse(p)
    \/ \E c \in Consumers : \/ PopCall(c)
                            \/ PopEffect(c)
                            \/ PopItem(c)
                            \/ PopNull(c)

Spec == Init /\ [][Next]_vars
=============================================================================
