---------------------------- MODULE StringValues ----------------------------
(* What strings promise: each variable has a value of its own. *)
EXTENDS Sequences

CONSTANTS Handles,  \* string variables
          Letters

VARIABLE val

Init == val = [h \in Handles |-> <<>>]

Assign(h, s) == val' = [val EXCEPT ![h] = s]

Next ==
    \E h \in Handles :
        \/ \E c \in Letters : Assign(h, <<c>>) \/ Assign(h, Append(val[h], c))
        \/ \E g \in Handles :
              \/ Assign(h, val[g])
              \/ val' = [val EXCEPT ![h] = val[g], ![g] = <<>>]  \* moved
        \/ Assign(h, <<>>)

Spec == Init /\ [][Next]_val
=============================================================================
