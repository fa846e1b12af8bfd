------------------------------- MODULE ListOps -------------------------------
(***************************************************************************)
(* What an intrusive list promises: items in an order, added and taken at  *)
(* both ends and removed anywhere.                                         *)
(***************************************************************************)
EXTENDS Sequences, SequencesExt

CONSTANTS Nodes, Null
VARIABLES items,
          pulled  \* what was taken from an end the last time

Init == items = <<>> /\ pulled = Null

Add(n) ==
    /\ ~Contains(items, n)
    /\ items' = Cons(n, items) \/ items' = Append(items, n)
    /\ UNCHANGED pulled

Drop(n) == \E i \in DOMAIN items : items[i] = n /\ items' = RemoveAt(items, i)

Pull ==
    IF items = <<>> THEN pulled' = Null /\ UNCHANGED items
    ELSE pulled' \in {Head(items), Last(items)} /\ Drop(pulled')

Next == Pull \/ \E n \in Nodes : Add(n) \/ (Drop(n) /\ UNCHANGED pulled)

Spec == Init /\ [][Next]_<<items, pulled>>
=============================================================================
