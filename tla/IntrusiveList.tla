---------------------------- MODULE IntrusiveList ----------------------------
(***************************************************************************)
(* IntrusiveList.hxx: nodes in a ring through the list's root, each with   *)
(* the next and the previous one.  Callers add a node that is in no list;  *)
(* erase() asserts that its node is in this one.                           *)
(***************************************************************************)
EXTENDS Naturals, FiniteSets

CONSTANTS Nodes, Root, Null

ListAssumption ==
    IsFiniteSet(Nodes) /\ Root \notin Nodes /\ Null \notin Nodes /\ Root # Null

VARIABLES next, prev,
          size,   \* m_size
          pulled  \* what the last pull_front() or pull_back() returned

vars == <<next, prev, size, pulled>>

All == Nodes \cup {Root}

Init ==
    /\ next = [n \in All |-> IF n = Root THEN Root ELSE Null]
    /\ prev = [n \in All |-> IF n = Root THEN Root ELSE Null]
    /\ size = 0 /\ pulled = Null

Linked(n) == next[n] # Null

\* Mutant: the neighbour before keeps its link.
AddHalf(n, p, x) ==
    /\ next' = [next EXCEPT ![n] = x]
    /\ prev' = [prev EXCEPT ![n] = p, ![x] = n]
    /\ size' = size + 1

\* _add(node, prev, next): between p and x.
Add(n, p, x) ==
    /\ next' = [next EXCEPT ![n] = x, ![p] = n]
    /\ prev' = [prev EXCEPT ![n] = p, ![x] = n]
    /\ size' = size + 1

Delete(n) ==
    /\ next' = [next EXCEPT ![prev[n]] = next[n], ![n] = Null]
    /\ prev' = [prev EXCEPT ![next[n]] = prev[n], ![n] = Null]
    /\ size' = size - 1

push_front(n) == ~Linked(n) /\ Add(n, Root, next[Root]) /\ UNCHANGED pulled
push_back(n) == ~Linked(n) /\ Add(n, prev[Root], Root) /\ UNCHANGED pulled

\* begin() is the root in an empty list; end(), decremented, too.
Pull(n) ==
    IF n = Root THEN pulled' = Null /\ UNCHANGED <<next, prev, size>>
                ELSE pulled' = n /\ Delete(n)
pull_front == Pull(next[Root])
pull_back == Pull(prev[Root])

erase(n) == Linked(n) /\ Delete(n) /\ UNCHANGED pulled

Next ==
    \/ pull_front \/ pull_back
    \/ \E n \in Nodes : push_front(n) \/ push_back(n) \/ erase(n)

Spec == Init /\ [][Next]_vars

----------------------------------------------------------------------------
TypeOK ==
    /\ {next, prev} \subseteq [All -> All \cup {Null}]
    /\ size \in Nat /\ pulled \in Nodes \cup {Null}

\* Nodes and root agree: whom I follow has me next; a node has both links or
\* none; so erase() unlinks a node in one step from wherever it is (360-371).
LinksMatch ==
    /\ Linked(Root)
    /\ \A n \in All : IF Linked(n)
                      THEN /\ next[n] \in All /\ prev[n] \in All
                           /\ prev[next[n]] = n /\ next[prev[n]] = n
                      ELSE prev[n] = Null

\* size() is the number of nodes with links (217-225, 357, 370).
SizeIsLinked == size = Cardinality({n \in Nodes : Linked(n)})

\* What begin() .. end() walks through, as far as the nodes can last.
Walk == LET f[i \in 0 .. size] == IF i = 0 THEN Root ELSE next[f[i - 1]]
        IN  [i \in 1 .. size |-> f[i]]

\* Every node with links is in the ring, once, and the ring ends at the root:
\* the list is a sequence under its operations (287-333).
Ops == INSTANCE ListOps WITH items <- Walk
IsAList == Ops!Spec
=============================================================================
