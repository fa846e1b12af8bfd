------------------------------- MODULE RingOps -------------------------------
(***************************************************************************)
(* What a circular buffer promises: a list of at most its capacity.  What  *)
(* is added to a full one replaces items at the other end; additions at    *)
(* the end that would be replaced at once are not made.                    *)
(***************************************************************************)
EXTENDS Naturals, Sequences

CONSTANTS Values, MaxCapacity

VARIABLES items, limit, call

Least(m, n) == IF m < n THEN m ELSE n
Copies(n, x) == [i \in 1 .. n |-> x]
Upto(n) == SubSeq(items, 1, n)
After(n) == SubSeq(items, n + 1, Len(items))
First(n, s) == SubSeq(s, 1, Least(n, Len(s)))
Latest(n, s) == SubSeq(s, Len(s) - Least(n, Len(s)) + 1, Len(s))

Init == items = <<>> /\ limit = 0 /\ call = <<"none">>

Did(c, new) == call' = c /\ items' = new /\ UNCHANGED limit
Sized(c, new, n) == call' = c /\ items' = new /\ limit' = n

\* n copies of x at position p: as many as do not push each other out.
Insert(p, n, x) ==
    Did(<<"insert", p, n, x>>,
        Latest(limit, Upto(p) \o Copies(Least(n, limit - (Len(items) - p)), x) \o After(p)))
Rinsert(p, n, x) ==
    Did(<<"rinsert", p, n, x>>,
        First(limit, Upto(p) \o Copies(Least(n, limit - p), x) \o After(p)))

Next ==
    \/ \E x \in Values :
         \/ Did(<<"push_back", x>>, Latest(limit, Append(items, x)))
         \/ Did(<<"push_front", x>>, First(limit, <<x>> \o items))
         \/ \E p \in 0 .. Len(items), n \in 0 .. MaxCapacity + 1 :
              Insert(p, n, x) \/ Rinsert(p, n, x)
         \/ \E m, n \in 0 .. MaxCapacity :
              n <= m /\ Sized(<<"assign", m, n, x>>, Copies(n, x), m)
         \/ \E n \in 0 .. MaxCapacity :
              \/ Sized(<<"resize", n, x>>, First(n, items \o Copies(n, x)),
                       IF n > limit THEN n ELSE limit)
              \/ Sized(<<"rresize", n, x>>, Latest(n, Copies(n, x) \o items),
                       IF n > limit THEN n ELSE limit)
    \/ items # <<>> /\ Did(<<"pop_back">>, Upto(Len(items) - 1))
    \/ items # <<>> /\ Did(<<"pop_front">>, After(1))
    \/ \E p, q \in 0 .. Len(items) :
         p <= q /\ Did(<<"erase", p, q>>, Upto(p) \o After(q))
    \/ \E n \in 0 .. MaxCapacity :
         \/ Sized(<<"set_capacity", n>>, First(n, items), n)
         \/ Sized(<<"rset_capacity", n>>, Latest(n, items), n)
    \/ Did(<<"linearize">>, items)
    \/ Did(<<"clear">>, <<>>)

Spec == Init /\ [][Next]_<<items, limit, call>>
=============================================================================
