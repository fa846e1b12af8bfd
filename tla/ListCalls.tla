----------------------------- MODULE ListCalls -----------------------------
(***************************************************************************)
(* What a vector promises: a list, and calls that edit it.  A call that    *)
(* cannot get memory leaves the list, but for assign(), which empties it.  *)
(***************************************************************************)
EXTENDS Naturals, Sequences

CONSTANTS Values, Default, MaxSize

VARIABLES items, call

Init == items = <<>> /\ call = <<"none">>

Copies(n, x) == [i \in 1 .. n |-> x]
Upto(n) == SubSeq(items, 1, n)
After(n) == SubSeq(items, n + 1, Len(items))

Did(c, new) == call' = c /\ items' = new

Next ==
    \/ \E x \in Values :
         \/ Did(<<"push", x>>, Append(items, x))
         \/ \E n \in 0 .. MaxSize : Did(<<"assign", n, x>>, Copies(n, x))
         \/ \E p \in 0 .. Len(items), n \in 0 .. MaxSize :
              Did(<<"insert", p, n, x>>, Upto(p) \o Copies(n, x) \o After(p))
    \/ \E p \in 0 .. Len(items) - 1 : Did(<<"erase", p, 1>>, Upto(p) \o After(p + 1))
    \/ \E p \in 0 .. Len(items), n \in 0 .. MaxSize :
         p + n <= Len(items) /\ Did(<<"erase", p, n>>, Upto(p) \o After(p + n))
    \/ \E n \in 0 .. MaxSize :
         Did(<<"resize", n>>, IF n <= Len(items) THEN Upto(n)
                              ELSE items \o Copies(n - Len(items), Default))
    \/ Did(<<"clear">>, <<>>)
    \/ Did(<<"fail">>, items) \/ Did(<<"fail assign">>, <<>>)
    \/ \E n \in 0 .. MaxSize : Did(<<"reserve", n>>, items)

Spec == Init /\ [][Next]_<<items, call>>
=============================================================================
