--------------------------- MODULE CircularBuffer ---------------------------
(***************************************************************************)
(* CircularBuffer.hxx: slots, of which those from m_first on, m_size of    *)
(* them, wrapping at the end of the storage, hold objects.  Calls shift    *)
(* objects one by one and decide for each slot whether to construct an     *)
(* object there or to assign to one.                                       *)
(***************************************************************************)
EXTENDS Naturals, Sequences

CONSTANTS Values,
          Raw,         \* a slot without an object
          MaxCapacity  \* bound

BufferAssumption == MaxCapacity \in Nat /\ Raw \notin Values

VARIABLES cb,   \* the buffer: slots, m_first, m_last as offsets, m_size, and
                \* whether each object was used only between its constructor
                \* and its destructor
          call, \* the last call
          strayed \* it took a free slot before the first item for one with an
                  \* object and assigned to it; what the code does after that
                  \* is not modelled

vars == <<cb, call, strayed>>

Fresh == [slots |-> <<>>, first |-> 0, last |-> 0, size |-> 0, ok |-> TRUE]
Init == cb = Fresh /\ call = <<"none">> /\ strayed = FALSE

----------------------------------------------------------------------------
(* Pointers *)
capacity(c) == Len(c.slots)
full(c) == capacity(c) = c.size
reserve(c) == capacity(c) - c.size
increment(c, p) == IF p + 1 = capacity(c) THEN 0 ELSE p + 1
decrement(c, p) == (IF p = 0 THEN capacity(c) ELSE p) - 1
add(c, p, n) == IF n < capacity(c) - p THEN p + n ELSE p + n - capacity(c)
sub(c, p, n) == IF n > p THEN p + capacity(c) - n ELSE p - n
is_uninitialized(c, p) == p >= c.last /\ (c.first < c.last \/ p < c.first)
Least(m, n) == IF m < n THEN m ELSE n

(* Objects *)
Get(c, p) == c.slots[p + 1]
Set(c, p, x) == [c EXCEPT !.slots[p + 1] = x]
Misused(c) == [c EXCEPT !.ok = FALSE]
Ends(c, first, last, size) == [c EXCEPT !.first = first, !.last = last, !.size = size]
construct(c, p, x) ==
    IF Get(c, p) = Raw /\ x # Raw THEN Set(c, p, x) ELSE Misused(Set(c, p, x))
replace(c, p, x) ==
    IF Get(c, p) # Raw /\ x # Raw THEN Set(c, p, x) ELSE Misused(Set(c, p, x))
destroy_item(c, p) ==
    IF Get(c, p) # Raw THEN Set(c, p, Raw) ELSE Misused(c)
construct_or_replace(c, new, p, x) == IF new THEN construct(c, p, x) ELSE replace(c, p, x)

\* Step(c, i) for i = 1 .. n, one after the other.
Repeat(c, n, Step(_, _)) ==
    LET after[i \in 0 .. n] == IF i = 0 THEN c ELSE Step(after[i - 1], i)
    IN  after[n]

----------------------------------------------------------------------------
(* Both ends *)

\* Mutant: the oldest is replaced and stays the first.
PushBackKeepsFirst(c, x) ==
    LET last == increment(c, c.last) IN
    IF full(c) THEN Ends(replace(c, c.last, x), c.first, last, c.size)
    ELSE Ends(construct(c, c.last, x), c.first, last, c.size + 1)

push_back(c, x) ==
    LET last == increment(c, c.last) IN
    IF full(c) THEN Ends(replace(c, c.last, x), last, last, c.size)
    ELSE Ends(construct(c, c.last, x), c.first, last, c.size + 1)

push_front(c, x) ==
    LET p == decrement(c, c.first) IN
    IF capacity(c) = 0 THEN c
    ELSE IF full(c) THEN Ends(replace(c, p, x), p, p, c.size)
    ELSE Ends(construct(c, p, x), p, c.last, c.size + 1)

pop_back(c) ==
    LET p == decrement(c, c.last)
    IN  Ends(destroy_item(c, p), c.first, p, c.size - 1)
pop_front(c) ==
    Ends(destroy_item(c, c.first), increment(c, c.first), c.last, c.size - 1)

pop_backs(c, n) ==
    LET Pop(d, i) == pop_back(d)
    IN  Repeat(c, n, Pop)
pop_fronts(c, n) ==
    LET Pop(d, i) == pop_front(d)
    IN  Repeat(c, n, Pop)
clear(c) == pop_fronts(c, c.size)

----------------------------------------------------------------------------
(* One item at position k; position c.size is end() *)

insert_item(c, k, x) ==
    LET Shift(d, i) == construct_or_replace(d, ~full(c) /\ i = 1, sub(c, c.last, i - 1),
                                            Get(d, sub(c, c.last, i)))
        put == IF k = c.size THEN construct_or_replace(c, ~full(c), c.last, x)
               ELSE replace(Repeat(c, c.size - k, Shift), add(c, c.first, k), x)
        last == increment(c, c.last)
    IN  IF full(c) THEN Ends(put, last, last, c.size)
        ELSE Ends(put, c.first, last, c.size + 1)

insert_impl(c, k, x) == IF full(c) /\ k = 0 THEN c ELSE insert_item(c, k, x)

rinsert_impl(c, k, x) ==
    LET first == decrement(c, c.first)
        Shift(d, i) == construct_or_replace(d, ~full(c) /\ i = 1, add(c, first, i - 1),
                                            Get(d, add(c, c.first, i - 1)))
        put == IF k = 0 THEN construct_or_replace(c, ~full(c), first, x)
               ELSE replace(Repeat(c, k, Shift), add(c, first, k), x)
    IN  IF full(c) /\ k = c.size THEN c
        ELSE IF full(c) THEN Ends(put, first, first, c.size)
        ELSE Ends(put, first, c.last, c.size + 1)

----------------------------------------------------------------------------
(* n items at position k *)

insert_n(c, k, wanted, x) ==
    LET n == Least(wanted, capacity(c) - (c.size - k))
        new == Least(reserve(c), n)
        Behind(d, i) == construct_or_replace(d, i <= new, add(c, c.last, i - 1), x)
        Shift(d, i) ==
            LET to == sub(c, add(c, c.last, n - 1), i - 1)
            IN  construct_or_replace(d, is_uninitialized(c, to), to, Get(d, sub(c, c.last, i)))
        Fill(d, i) ==
            LET p == add(c, add(c, c.first, k), i - 1)
            IN  construct_or_replace(d, is_uninitialized(c, p), p, x)
        put == IF k = c.size THEN Repeat(c, n, Behind)
               ELSE Repeat(Repeat(c, c.size - k, Shift), n, Fill)
    IN  IF n = 0 THEN c
        ELSE Ends(put, add(c, c.first, n - new), add(c, c.last, n), c.size + new)

rinsert_n(c, k, wanted, x) ==
    LET n == Least(wanted, capacity(c) - k)
        new == Least(reserve(c), n)
        first == sub(c, c.first, n)
        Before(d, i) == construct_or_replace(d, i > n - new, add(c, first, i - 1), x)
        Shift(d, i) ==
            LET to == add(c, first, i - 1)
            IN  construct_or_replace(d, is_uninitialized(c, to), to,
                                     Get(d, add(c, c.first, i - 1)))
        Fill(d, i) ==
            LET p == add(c, add(c, first, k), i - 1)
            IN  construct_or_replace(d, is_uninitialized(c, p), p, x)
        put == IF k = 0 THEN Repeat(c, n, Before) ELSE Repeat(Repeat(c, k, Shift), n, Fill)
    IN  IF n = 0 THEN c
        ELSE Ends(put, first, sub(c, c.last, n - new), c.size + new)

----------------------------------------------------------------------------
(* Removal of the positions k .. m - 1, by moving what is behind or before *)

erase(c, k, m) ==
    LET Move(d, i) == replace(d, add(c, c.first, k + i - 1), Get(d, add(c, c.first, m + i - 1)))
    IN  pop_backs(Repeat(c, c.size - m, Move), m - k)

rerase(c, k, m) ==
    LET Move(d, i) == replace(d, add(c, c.first, m - i), Get(d, add(c, c.first, k - i)))
    IN  pop_fronts(Repeat(c, k, Move), m - k)

----------------------------------------------------------------------------
(* New storage, of n slots, with the items from position k up to position m *)
Item(c, k) == Get(c, add(c, c.first, k))

reset(c, k, m, n) ==
    [slots |-> [i \in 1 .. n |-> IF i <= m - k THEN Item(c, k + i - 1) ELSE Raw],
     first |-> 0, last |-> IF m - k = n THEN 0 ELSE m - k, size |-> m - k,
     ok |-> clear(c).ok]

set_capacity(c, n) ==
    IF n = capacity(c) THEN c ELSE reset(c, 0, Least(n, c.size), n)
rset_capacity(c, n) ==
    IF n = capacity(c) THEN c ELSE reset(c, c.size - Least(n, c.size), c.size, n)

resize(c, n, x) ==
    LET d == IF n > capacity(c) THEN set_capacity(c, n) ELSE c
    IN  IF n > c.size THEN insert_n(d, d.size, n - c.size, x) ELSE erase(c, n, c.size)
rresize(c, n, x) ==
    LET d == IF n > capacity(c) THEN set_capacity(c, n) ELSE c
    IN  IF n > c.size THEN rinsert_n(d, 0, n - c.size, x) ELSE rerase(c, 0, c.size - n)

assign_n(c, m, n, x) ==
    LET Make(d, i) == construct(d, i - 1, x)
        old == clear(c)
        base == IF m = capacity(c) THEN old
                ELSE [old EXCEPT !.slots = [i \in 1 .. m |-> Raw]]
    IN  Ends(Repeat(base, n, Make), 0, IF n = m THEN 0 ELSE n, n)

----------------------------------------------------------------------------
(* linearize(): objects are swapped to the beginning of the storage, or    *)
(* constructed in slots without one.                                       *)

\* One evaluation of a loop's condition, and the body of the inner loop.
LinearizeStep(s, i) ==
    LET c == s.c
        Outer(first) == [s EXCEPT !.at = "outer", !.src = first, !.first = first]
        next == [s EXCEPT !.src = s.src + 1, !.dest = s.dest + 1, !.moved = s.moved + 1,
                          !.ii = s.ii + 1]
        x == Get(c, s.src)
    IN  IF s.at = "done" THEN s
        ELSE IF s.at = "outer"
          THEN IF s.dest < s.src THEN [s EXCEPT !.at = "inner", !.ii = 0]
               ELSE [s EXCEPT !.at = "done"]
        ELSE IF s.src >= capacity(c) THEN Outer(s.first)
        ELSE IF s.moved = c.size THEN Outer(s.dest)
        ELSE IF s.dest = s.first THEN Outer(s.first + s.ii)
        ELSE IF is_uninitialized(c, s.dest)
          THEN [next EXCEPT !.c = construct(c, s.dest, x), !.made = s.made + 1]
        ELSE [next EXCEPT !.c = replace(replace(c, s.src, Get(c, s.dest)), s.dest, x)]

is_linear(c) == c.first < c.last \/ c.last = 0

linearize(c) ==
    LET start == [c |-> c, src |-> c.first, dest |-> 0, first |-> c.first, moved |-> 0,
                  made |-> 0, ii |-> 0, at |-> "outer"]
        loop == Repeat(start, 3 * capacity(c) + 3, LinearizeStep)
        Drop(d, i) == destroy_item(d, capacity(c) - i)
    IN  IF c.size = 0 \/ is_linear(c) THEN c
        ELSE Ends(Repeat(IF loop.at = "done" THEN loop.c ELSE Misused(loop.c), loop.made, Drop),
                  0, add(c, 0, c.size), c.size)

----------------------------------------------------------------------------
Did(what, new) == call' = what /\ cb' = new

PushPop ==
    \/ \E x \in Values : capacity(cb) > 0 /\ Did(<<"push_back", x>>, push_back(cb, x))
    \/ \E x \in Values : Did(<<"push_front", x>>, push_front(cb, x))
    \/ cb.size > 0 /\ Did(<<"pop_back">>, pop_back(cb))
    \/ cb.size > 0 /\ Did(<<"pop_front">>, pop_front(cb))

Insert ==
    \E x \in Values, k \in 0 .. cb.size :
      \/ Did(<<"insert", k, 1, x>>, insert_impl(cb, k, x))
      \/ Did(<<"rinsert", k, 1, x>>, rinsert_impl(cb, k, x))

\* Is there room before the first item and behind the last?  Then
\* is_uninitialized() is wrong of the slots before m_first, which items that
\* are moved backwards reach, and those moved forwards past the last slot.
Amid == cb.first # 0 /\ cb.first < cb.last
Past(k, n) == cb.last + Least(n, capacity(cb) - (cb.size - k)) > capacity(cb)

InsertSome ==
    \E x \in Values, k \in 0 .. cb.size, n \in 0 .. MaxCapacity + 1 :
      \/ /\ Did(<<"insert", k, n, x>>, insert_n(cb, k, n, x))
         /\ strayed' = (k < cb.size /\ n > 0 /\ Amid /\ Past(k, n))
      \/ /\ Did(<<"rinsert", k, n, x>>, rinsert_n(cb, k, n, x))
         /\ strayed' = (k > 0 /\ n > 0 /\ Amid)

Erase ==
    \E k, m \in 0 .. cb.size :
      k <= m /\ (Did(<<"erase", k, m>>, erase(cb, k, m)) \/ Did(<<"erase", k, m>>, rerase(cb, k, m)))

Storage ==
    \E n \in 0 .. MaxCapacity :
      \/ Did(<<"set_capacity", n>>, set_capacity(cb, n))
      \/ Did(<<"rset_capacity", n>>, rset_capacity(cb, n))
      \/ \E x \in Values : \/ Did(<<"resize", n, x>>, resize(cb, n, x))
                           \/ Did(<<"rresize", n, x>>, rresize(cb, n, x))
                           \/ \E m \in n .. MaxCapacity :
                                Did(<<"assign", m, n, x>>, assign_n(cb, m, n, x))

Whole == Did(<<"linearize">>, linearize(cb)) \/ Did(<<"clear">>, clear(cb))

Next ==
    /\ ~strayed
    /\ \/ InsertSome
       \/ (PushPop \/ Insert \/ Erase \/ Storage \/ Whole) /\ UNCHANGED strayed

Spec == Init /\ [][Next]_vars

----------------------------------------------------------------------------
\* Up to an insertion that strays, slots, pointers and size stay in their range.
TypeOK ==
    /\ strayed \in BOOLEAN
    /\ strayed \/
       /\ cb.slots \in Seq(Values \cup {Raw}) /\ capacity(cb) <= MaxCapacity
       /\ cb.size \in 0 .. capacity(cb)
       /\ {cb.first, cb.last} \subseteq
            (IF capacity(cb) = 0 THEN {0} ELSE 0 .. capacity(cb) - 1)
       /\ cb.ok \in BOOLEAN

\* Each slot that a call constructs in was free, each that it assigns to,
\* reads or destroys had an object: the tests for a full buffer and for the
\* part behind m_last are right for every wrap, up to an insertion that strays
\* (lines 693-1378).
LifetimesRespected == strayed \/ cb.ok

\* Objects are where m_first, m_last and m_size say, and nowhere else.
LiveFromFirst ==
    strayed \/
    /\ cb.last = add(cb, cb.first, cb.size)
    /\ \A i \in 0 .. capacity(cb) - 1 :
         (Get(cb, add(cb, cb.first, i)) # Raw) = (i < cb.size)

\* The buffer is a list of bounded length under the same calls, up to an
\* insertion that strays.
Items == [i \in 1 .. cb.size |-> Item(cb, i - 1)]
Ring == INSTANCE RingOps WITH items <- Items, limit <- capacity(cb)
IsARing == Ring!Init /\ [][Ring!Next \/ strayed']_<<Items, capacity(cb), call>>

\* linearize() leaves the items in one piece, at the pointer it returns
\* (lines 328-384).
Linearized ==
    call = <<"linearize">> /\ cb.size > 0 => cb.first + cb.size <= capacity(cb)
=============================================================================
