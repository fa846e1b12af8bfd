------------------------------- MODULE Vector -------------------------------
(***************************************************************************)
(* Vector of Vector.hxx: a block of memory, whose first slots hold live    *)
(* objects.  The calls construct, move, assign and destroy objects in      *)
(* slots; an element may be the argument of a call.  Three calls go wrong, *)
(* see "strayed"; what the code does after one of them is not modelled.    *)
(***************************************************************************)
EXTENDS Naturals, Sequences, FiniteSets

CONSTANTS Values, Default,  \* Default: what value initialization makes, and
                            \* what remains of it when it is moved
          Raw, Moved,       \* slots without an object, with one moved from
          Trivial,          \* the element type has no destructor
          MaxSize           \* bound: elements

VectorAssumption ==
    /\ Trivial \in BOOLEAN /\ Default \in Values /\ MaxSize \in Nat
    /\ Raw # Moved /\ {Raw, Moved} \cap Values = {}

VARIABLES mem,   \* m_begin .. m_begin + m_capacity
          size,  \* m_end - m_begin
          call,  \* the last call
          strayed \* it was insert(position, 0, x) before an element, push_back()
                  \* of an element that was moved first, or erase() of a range
                  \* before the last element

vars == <<mem, size, call, strayed>>

Init == mem = <<>> /\ size = 0 /\ call = <<"none">> /\ strayed = FALSE

Slots(n, x) == [i \in 1 .. n |-> x]
Items == SubSeq(mem, 1, size)
CapacityFactor == (Len(mem) + 4) * 2

\* The capacity after room was made for n more (_insert_blank_space, push_back).
NewCapacity(n) ==
    IF Len(mem) < size + n THEN n + CapacityFactor ELSE Len(mem)

Fill(items, capacity) == items \o Slots(capacity - Len(items), Raw)

Grows(n) == Len(mem) < size + n

Fail(what) == call' = <<what>> /\ UNCHANGED <<mem, size>>

PushBack(x) ==
    /\ size < MaxSize
    /\ \/ /\ mem' = IF Grows(1) THEN Fill(Append(Items, x), CapacityFactor)
                    ELSE [mem EXCEPT ![size + 1] = x]
          /\ size' = size + 1 /\ call' = <<"push", x>>
       \/ Grows(1) /\ Fail("fail")

\* push_back(v[i]): _realloc() moves the elements and frees the block first.
PushBackOwn(i) ==
    /\ size < MaxSize
    /\ mem' = IF Grows(1) THEN Fill(Append(Items, Raw), CapacityFactor)
              ELSE [mem EXCEPT ![size + 1] = mem[i]]
    /\ size' = size + 1 /\ call' = <<"push", mem[i]>> /\ strayed' = Grows(1)

\* insert(position, 0, x): _insert_blank_space() moves each element behind to
\* where it is, that is, constructs it from itself and destroys it.
InsertNone(p, x) ==
    /\ mem' = [i \in DOMAIN mem |->
                 IF i \in p + 1 .. size /\ ~Trivial THEN Raw ELSE mem[i]]
    /\ strayed' = (p < size /\ ~Trivial)
    /\ call' = <<"insert", p, 0, x>> /\ UNCHANGED size

\* insert(position, n, x), and with n = 1 insert(position, x), emplace().
Insert(p, n, x) ==
    /\ size + n <= MaxSize
    /\ \/ /\ mem' = Fill(SubSeq(mem, 1, p) \o Slots(n, x) \o SubSeq(mem, p + 1, size),
                         NewCapacity(n))
          /\ size' = size + n /\ call' = <<"insert", p, n, x>>
       \/ Grows(n) /\ Fail("fail")

\* Mutant: the last object stays.
EraseKeepsLast(p) ==
    /\ p < size
    /\ mem' = [i \in DOMAIN mem |->
                 IF i \in p + 1 .. size - 1 THEN mem[i + 1]
                 ELSE IF i = size THEN Moved ELSE mem[i]]
    /\ size' = size - 1
    /\ call' = <<"erase", p, 1>>

\* erase(position): the end moves with the destructor of the last element.
Erase(p) ==
    /\ p < size
    /\ mem' = [i \in DOMAIN mem |->
                 IF i \in p + 1 .. size - 1 THEN mem[i + 1]
                 ELSE IF i = size /\ ~Trivial THEN Raw ELSE mem[i]]
    /\ size' = IF Trivial THEN size ELSE size - 1
    /\ call' = <<"erase", p, 1>>

\* Slots p + 1 .. p + n lose their objects, then those behind are assigned
\* down, and what they leave behind is not destroyed.
EraseRange(p, n) ==
    /\ p + n <= size
    /\ mem' = [i \in DOMAIN mem |->
                 IF n = 0 THEN mem[i]
                 ELSE IF i \in p + 1 .. size - n THEN mem[i + n]
                 ELSE IF i \in p + 1 .. p + n /\ ~Trivial THEN Raw
                 ELSE IF i \in p + n + 1 .. size /\ ~Trivial THEN Moved
                 ELSE mem[i]]
    /\ size' = size - n
    /\ call' = <<"erase", p, n>> /\ strayed' = (n > 0 /\ p + n < size)

\* Also pop_back(), with n = size - 1.  New elements are moved from one that
\* was value-initialized (_insert_impl() of an rvalue).
Resize(n) ==
    /\ n <= MaxSize
    /\ \/ /\ mem' = IF n <= size
                    THEN [i \in DOMAIN mem |-> IF i \in n + 1 .. size THEN Raw ELSE mem[i]]
                    ELSE Fill(Items \o Slots(n - size, Default), NewCapacity(n - size))
          /\ size' = n /\ call' = <<"resize", n>>
       \/ n > size /\ Grows(n - size) /\ Fail("fail")

\* clear(), then a larger block when the old one is too small.
Assign(n, x) ==
    /\ n <= MaxSize
    /\ \/ /\ mem' = Slots(n, x) \o Slots(IF n < Len(mem) THEN Len(mem) - n ELSE 0, Raw)
          /\ size' = n /\ call' = <<"assign", n, x>>
       \/ /\ Len(mem) < n
          /\ mem' = <<>> /\ size' = 0 /\ call' = <<"fail assign">>

Clear ==
    /\ mem' = Slots(Len(mem), Raw) /\ size' = 0
    /\ call' = <<"clear">>

Reserve(n) ==
    /\ n <= MaxSize
    /\ \/ /\ mem' = IF Len(mem) < n THEN Fill(Items, n) ELSE mem
          /\ call' = <<"reserve", n>> /\ UNCHANGED size
       \/ Len(mem) < n /\ Fail("fail")

Next ==
    /\ ~strayed
    /\ \/ \E i \in 1 .. size : PushBackOwn(i)
       \/ \E p \in 0 .. size, n \in 0 .. MaxSize : EraseRange(p, n)
       \/ \E p \in 0 .. size, x \in Values : InsertNone(p, x)
       \/ /\ \/ Clear
             \/ \E n \in 0 .. MaxSize : Resize(n) \/ Reserve(n)
             \/ \E p \in 0 .. size : Erase(p)
             \/ \E x \in Values :
                  \/ PushBack(x)
                  \/ \E n \in 0 .. MaxSize : Assign(n, x)
                  \/ \E p \in 0 .. size, n \in 1 .. MaxSize : Insert(p, n, x)
          /\ UNCHANGED strayed

Spec == Init /\ [][Next]_vars

----------------------------------------------------------------------------
TypeOK ==
    /\ mem \in Seq(Values \cup {Raw, Moved})
    /\ size \in 0 .. MaxSize /\ size <= Len(mem) /\ strayed \in BOOLEAN

\* The slots below the end hold objects, the others do not: none is used after
\* its destructor, constructed twice or forgotten, up to a call that strays
\* (Vector.hxx 160-207, 550-627).
LiveToTheEnd ==
    strayed \/ \A i \in DOMAIN mem : IF i <= size THEN mem[i] \in Values ELSE mem[i] = Raw

\* The elements are those of a list under the same calls, "std::vector
\* adaptation" (Vector.hxx 10), up to a call that strays.
List == INSTANCE ListCalls WITH items <- Items
IsAList == List!Init /\ [][List!Next \/ strayed']_<<Items, call>>
=============================================================================
