------------------------------ MODULE HashMap ------------------------------
(***************************************************************************)
(* HashMap (HashMap_details.hxx): a table of buckets, each a chain of      *)
(* nodes.  A bucket keeps the hash of its first node and whether another   *)
(* hash was added ("dirty"); the table keeps its first used bucket.        *)
(***************************************************************************)
EXTENDS Naturals, Sequences, FiniteSets, SequencesExt

CONSTANTS Keys, Nodes,
          Null,         \* nullptr
          Hash(_),      \* the hash of a key
          InitialCount, \* what the constructor is given
          MaxBuckets    \* bound: buckets of the largest table

HashMapAssumption ==
    /\ \A k \in Keys : Hash(k) \in Nat
    /\ IsFiniteSet(Nodes) /\ IsFiniteSet(Keys) /\ Cardinality(Keys) <= Cardinality(Nodes)
    /\ InitialCount \in Nat \ {0} /\ MaxBuckets \in Nat /\ Null \notin Nodes \cup Keys

VARIABLES map,    \* buckets, m_head (0: none) and m_count, and the nodes
          call,   \* the last call, with what it returned
          crowded \* was there ever a bucket of three nodes, or of two with
                  \* one hash?

vars == <<map, call, crowded>>

NoBucket == [elems |-> Null, size |-> 0, hash |-> 0, dirty |-> FALSE]
Freed == [key |-> Null, next |-> Null, prev |-> Null]
capacity_factor(n) == n * 2 - 1
Table(n) == [i \in 1 .. capacity_factor(n) |-> NoBucket]

NewMap(n) ==
    [buckets |-> Table(n), head |-> 0, count |-> 0, nodes |-> [p \in Nodes |-> Freed]]

Init == map = NewMap(InitialCount) /\ call = <<"none">> /\ crowded = FALSE

----------------------------------------------------------------------------
\* Bitwise and.
And(x, y) ==
    LET and[i \in 0 .. x] == [j \in 0 .. y |->
          IF i = 0 \/ j = 0 THEN 0 ELSE 2 * and[i \div 2][j \div 2] + (i % 2) * (j % 2)]
    IN  and[x][y]

\* The bucket of a key in a table of n buckets.
Slot(k, n) == 1 + And(Hash(k), n - 1)
mapkey(m, k) == Slot(k, Len(m.buckets))
hkey(m, n) == Hash(m.nodes[n].key)

\* The nodes from n on.
Chain(m, n) ==
    LET from[p \in Nodes \cup {Null}] ==
          IF p = Null THEN <<>> ELSE <<p>> \o from[m.nodes[p].next]
    IN  from[n]

InBucket(m, b) == Chain(m, m.buckets[b].elems)

\* The place of the key in the bucket's chain, or 0.
Place(m, b, k) == SelectInSeq(InBucket(m, b), LAMBDA n : m.nodes[n].key = k)

find(m, k) ==
    LET b == mapkey(m, k) IN
    IF m.buckets[b].size = 0 \/ Place(m, b, k) = 0 THEN Null
    ELSE InBucket(m, b)[Place(m, b, k)]

\* The first bucket in use, or 0.
FirstUsed(buckets) ==
    SelectInSeq(buckets, LAMBDA b : b.elems # Null)

----------------------------------------------------------------------------
(* insert_impl() *)

\* Mutant: a key of another hash than the first node's is not looked for.
SearchesFirstHash(b, h) == b.elems # Null /\ b.hash = h
\* Is the key looked for before it is added?
Searches(b, h) == b.elems # Null /\ (b.hash = h \/ b.dirty)

\* The node behind which one of another hash goes.
Behind(m, no, h) ==
    LET behind[p \in Nodes] ==
          IF m.nodes[p].next # Null /\ hkey(m, p) = h THEN behind[m.nodes[p].next] ELSE p
    IN  behind[no]

\* The table with k in the node p, which is the bucket's only one, goes before
\* the first of the same hash, or behind another.
Linked(m, p, k) ==
    LET b == mapkey(m, k)
        bk == m.buckets[b]
        e == bk.elems
        no == Behind(m, e, Hash(k))
        before == e # Null /\ bk.hash = Hash(k)
        behind == e # Null /\ ~before
        node(i) ==
            CASE i = p -> [key |-> k, next |-> IF behind THEN m.nodes[no].next ELSE e,
                           prev |-> IF behind THEN no
                                    ELSE IF before THEN m.nodes[e].prev ELSE Null]
              [] i # p /\ before /\ i = e -> [m.nodes[i] EXCEPT !.prev = p]
              [] i # p /\ behind /\ i = no -> [m.nodes[i] EXCEPT !.next = p]
              [] OTHER -> m.nodes[i]
    IN  [buckets |-> [m.buckets EXCEPT ![b] =
                        [elems |-> IF e = Null THEN p ELSE e, size |-> bk.size + 1,
                         hash |-> IF e = Null THEN Hash(k) ELSE bk.hash,
                         dirty |-> bk.dirty \/ behind]],
         head |-> IF e = Null /\ (m.count = 0 \/ m.head > b) THEN b ELSE m.head,
         count |-> m.count + 1, nodes |-> [i \in Nodes |-> node(i)]]

\* Is there no node of this key where insert_impl() looks for it?
Missing(m, k) ==
    LET b == mapkey(m, k)
    IN  ~(Searches(m.buckets[b], Hash(k)) /\ Place(m, b, k) # 0)

\* Which node is allocated makes no difference.
insert(m, k) ==
    IF Missing(m, k) THEN Linked(m, CHOOSE n \in Nodes : m.nodes[n] = Freed, k) ELSE m

----------------------------------------------------------------------------
(* erase() of the node n; the iterator returned is that of NextOf *)

\* The bucket b without its first node.
WithoutFirst(m, b, to) ==
    LET bk == m.buckets[b]
        renew == bk.size = 1 \/ (bk.dirty /\ bk.hash # hkey(m, to))
    IN  [elems |-> to, size |-> bk.size - 1, dirty |-> bk.dirty /\ ~renew,
         hash |-> IF renew /\ to # Null THEN hkey(m, to) ELSE bk.hash]

Unlinked(nodes, n) ==
    [i \in Nodes |->
        IF i = n THEN Freed
        ELSE [key |-> nodes[i].key,
              next |-> IF i = nodes[n].prev THEN nodes[n].next ELSE nodes[i].next,
              prev |-> IF i = nodes[n].next THEN nodes[n].prev ELSE nodes[i].prev]]

erase(m, n) ==
    LET b == mapkey(m, m.nodes[n].key)
        first == m.buckets[b].elems = n
        buckets == [m.buckets EXCEPT ![b] =
                      IF first THEN WithoutFirst(m, b, m.nodes[n].next)
                      ELSE [m.buckets[b] EXCEPT !.size = @ - 1]]
    IN  [buckets |-> buckets, count |-> m.count - 1, nodes |-> Unlinked(m.nodes, n),
         head |-> IF first /\ m.head = b THEN FirstUsed(buckets) ELSE m.head]

NextOf(m, n) ==
    LET b == mapkey(m, m.nodes[n].key)
        to == m.nodes[n].next
        used == FirstUsed(erase(m, n).buckets)
    IN  IF m.buckets[b].elems = n /\ (to = Null \/ m.head = b) /\ used # 0
        THEN erase(m, n).buckets[used].elems
        ELSE to

\* erase(first, end()), which ends with the nodes at the latest.
EraseFrom(m, n) ==
    LET Pass(d) == IF d.at = Null THEN d
                   ELSE [map |-> erase(d.map, d.at), at |-> NextOf(d.map, d.at)]
        after[i \in 0 .. Cardinality(Nodes)] ==
          IF i = 0 THEN [map |-> m, at |-> n] ELSE Pass(after[i - 1])
    IN  after[Cardinality(Nodes)].map

begin(m) == IF m.count = 0 \/ m.head = 0 THEN Null ELSE m.buckets[m.head].elems
clear(m) == EraseFrom(m, begin(m))

----------------------------------------------------------------------------
(* rehash(): elements are copied to new nodes, which are numbered from     *)
(* scratch here; the old ones are freed                                    *)

Order(m) ==
    LET upto[b \in 0 .. Len(m.buckets)] ==
          IF b = 0 THEN <<>> ELSE upto[b - 1] \o InBucket(m, b)
    IN  upto[Len(m.buckets)]

rehash(m, n) ==
    LET copied[i \in 0 .. Len(Order(m))] ==
          IF i = 0 THEN NewMap(n) ELSE insert(copied[i - 1], m.nodes[Order(m)[i]].key)
    IN  copied[Len(Order(m))]

----------------------------------------------------------------------------
Did(what, new) == call' = what /\ map' = new

Allocated == {n \in Nodes : map.nodes[n] # Freed}
KeysIn(m) == {m.nodes[n].key : n \in {i \in Nodes : m.nodes[i] # Freed}}

\* Do these keys have different hashes, and a table of n buckets at most two of
\* them in each?
Sparse(keys, n) ==
    /\ \A i, j \in keys : i # j => Hash(i) # Hash(j)
    /\ ~\E i, j, k \in keys :
         i # j /\ j # k /\ i # k /\ Slot(i, n) = Slot(j, n) /\ Slot(j, n) = Slot(k, n)

\* "allow only unique keys" (line 644): no key is in two nodes.
OnlyUniqueKeys ==
    \A m, n \in Allocated : map.nodes[m].key = map.nodes[n].key => m = n

\* Bounds: there is a node left for the key, and nothing is added to a table
\* that has a key twice.
Insert(k) ==
    /\ Missing(map, k) => Allocated # Nodes
    /\ crowded => OnlyUniqueKeys
    /\ Did(<<"insert", k, insert(map, k) # map>>, insert(map, k))
    /\ crowded' = (crowded \/ ~Sparse(KeysIn(map) \cup {k}, Len(map.buckets)))

Find(k) == Did(<<"find", k, find(map, k) # Null>>, map) /\ UNCHANGED crowded

\* The hash of the next node is read of a bucket that has lost it (line 729).
ReadsNull(n) ==
    LET bk == map.buckets[mapkey(map, map.nodes[n].key)]
    IN  bk.elems = n /\ bk.size > 1 /\ bk.dirty /\ map.nodes[n].next = Null

Erase(k) ==
    LET n == find(map, k)
    IN  /\ crowded /\ n # Null => ~ReadsNull(n)
        /\ Did(<<"erase", k, n # Null>>, IF n = Null THEN map ELSE erase(map, n))
        /\ UNCHANGED crowded

\* The nodes of a table that was crowded are not all in its chains: what these
\* two do then is not modelled.
Clear == ~crowded /\ Did(<<"clear">>, clear(map)) /\ UNCHANGED crowded

Rehash(n) ==
    /\ capacity_factor(n) <= MaxBuckets /\ ~crowded
    /\ Did(<<"rehash">>, IF Len(map.buckets) >= n THEN map ELSE rehash(map, n))
    /\ crowded' = (Len(map.buckets) < n /\ ~Sparse(KeysIn(map), capacity_factor(n)))

\* Does no node refer to one that was freed?  What follows is not modelled.
Intact ==
    \A n \in Allocated : {map.nodes[n].next, map.nodes[n].prev} \subseteq Allocated \cup {Null}

Next ==
    /\ crowded => Intact
    /\ \/ Clear
       \/ \E n \in 1 .. MaxBuckets : Rehash(n)
       \/ \E k \in Keys : Insert(k) \/ Find(k) \/ Erase(k)

Spec == Init /\ [][Next]_vars

----------------------------------------------------------------------------
\* Until a bucket is crowded, nodes and buckets keep their types.
TypeOK ==
    /\ crowded \in BOOLEAN
    /\ crowded \/
       /\ map.nodes \in [Nodes -> [key : Keys \cup {Null}, next : Nodes \cup {Null},
                                   prev : Nodes \cup {Null}]]
       /\ \A b \in 1 .. Len(map.buckets) :
            map.buckets[b] \in [elems : Nodes \cup {Null}, size : 0 .. Cardinality(Nodes),
                                hash : Nat, dirty : BOOLEAN]
       /\ map.head \in 0 .. Len(map.buckets)

\* Every bucket's chain has its size, holds the nodes that map to it and is
\* linked both ways; a clean bucket has one hash; m_head is the first bucket
\* in use and m_count counts the nodes, none of which is out of reach, until
\* a bucket is crowded (lines 664-699 and 714-773).
TableIsSound ==
    crowded \/
    /\ \A b \in 1 .. Len(map.buckets) :
         LET c == InBucket(map, b) IN
         /\ map.buckets[b].size = Len(c)
         /\ \A i \in 1 .. Len(c) :
              /\ mapkey(map, map.nodes[c[i]].key) = b
              /\ map.nodes[c[i]].prev = (IF i = 1 THEN Null ELSE c[i - 1])
              /\ i = 1 \/ ~map.buckets[b].dirty => hkey(map, c[i]) = map.buckets[b].hash
    /\ map.head = FirstUsed(map.buckets)
    /\ map.count = Cardinality(Allocated) /\ Allocated = ToSet(Order(map))

\* The calls return what those of a map of unique keys return, until a bucket
\* is crowded.
Calls == INSTANCE MapCalls WITH keys <- KeysIn(map)
ImplementsMap == Calls!Init /\ [][Calls!Next \/ crowded']_<<KeysIn(map), call>>
=============================================================================
