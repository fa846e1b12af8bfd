----------------------------- MODULE MapProofs -----------------------------
(***************************************************************************)
(* Proofs about the hash map of MCObjects, and what the proofs about all   *)
(* its components say together, for every value of the constants.          *)
(***************************************************************************)
EXTENDS ObjectsProofs, BufferProofs

----------------------------------------------------------------------------
(* Slots *)

LEMMA Halves ==
    \A i \in Nat : /\ i \div 2 \in Nat /\ i % 2 \in 0 .. 1 /\ i = 2 * (i \div 2) + (i % 2)
                   /\ i # 0 => i \div 2 < i
<1>1. \A i \in Nat : i \div 2 \in Int /\ i % 2 \in 0 .. 1
  OBVIOUS
<1>2. \A i \in Nat : i % 2 = i - 2 * (i \div 2)
  BY Z3
<1>3. ASSUME NEW i \in Nat
      PROVE  /\ i \div 2 \in Nat /\ i % 2 \in 0 .. 1 /\ i = 2 * (i \div 2) + (i % 2)
             /\ i # 0 => i \div 2 < i
  <2>1. PICK q \in Int, r \in 0 .. 1 : q = i \div 2 /\ r = i % 2 /\ r = i - 2 * q
    BY <1>1, <1>2
  <2>2. q \in Nat
    BY <2>1
  <2>3. i = 2 * q + r
    BY <2>1
  <2>4. i # 0 => q < i
    BY <2>1
  <2>5. i \div 2 = q /\ i % 2 = r
    BY <2>1
  <2>6. QED
    BY <2>2, <2>3, <2>4, <2>5, Zenon
<1>4. QED
  BY <1>3

\* The bitwise and is no more than either number.
LEMMA AndBound ==
    ASSUME NEW x \in Nat, NEW y \in Nat PROVE Map!And(x, y) \in 0 .. y
<1> DEFINE Body(h, i, j) ==
             IF i = 0 \/ j = 0 THEN 0 ELSE 2 * h[i \div 2][j \div 2] + (i % 2) * (j % 2)
           F(h, k) == [i \in 0 .. k |-> [j \in 0 .. y |-> Body(h, i, j)]]
           S == {k \in 0 .. x : ~ \E h : h = F(h, k)}
<1>1. \E h : h = F(h, x)
  <2>1. SUFFICES ASSUME S # {} PROVE FALSE
    <3> HIDE DEF F
    <3>1. QED
      OBVIOUS
  <2>2. S \in SUBSET Nat
    OBVIOUS
  <2> HIDE DEF S
  <2>3. PICK k \in S : \A j \in S : k <= j
    BY <2>1, <2>2, LeastNat
  <2>4. k \in 0 .. x /\ ~ \E h : h = F(h, k)
    BY <2>3 DEF S
  <2>5. CASE k = 0
    <3> DEFINE h == [i \in 0 .. 0 |-> [j \in 0 .. y |-> 0]]
    <3>1. \A i \in 0 .. 0 : i = 0
      OBVIOUS
    <3>2. \A i \in 0 .. 0 : [j \in 0 .. y |-> Body(h, i, j)] = [j \in 0 .. y |-> 0]
      BY <3>1
    <3>3. h = F(h, 0)
      <4> HIDE DEF Body
      <4>1. QED
        BY <3>2
    <3> HIDE DEF h, F
    <3>4. QED
      BY <2>4, <2>5, <3>3
  <2>6. CASE k # 0
    <3>1. k - 1 \in 0 .. x /\ ~(k <= k - 1)
      BY <2>4, <2>6
    <3>2. PICK h : h = F(h, k - 1)
      <4> HIDE DEF F
      <4>1. QED
        BY <2>3, <3>1 DEF S
    <3> DEFINE g == [i \in 0 .. k |-> [j \in 0 .. y |-> Body(h, i, j)]]
    <3>3. ASSUME NEW i \in 0 .. k, NEW j \in 0 .. y, i # 0, j # 0
          PROVE  i \div 2 \in 0 .. k - 1 /\ j \div 2 \in 0 .. y /\ i \div 2 \in 0 .. k
      <4>1. i \in Nat /\ j \in Nat /\ i <= k /\ j <= y
        BY <2>4
      <4>2. i \div 2 \in Nat /\ i \div 2 < i /\ j \div 2 \in Nat /\ j \div 2 < j
        BY <3>3, <4>1, Halves
      <4>3. QED
        BY <2>4, <4>1, <4>2
    <3>4. \A i \in 0 .. k - 1 : \A j \in 0 .. y : h[i][j] = Body(h, i, j)
      <4> HIDE DEF Body
      <4>1. \A i \in 0 .. k - 1 : h[i] = [j \in 0 .. y |-> Body(h, i, j)]
        BY <3>2
      <4>2. QED
        BY <4>1
    <3>5. \A i \in 0 .. k - 1 : i \in 0 .. k
      BY <2>4
    <3>6. \A i \in 0 .. k - 1 : \A j \in 0 .. y : g[i][j] = h[i][j]
      <4> HIDE DEF Body
      <4>1. QED
        BY <3>4, <3>5
    <3>7. ASSUME NEW i \in 0 .. k, NEW j \in 0 .. y
          PROVE  Body(h, i, j) = Body(g, i, j)
      <4>1. CASE i = 0 \/ j = 0
        BY <4>1
      <4>2. CASE ~(i = 0 \/ j = 0)
        <5>1. g[i \div 2][j \div 2] = h[i \div 2][j \div 2]
          <6> HIDE DEF g
          <6>1. QED
            BY <3>3, <3>6, <4>2
        <5> HIDE DEF g
        <5>2. QED
          BY <5>1
      <4>3. QED
        BY <4>1, <4>2
    <3>8. g = F(g, k)
      <4> HIDE DEF Body
      <4>1. QED
        BY <3>7
    <3> HIDE DEF g, F
    <3>9. QED
      BY <2>4, <3>8
  <2>7. QED
    BY <2>5, <2>6
<1>2. PICK f : f = F(f, x) /\ Map!And(x, y) = f[x][y]
  <2> DEFINE f == CHOOSE h : h = F(h, x)
  <2>1. f = F(f, x)
    <3> HIDE DEF F
    <3>1. QED
      BY <1>1
  <2>2. Map!And(x, y) = f[x][y]
    BY DEF Map!And
  <2> HIDE DEF f, F
  <2>3. QED
    BY <2>1, <2>2
<1>3. \A i \in 0 .. x : \A j \in 0 .. y : f[i][j] = Body(f, i, j)
  <2> HIDE DEF Body
  <2>1. \A i \in 0 .. x : f[i] = [j \in 0 .. y |-> Body(f, i, j)]
    BY <1>2
  <2>2. QED
    BY <2>1
<1> DEFINE T == {i \in 0 .. x : \E j \in 0 .. y : f[i][j] \notin 0 .. j}
<1>4. T = {}
  <2>1. SUFFICES ASSUME T # {} PROVE FALSE
    OBVIOUS
  <2>2. T \in SUBSET Nat
    OBVIOUS
  <2> HIDE DEF T
  <2>3. PICK i \in T : \A k \in T : i <= k
    BY <2>1, <2>2, LeastNat
  <2>4. PICK j \in 0 .. y : i \in 0 .. x /\ f[i][j] \notin 0 .. j
    BY <2>3 DEF T
  <2>5. i # 0 /\ j # 0
    BY <1>3, <2>4
  <2>6. i \div 2 \in Nat /\ i \div 2 < i /\ j \div 2 \in Nat /\ j \div 2 < j
    BY <2>4, <2>5, Halves
  <2>7. i \div 2 \in 0 .. x /\ j \div 2 \in 0 .. y /\ ~(i <= i \div 2)
    BY <2>4, <2>6
  <2>8. f[i \div 2][j \div 2] \in 0 .. j \div 2
    BY <2>3, <2>7 DEF T
  <2>9. f[i][j] = 2 * f[i \div 2][j \div 2] + (i % 2) * (j % 2)
    BY <1>3, <2>4, <2>5
  <2>10. PICK v \in 0 .. j \div 2 : v = f[i \div 2][j \div 2]
    BY <2>8
  <2>11. PICK b \in 0 .. 1, c \in 0 .. 1, q \in Nat :
           b = i % 2 /\ c = j % 2 /\ q = j \div 2 /\ j = 2 * q + c
    BY <2>4, Halves
  <2> HIDE DEF Body, F
  <2>12. PICK w \in 0 .. c : w = b * c
    <3>1. (b = 0 \/ b = 1) /\ (c = 0 \/ c = 1)
      BY <2>11
    <3>2. QED
      BY <3>1
  <2>13. 2 * v + w \in 0 .. j
    BY <2>10, <2>11, <2>12
  <2>14. f[i][j] = 2 * v + w
    BY <2>9, <2>10, <2>11, <2>12
  <2>15. QED
    BY <2>4, <2>13, <2>14
<1>5. QED
  <2>1. x \in 0 .. x /\ y \in 0 .. y
    OBVIOUS
  <2> HIDE DEF F, Body
  <2>2. x \notin T
    BY <1>4
  <2> HIDE DEF T
  <2>3. ~(\E j \in 0 .. y : f[x][j] \notin 0 .. j)
    BY <2>1, <2>2 DEF T
  <2>4. f[x][y] \in 0 .. y
    BY <2>1, <2>3
  <2>5. QED
    BY <1>2, <2>4

LEMMA MapConstants ==
    /\ Null \notin HashNodes /\ Null \notin Keys /\ \A k \in Keys : Hash(k) \in Nat
    /\ IsFiniteSet(HashNodes) /\ IsFiniteSet(Keys)
    /\ Cardinality(Keys) <= Cardinality(HashNodes) /\ MaxBuckets \in Nat
    /\ \A S : Map!Cardinality(S) = Cardinality(S)
<1>1. \A S : Map!IsFiniteSet(S) <=> IsFiniteSet(S)
  BY DEF Map!IsFiniteSet, IsFiniteSet
<1>2. \A S : Map!Cardinality(S) = Cardinality(S)
  BY <1>1 DEF Map!Cardinality, Cardinality
<1>3. QED
  BY <1>1, <1>2, ObjectsAssumption DEF Map!HashMapAssumption

LEMMA SlotInRange ==
    ASSUME NEW k \in Keys, NEW n \in Nat \ {0}
    PROVE  Map!Slot(k, n) \in 1 .. n
<1>1. Hash(k) \in Nat /\ n - 1 \in Nat
  BY MapConstants
<1>2. Map!And(Hash(k), n - 1) \in 0 .. n - 1
  BY <1>1, AndBound
<1>3. QED
  BY <1>2 DEF Map!Slot

----------------------------------------------------------------------------
(* A sound map *)

BucketType == [elems : HashNodes \cup {Null}, size : Nat, hash : Nat, dirty : BOOLEAN]
NodeType == [key : Keys \cup {Null}, next : HashNodes \cup {Null}, prev : HashNodes \cup {Null}]
MapType == [buckets : Seq(BucketType), head : Nat, count : Nat, nodes : [HashNodes -> NodeType]]

Used(m, n) == m.nodes[n] # Map!Freed

\* A bucket is empty, or has one node, or two, of which the second has another hash.
BucketSound(m, b) ==
    LET bucket == m.buckets[b]
        one == m.nodes[bucket.elems]
        two == m.nodes[one.next]
    IN  \/ bucket.elems = Null /\ bucket.size = 0
        \/ /\ bucket.elems \in HashNodes /\ bucket.hash = Hash(one.key)
           /\ one.key \in Keys /\ Map!mapkey(m, one.key) = b /\ one.prev = Null
           /\ \/ bucket.size = 1 /\ one.next = Null
              \/ /\ bucket.size = 2 /\ bucket.dirty /\ one.next \in HashNodes
                 /\ two.key \in Keys /\ Hash(two.key) # Hash(one.key) /\ Map!mapkey(m, two.key) = b
                 /\ two.prev = bucket.elems /\ two.next = Null

\* A node is free, or in the bucket of its key.
NodeSound(m, n) ==
    LET bucket == m.buckets[Map!mapkey(m, m.nodes[n].key)]
    IN  \/ ~Used(m, n)
        \/ /\ m.nodes[n].key \in Keys /\ bucket.elems # Null
           /\ n = bucket.elems \/ (bucket.size = 2 /\ n = m.nodes[bucket.elems].next)

\* h is the first bucket in use, or 0.
IsFirst(buckets, h) ==
    /\ h \in 0 .. Len(buckets) /\ (h # 0 => buckets[h].elems # Null)
    /\ \A b \in 1 .. Len(buckets) : buckets[b].elems # Null => h # 0 /\ h <= b

UsedNodes(m) == {n \in HashNodes : Used(m, n)}

MapSound(m) ==
    /\ m \in MapType /\ Len(m.buckets) # 0
    /\ \A b \in 1 .. Len(m.buckets) : BucketSound(m, b)
    /\ \A n \in HashNodes : NodeSound(m, n)
    /\ IsFirst(m.buckets, m.head)
    /\ m.count = Cardinality(UsedNodes(m))

LEMMA FirstUsedIs ==
    ASSUME NEW buckets \in Seq(BucketType), NEW h, IsFirst(buckets, h)
    PROVE  h = Map!FirstUsed(buckets)
<1> DEFINE I == {b \in 1 .. Len(buckets) : buckets[b].elems # Null}
<1>1. Map!FirstUsed(buckets) = IF I # {} THEN Map!Min(I) ELSE 0
  BY DEF Map!FirstUsed, Map!SelectInSeq
<1>2. CASE h = 0
  BY <1>1, <1>2 DEF IsFirst
<1>3. CASE h # 0
  <2>1. h \in I /\ \A b \in I : h <= b
    BY <1>3 DEF IsFirst
  <2>2. I \subseteq Nat
    OBVIOUS
  <2> HIDE DEF I
  <2>3. Map!Min(I) \in I /\ \A b \in I : Map!Min(I) <= b
    BY <2>1 DEF Map!Min
  <2>4. h \in Nat /\ Map!Min(I) \in Nat /\ h <= Map!Min(I) /\ Map!Min(I) <= h
    BY <2>1, <2>2, <2>3
  <2>5. Map!Min(I) = h
    BY <2>4
  <2>6. QED
    BY <1>1, <2>1, <2>5
<1>4. QED
  BY <1>2, <1>3

LEMMA FirstExists ==
    ASSUME NEW buckets \in Seq(BucketType)
    PROVE  IsFirst(buckets, Map!FirstUsed(buckets))
<1> DEFINE I == {b \in 1 .. Len(buckets) : buckets[b].elems # Null}
<1>1. \E h : IsFirst(buckets, h)
  <2>1. CASE I = {}
    <3>1. IsFirst(buckets, 0)
      BY <2>1 DEF IsFirst
    <3>2. QED
      BY <3>1
  <2>2. CASE I # {}
    <3>1. I \in SUBSET Nat
      OBVIOUS
    <3>2. PICK h \in I : \A b \in I : h <= b
      <4> HIDE DEF I
      <4>1. QED
        BY <2>2, <3>1, LeastNat
    <3>3. IsFirst(buckets, h)
      BY <3>2 DEF IsFirst
    <3>4. QED
      BY <3>3
  <2>3. QED
    BY <2>1, <2>2
<1>2. QED
  BY <1>1, FirstUsedIs

\* The chains of a map in which no node is further than second in one.
LEMMA ShortChains ==
    ASSUME NEW m, m.nodes \in [HashNodes -> NodeType],
           \A p \in HashNodes : m.nodes[p].next # Null => m.nodes[m.nodes[p].next].next = Null
    PROVE  /\ Map!Chain(m, Null) = << >>
           /\ \A p \in HashNodes :
                Map!Chain(m, p) = IF m.nodes[p].next = Null THEN <<p>> ELSE <<p, m.nodes[p].next>>
<1> DEFINE N == HashNodes \cup {Null}
           F(h) == [p \in N |-> IF p = Null THEN << >> ELSE <<p>> \o h[m.nodes[p].next]]
           g == [p \in N |-> IF p = Null THEN << >>
                             ELSE IF m.nodes[p].next = Null THEN <<p>> ELSE <<p, m.nodes[p].next>>]
<1>1. \A p \in HashNodes : p # Null /\ m.nodes[p].next \in N
  BY MapConstants DEF NodeType
<1>2. g[Null] = << >> /\ \A p \in HashNodes :
        g[p] = IF m.nodes[p].next = Null THEN <<p>> ELSE <<p, m.nodes[p].next>>
  BY <1>1
<1>3. /\ \A p \in HashNodes : <<p>> \o << >> = <<p>>
      /\ \A p, q \in HashNodes : <<p>> \o <<q>> = <<p, q>>
  BY ShortConcat
<1>4. g = F(g)
  <2>1. ASSUME NEW p \in HashNodes PROVE g[p] = <<p>> \o g[m.nodes[p].next]
    <3> HIDE DEF g
    <3>1. CASE m.nodes[p].next = Null
      BY <1>2, <1>3, <3>1
    <3>2. CASE m.nodes[p].next # Null
      BY <1>1, <1>2, <1>3, <3>2
    <3>3. QED
      BY <3>1, <3>2
  <2>2. g = [p \in N |-> g[p]]
    OBVIOUS
  <2> HIDE DEF g
  <2>3. \A p \in N : g[p] = IF p = Null THEN << >> ELSE <<p>> \o g[m.nodes[p].next]
    BY <1>2, <2>1
  <2>4. QED
    BY <2>2, <2>3
<1>5. PICK f : f = F(f) /\ \A p : Map!Chain(m, p) = f[p]
  <2> DEFINE f == CHOOSE h : h = F(h)
  <2>1. \A p : Map!Chain(m, p) = f[p]
    BY DEF Map!Chain
  <2>2. f = F(f)
    <3> HIDE DEF F, g
    <3>1. QED
      BY <1>4
  <2> HIDE DEF f, F
  <2>3. QED
    BY <2>1, <2>2
<1>6. f[Null] = << >> /\ \A p \in HashNodes : f[p] = <<p>> \o f[m.nodes[p].next]
  BY <1>1, <1>5
<1>7. ASSUME NEW p \in HashNodes PROVE f[p] = g[p]
  <2> HIDE DEF g, F
  <2>1. CASE m.nodes[p].next = Null
    BY <1>2, <1>3, <1>6, <2>1
  <2>2. CASE m.nodes[p].next # Null
    <3>1. PICK q \in HashNodes : q = m.nodes[p].next /\ m.nodes[q].next = Null
      BY <1>1, <2>2
    <3>2. f[q] = <<q>>
      BY <1>3, <1>6, <3>1
    <3>3. f[p] = <<p, q>>
      BY <1>3, <1>6, <3>1, <3>2
    <3>4. QED
      BY <1>2, <2>2, <3>1, <3>3
  <2>3. QED
    BY <2>1, <2>2
<1>8. QED
  <2> HIDE DEF g, F
  <2>1. QED
    BY <1>2, <1>5, <1>6, <1>7

\* A node is used when it has a key; what follows it has another key, and
\* nothing follows that.
LEMMA SoundNodes ==
    ASSUME NEW m, MapSound(m)
    PROVE  /\ m.nodes \in [HashNodes -> NodeType] /\ m.buckets \in Seq(BucketType)
           /\ \A b \in 1 .. Len(m.buckets) :
                /\ m.buckets[b] \in BucketType /\ m.buckets[b].elems \in HashNodes \cup {Null}
                /\ BucketSound(m, b)
           /\ \A n \in HashNodes : Used(m, n) <=> m.nodes[n].key \in Keys
           /\ \A n \in HashNodes : ~Used(m, n) <=> m.nodes[n].key = Null
           /\ \A n \in HashNodes : ~Used(m, n) <=> m.nodes[n] = Map!Freed
           /\ \A k \in Keys : Map!mapkey(m, k) \in 1 .. Len(m.buckets)
           /\ \A n \in HashNodes :
                m.nodes[n].next # Null => m.nodes[m.nodes[n].next].next = Null
<1>1. m.nodes \in [HashNodes -> NodeType] /\ m.buckets \in Seq(BucketType) /\ Len(m.buckets) # 0
  BY DEF MapSound, MapType
<1>2. \A k \in Keys : Map!mapkey(m, k) \in 1 .. Len(m.buckets)
  <2>1. Len(m.buckets) \in Nat \ {0}
    BY <1>1
  <2>2. QED
    BY <2>1, SlotInRange DEF Map!mapkey
<1>3. ASSUME NEW n \in HashNodes
      PROVE  /\ Used(m, n) <=> m.nodes[n].key \in Keys
             /\ ~Used(m, n) <=> m.nodes[n].key = Null
             /\ ~Used(m, n) <=> m.nodes[n] = Map!Freed
  BY MapConstants DEF MapSound, NodeSound, Used, Map!Freed
<1>4. ASSUME NEW n \in HashNodes, m.nodes[n].next # Null
      PROVE  m.nodes[m.nodes[n].next].next = Null
  <2>1. Used(m, n)
    BY <1>4 DEF Used, Map!Freed
  <2>2. PICK b \in 1 .. Len(m.buckets) :
          b = Map!mapkey(m, m.nodes[n].key) /\ BucketSound(m, b)
    BY <1>2, <1>3, <2>1 DEF MapSound
  <2>3. /\ m.buckets[b].elems # Null
        /\ \/ n = m.buckets[b].elems
           \/ m.buckets[b].size = 2 /\ n = m.nodes[m.buckets[b].elems].next
    BY <2>1, <2>2 DEF MapSound, NodeSound
  <2>4. PICK e : e = m.buckets[b].elems
    OBVIOUS
  <2>5. CASE n = e
    BY <1>4, <2>2, <2>3, <2>4, <2>5 DEF BucketSound
  <2>6. CASE n = m.nodes[e].next /\ m.buckets[b].size = 2
    <3>1. m.buckets[b].size = 2 /\ m.nodes[m.nodes[e].next].next = Null
      <4>1. BucketSound(m, b) /\ m.buckets[b].elems # Null
        BY <2>2, <2>3
      <4>2. m.buckets[b].size = 2
        BY <2>6
      <4>3. m.nodes[m.nodes[m.buckets[b].elems].next].next = Null
        BY <4>1, <4>2 DEF BucketSound
      <4>4. QED
        BY <2>4, <4>2, <4>3
    <3>2. QED
      BY <1>4, <2>6, <3>1
  <2>7. QED
    BY <2>3, <2>4, <2>5, <2>6
<1>5. ASSUME NEW b \in 1 .. Len(m.buckets)
      PROVE  /\ m.buckets[b] \in BucketType /\ m.buckets[b].elems \in HashNodes \cup {Null}
             /\ BucketSound(m, b)
  <2>1. m.buckets[b] \in BucketType
    BY <1>1, ElementOfSeq
  <2>2. QED
    BY <2>1 DEF BucketType, MapSound
<1>6. QED
  BY <1>1, <1>2, <1>3, <1>4, <1>5

LEMMA InBucketIs ==
    ASSUME NEW m, MapSound(m), NEW b \in 1 .. Len(m.buckets)
    PROVE  LET e == m.buckets[b].elems IN
           Map!InBucket(m, b) =
              IF e = Null THEN << >>
              ELSE IF m.nodes[e].next = Null THEN <<e>> ELSE <<e, m.nodes[e].next>>
<1>1. m.buckets[b].elems \in HashNodes \cup {Null}
  BY SoundNodes
<1>2. QED
  BY <1>1, SoundNodes, ShortChains DEF Map!InBucket

\* The nodes with the key k are the first or the second of its bucket.
LEMMA KeyIsNear ==
    ASSUME NEW m, MapSound(m), NEW n \in HashNodes, m.nodes[n].key \in Keys
    PROVE  LET b == Map!mapkey(m, m.nodes[n].key)
               e == m.buckets[b].elems
           IN  /\ b \in 1 .. Len(m.buckets) /\ BucketSound(m, b) /\ e \in HashNodes
               /\ n = e \/ (m.buckets[b].size = 2 /\ n = m.nodes[e].next /\ n # e)
<1>1. PICK b \in 1 .. Len(m.buckets) : b = Map!mapkey(m, m.nodes[n].key) /\ BucketSound(m, b)
  BY SoundNodes DEF MapSound
<1>2. Used(m, n) /\ NodeSound(m, n)
  BY SoundNodes DEF MapSound
<1>3. m.buckets[b].elems \in HashNodes \cup {Null}
  BY SoundNodes
<1>4. QED
  BY <1>1, <1>2, <1>3 DEF NodeSound, BucketSound

LEMMA KeyIsUnique ==
    ASSUME NEW m, MapSound(m), NEW n \in HashNodes, NEW p \in HashNodes,
           m.nodes[n].key \in Keys, m.nodes[n].key = m.nodes[p].key
    PROVE  n = p
<1>1. PICK b \in 1 .. Len(m.buckets) : b = Map!mapkey(m, m.nodes[n].key) /\ BucketSound(m, b)
  BY KeyIsNear
<1>2. \A q \in {n, p} : q = m.buckets[b].elems
         \/ (m.buckets[b].size = 2 /\ q = m.nodes[m.buckets[b].elems].next)
  BY <1>1, KeyIsNear
<1>3. PICK e, o : e = m.buckets[b].elems /\ o = m.nodes[e].next
  OBVIOUS
<1>4. CASE n = e /\ p = o /\ m.buckets[b].size = 2
  BY <1>1, <1>3, <1>4, MapConstants DEF BucketSound
<1>5. CASE n = o /\ p = e /\ m.buckets[b].size = 2
  BY <1>1, <1>3, <1>5, MapConstants DEF BucketSound
<1>6. QED
  BY <1>2, <1>3, <1>4, <1>5

\* Where the key is in its bucket.
LEMMA PlaceIs ==
    ASSUME NEW m, MapSound(m), NEW b \in 1 .. Len(m.buckets), NEW k \in Keys
    PROVE  LET e == m.buckets[b].elems
               o == m.nodes[e].next
           IN  Map!Place(m, b, k) = IF e # Null /\ m.nodes[e].key = k THEN 1
                                    ELSE IF e # Null /\ o # Null /\ m.nodes[o].key = k THEN 2
                                    ELSE 0
<1>1. PICK e, o, c : /\ e = m.buckets[b].elems /\ o = m.nodes[e].next
                     /\ c = Map!InBucket(m, b)
  OBVIOUS
<1>2. c = IF e = Null THEN << >> ELSE IF o = Null THEN <<e>> ELSE <<e, o>>
  BY <1>1, InBucketIs
<1> DEFINE I == {i \in 1 .. Len(c) : m.nodes[c[i]].key = k}
<1>3. Map!Place(m, b, k) = IF I # {} THEN Map!Min(I) ELSE 0
  BY <1>1 DEF Map!Place, Map!SelectInSeq
<1>4. \A i \in Nat : Map!Min({i}) = i
  BY DEF Map!Min
<1>5. CASE e = Null
  <2>1. Len(c) = 0
    BY <1>2, <1>5
  <2>2. I = {}
    BY <2>1
  <2> HIDE DEF I
  <2>3. QED
    BY <1>1, <1>3, <1>5, <2>2
<1>6. CASE e # Null /\ m.nodes[e].key = k
  <2>1. Len(c) \in Nat /\ Len(c) # 0 /\ c[1] = e
    BY <1>2, <1>6
  <2>2. 1 \in I /\ I \subseteq Nat /\ \A i \in I : 1 <= i
    BY <1>6, <2>1
  <2> HIDE DEF I
  <2>3. Map!Min(I) \in I /\ \A i \in I : Map!Min(I) <= i
    BY <2>2 DEF Map!Min
  <2>4. Map!Min(I) \in Nat /\ Map!Min(I) <= 1 /\ 1 <= Map!Min(I)
    BY <2>2, <2>3
  <2>5. Map!Min(I) = 1
    BY <2>4
  <2>6. QED
    BY <1>1, <1>3, <1>6, <2>2, <2>5
<1>7. CASE e # Null /\ m.nodes[e].key # k
  <2>1. CASE o = Null
    <3>1. Len(c) = 1 /\ c[1] = e
      BY <1>2, <1>7, <2>1
    <3>2. I = {}
      BY <1>7, <3>1
    <3> HIDE DEF I
    <3>3. QED
      BY <1>1, <1>3, <1>7, <2>1, <3>2
  <2>2. CASE o # Null
    <3>1. Len(c) = 2 /\ c[1] = e /\ c[2] = o
      BY <1>2, <1>7, <2>2
    <3>2. \A i \in 1 .. 2 : i = 1 \/ i = 2
      OBVIOUS
    <3>3. I = IF m.nodes[o].key = k THEN {2} ELSE {}
      BY <1>7, <3>1, <3>2
    <3> HIDE DEF I
    <3>4. QED
      BY <1>1, <1>3, <1>4, <1>7, <2>2, <3>3
  <2>3. QED
    BY <2>1, <2>2
<1>8. QED
  BY <1>5, <1>6, <1>7

\* find() finds the node with the key, if there is one.
LEMMA FindIs ==
    ASSUME NEW m, MapSound(m), NEW k \in Keys
    PROVE  /\ Map!find(m, k) \in HashNodes \cup {Null}
           /\ Map!find(m, k) # Null => m.nodes[Map!find(m, k)].key = k
           /\ Map!find(m, k) = Null => \A n \in HashNodes : m.nodes[n].key # k
           /\ Map!find(m, k) = Null <=> Map!Place(m, Map!mapkey(m, k), k) = 0
<1>1. PICK b, e, o, f :
        /\ b \in 1 .. Len(m.buckets) /\ b = Map!mapkey(m, k)
        /\ e = m.buckets[b].elems /\ o = m.nodes[e].next
        /\ f = Map!find(m, k)
  BY SoundNodes
<1>2. PICK i \in {0, 1, 2} : /\ i = Map!Place(m, b, k)
        /\ i = IF e # Null /\ m.nodes[e].key = k THEN 1
               ELSE IF e # Null /\ o # Null /\ m.nodes[o].key = k THEN 2 ELSE 0
  BY <1>1, PlaceIs
<1>3. e \in HashNodes \cup {Null} /\ (e # Null => o \in HashNodes \cup {Null})
  BY <1>1, SoundNodes DEF NodeType
<1>4. m.buckets[b].size = 0 <=> e = Null
  <2>1. BucketSound(m, b)
    BY <1>1, SoundNodes
  <2>2. e = m.buckets[b].elems
    BY <1>1
  <2>3. QED
    BY <2>1, <2>2, MapConstants DEF BucketSound
<1>5. f = IF i = 0 THEN Null ELSE IF i = 1 THEN e ELSE o
  <2>1. Map!InBucket(m, b) = IF e = Null THEN << >> ELSE IF o = Null THEN <<e>> ELSE <<e, o>>
    BY <1>1, InBucketIs
  <2>2. f = IF m.buckets[b].size = 0 \/ i = 0 THEN Null ELSE Map!InBucket(m, b)[i]
    BY <1>1, <1>2 DEF Map!find
  <2>3. QED
    BY <1>2, <1>4, <2>1, <2>2
<1>6. f \in HashNodes \cup {Null} /\ (f # Null => m.nodes[f].key = k) /\ (f = Null <=> i = 0)
  BY <1>2, <1>3, <1>5
<1>7. ASSUME NEW n \in HashNodes, m.nodes[n].key = k PROVE i # 0
  <2>1. /\ e \in HashNodes
        /\ n = e \/ (m.buckets[b].size = 2 /\ n = o)
    BY <1>1, <1>7, KeyIsNear
  <2>2. QED
    BY <1>2, <1>7, <2>1, MapConstants
<1>8. QED
  BY <1>1, <1>2, <1>6, <1>7

LEMMA KeysAre ==
    ASSUME NEW m, MapSound(m)
    PROVE  /\ Map!KeysIn(m) = {k \in Keys : \E n \in HashNodes : m.nodes[n].key = k}
           /\ Map!KeysIn(m) \subseteq Keys
<1>1. Map!KeysIn(m) = {m.nodes[n].key : n \in {i \in HashNodes : Used(m, i)}}
  BY DEF Map!KeysIn, Used
<1>2. QED
  BY <1>1, SoundNodes, MapConstants

\* A key that is not in the map leaves a node free.
LEMMA NodeIsFree ==
    ASSUME NEW m, MapSound(m), NEW k \in Keys, \A n \in HashNodes : m.nodes[n].key # k
    PROVE  \E n \in HashNodes : m.nodes[n] = Map!Freed
<1>1. SUFFICES ASSUME \A n \in HashNodes : m.nodes[n].key \in Keys \ {k} PROVE FALSE
  BY SoundNodes
<1> DEFINE f == [n \in HashNodes |-> m.nodes[n].key]
<1>2. f \in Injection(HashNodes, Keys \ {k})
  <2>1. f \in [HashNodes -> Keys \ {k}]
    BY <1>1
  <2>2. \A n, p \in HashNodes : f[n] = f[p] => n = p
    BY <1>1, KeyIsUnique
  <2> HIDE DEF f
  <2>3. QED
    BY <2>1, <2>2 DEF Injection, IsInjective
<1>3. IsFiniteSet(Keys \ {k}) /\ Cardinality(Keys \ {k}) = Cardinality(Keys) - 1
  BY MapConstants, FS_RemoveElement
<1>4. Cardinality(HashNodes) <= Cardinality(Keys \ {k})
  <2> HIDE DEF f
  <2>1. QED
    BY <1>2, <1>3, FS_Injection
<1>5. QED
  BY <1>3, <1>4, MapConstants, FS_CardinalityType

----------------------------------------------------------------------------
(* Inserting a key *)

\* A change of one bucket and its nodes leaves the others as they were.
LEMMA OtherBuckets ==
    ASSUME NEW m, MapSound(m), NEW d, Len(d.buckets) = Len(m.buckets),
           NEW b \in 1 .. Len(m.buckets),
           \A c \in 1 .. Len(m.buckets) : c # b => d.buckets[c] = m.buckets[c],
           \A n \in HashNodes : \/ d.nodes[n] = m.nodes[n] \/ m.nodes[n].key = Null
                                \/ Map!mapkey(m, m.nodes[n].key) = b
    PROVE  /\ \A k \in Keys : Map!mapkey(d, k) = Map!mapkey(m, k)
           /\ \A c \in 1 .. Len(m.buckets) : c # b => BucketSound(d, c)
           /\ \A n \in HashNodes :
                m.nodes[n].key \in Keys /\ Map!mapkey(m, m.nodes[n].key) # b => NodeSound(d, n)
<1>1. \A k \in Keys : Map!mapkey(d, k) = Map!mapkey(m, k)
  BY DEF Map!mapkey
<1>2. ASSUME NEW c \in 1 .. Len(m.buckets), c # b PROVE BucketSound(d, c)
  <2>1. BucketSound(m, c) /\ d.buckets[c] = m.buckets[c]
    BY <1>2, SoundNodes
  <2>2. PICK e, o : e = m.buckets[c].elems /\ o = m.nodes[e].next
    OBVIOUS
  <2>3. CASE e = Null
    BY <2>1, <2>2, <2>3, MapConstants DEF BucketSound
  <2>4. CASE e # Null /\ m.buckets[c].size = 1
    <3>1. e \in HashNodes /\ m.nodes[e].key \in Keys /\ Map!mapkey(m, m.nodes[e].key) = c
      BY <2>1, <2>2, <2>4 DEF BucketSound
    <3>2. d.nodes[e] = m.nodes[e]
      BY <1>2, <3>1, MapConstants
    <3>3. QED
      BY <1>1, <2>1, <2>2, <2>4, <3>1, <3>2 DEF BucketSound
  <2>5. CASE e # Null /\ m.buckets[c].size # 1
    <3>1. /\ e \in HashNodes /\ m.nodes[e].key \in Keys /\ Map!mapkey(m, m.nodes[e].key) = c
          /\ o \in HashNodes /\ m.nodes[o].key \in Keys /\ Map!mapkey(m, m.nodes[o].key) = c
      BY <2>1, <2>2, <2>5 DEF BucketSound
    <3>2. d.nodes[e] = m.nodes[e] /\ d.nodes[o] = m.nodes[o]
      BY <1>2, <3>1, MapConstants
    <3>3. QED
      BY <1>1, <2>1, <2>2, <2>5, <3>1, <3>2 DEF BucketSound
  <2>6. QED
    BY <2>3, <2>4, <2>5
<1>3. ASSUME NEW n \in HashNodes, m.nodes[n].key \in Keys, Map!mapkey(m, m.nodes[n].key) # b
      PROVE  NodeSound(d, n)
  <2>1. d.nodes[n] = m.nodes[n]
    BY <1>3, MapConstants
  <2>2. PICK c, e :
          /\ c \in 1 .. Len(m.buckets) /\ c = Map!mapkey(m, m.nodes[n].key)
          /\ c # b /\ e = m.buckets[c].elems
    BY <1>3, SoundNodes
  <2>3. /\ e \in HashNodes /\ BucketSound(m, c)
        /\ n = e \/ (m.buckets[c].size = 2 /\ n = m.nodes[e].next)
    BY <1>3, <2>2, KeyIsNear
  <2>4. m.nodes[e].key \in Keys /\ Map!mapkey(m, m.nodes[e].key) = c
    BY <2>2, <2>3, MapConstants DEF BucketSound
  <2>5. d.nodes[e] = m.nodes[e] /\ d.buckets[c] = m.buckets[c]
    BY <2>2, <2>3, <2>4, MapConstants
  <2>6. Map!mapkey(d, d.nodes[n].key) = c
    BY <1>1, <1>3, <2>1, <2>2
  <2>7. QED
    BY <1>3, <2>1, <2>2, <2>3, <2>5, <2>6, MapConstants DEF NodeSound
<1>4. QED
  BY <1>1, <1>2, <1>3

\* m_head is 0 only when no node is used.
LEMMA HeadOfEmpty ==
    ASSUME NEW m, MapSound(m)
    PROVE  /\ m.count \in Nat /\ IsFiniteSet(UsedNodes(m)) /\ m.head \in 0 .. Len(m.buckets)
           /\ m.count = 0 <=> m.head = 0
           /\ m.count = 0 <=> \A b \in 1 .. Len(m.buckets) : m.buckets[b].elems = Null
           /\ m.count = 0 <=> UsedNodes(m) = {}
<1>1. IsFiniteSet(UsedNodes(m))
  BY MapConstants, FS_Subset DEF UsedNodes
<1>2. m.count \in Nat /\ (m.count = 0 <=> UsedNodes(m) = {})
  BY <1>1, FS_CardinalityType, FS_EmptySet DEF MapSound
<1>3. m.head \in 0 .. Len(m.buckets)
      /\ (m.head = 0 <=> \A b \in 1 .. Len(m.buckets) : m.buckets[b].elems = Null)
  <2>1. IsFirst(m.buckets, m.head)
    BY DEF MapSound
  <2>2. Len(m.buckets) \in Nat
    BY SoundNodes
  <2>3. QED
    BY <2>1, <2>2 DEF IsFirst
<1>4. ASSUME NEW n \in UsedNodes(m)
      PROVE  \E b \in 1 .. Len(m.buckets) : m.buckets[b].elems # Null
  <2>1. n \in HashNodes /\ m.nodes[n].key \in Keys
    BY SoundNodes DEF UsedNodes
  <2>2. QED
    BY <2>1, KeyIsNear, MapConstants
<1>5. ASSUME NEW b \in 1 .. Len(m.buckets), m.buckets[b].elems # Null
      PROVE  m.buckets[b].elems \in UsedNodes(m)
  <2>1. BucketSound(m, b)
    BY SoundNodes
  <2>2. m.buckets[b].elems \in HashNodes /\ m.nodes[m.buckets[b].elems].key \in Keys
    BY <1>5, <2>1 DEF BucketSound
  <2>3. QED
    BY <2>2, SoundNodes DEF UsedNodes
<1>6. QED
  BY <1>1, <1>2, <1>3, <1>4, <1>5

\* d is m with the key k in p, alone in the bucket b.
PutFirst(m, k, p, b, d) ==
    /\ d.buckets = [m.buckets EXCEPT ![b] =
                      [elems |-> p, size |-> 1, hash |-> Hash(k), dirty |-> m.buckets[b].dirty]]
    /\ d.nodes = [m.nodes EXCEPT ![p] = [key |-> k, next |-> Null, prev |-> Null]]
    /\ d.head = IF m.count = 0 \/ m.head > b THEN b ELSE m.head
    /\ d.count = m.count + 1

LEMMA InsertFirst ==
    ASSUME NEW m, MapSound(m), NEW k \in Keys, \A n \in HashNodes : m.nodes[n].key # k,
           NEW p \in HashNodes, m.nodes[p] = Map!Freed,
           NEW b \in 1 .. Len(m.buckets), b = Map!mapkey(m, k), m.buckets[b].elems = Null,
           NEW d \in MapType, PutFirst(m, k, p, b, d)
    PROVE  MapSound(d) /\ Map!KeysIn(d) = Map!KeysIn(m) \cup {k}
<1>1. m.nodes \in [HashNodes -> NodeType] /\ m.buckets \in Seq(BucketType)
      /\ Len(m.buckets) \in Nat \ {0} /\ Len(d.buckets) = Len(m.buckets)
  BY SoundNodes DEF MapSound, PutFirst
<1>2. \A n \in HashNodes : n # p => d.nodes[n] = m.nodes[n]
  BY <1>1 DEF PutFirst
<1>3. d.nodes[p] = [key |-> k, next |-> Null, prev |-> Null]
  BY <1>1 DEF PutFirst
<1>4. \A c \in 1 .. Len(m.buckets) : c # b => d.buckets[c] = m.buckets[c]
  BY <1>1 DEF PutFirst
<1>5. d.buckets[b] = [elems |-> p, size |-> 1, hash |-> Hash(k), dirty |-> m.buckets[b].dirty]
  BY <1>1 DEF PutFirst
<1>6. /\ \A j \in Keys : Map!mapkey(d, j) = Map!mapkey(m, j)
      /\ \A c \in 1 .. Len(m.buckets) : c # b => BucketSound(d, c)
      /\ \A n \in HashNodes :
           m.nodes[n].key \in Keys /\ Map!mapkey(m, m.nodes[n].key) # b => NodeSound(d, n)
  <2>1. \A n \in HashNodes : \/ d.nodes[n] = m.nodes[n] \/ m.nodes[n].key = Null
                             \/ Map!mapkey(m, m.nodes[n].key) = b
    BY <1>2 DEF Map!Freed
  <2>2. QED
    BY <1>1, <1>4, <2>1, OtherBuckets, Zenon
<1>7. BucketSound(d, b)
  <2>1. Map!mapkey(d, k) = b
    BY <1>6
  <2>2. PICK B, N : B = d.buckets[b] /\ N = d.nodes[p]
    OBVIOUS
  <2>3. B.elems = p /\ B.hash = Hash(k) /\ B.size = 1 /\ N.key = k /\ N.next = Null /\ N.prev = Null
    BY <1>3, <1>5, <2>2
  <2>4. QED
    BY <2>1, <2>2, <2>3 DEF BucketSound
<1>8. ASSUME NEW n \in HashNodes PROVE NodeSound(d, n)
  <2>1. CASE n = p
    <3>1. d.nodes[n].key = k /\ Map!mapkey(d, k) = b
      BY <1>3, <1>6, <2>1
    <3>2. QED
      BY <1>5, <2>1, <3>1, MapConstants DEF NodeSound
  <2>2. CASE n # p /\ m.nodes[n].key = Null
    <3>1. d.nodes[n] = Map!Freed
      BY <1>2, <2>2, SoundNodes
    <3>2. QED
      BY <3>1 DEF NodeSound, Used
  <2>3. CASE n # p /\ m.nodes[n].key \in Keys
    <3>1. Map!mapkey(m, m.nodes[n].key) # b
      BY <2>3, KeyIsNear, MapConstants
    <3>2. QED
      BY <1>6, <2>3, <3>1
  <2>4. QED
    BY <2>1, <2>2, <2>3, SoundNodes
<1>9. IsFirst(d.buckets, d.head)
  <2>1. \A c \in 1 .. Len(m.buckets) :
          d.buckets[c].elems # Null <=> (c = b \/ m.buckets[c].elems # Null)
    BY <1>4, <1>5, MapConstants
  <2>2. IsFirst(m.buckets, m.head) /\ m.count \in Nat /\ (m.count = 0 <=> m.head = 0)
    BY HeadOfEmpty DEF MapSound
  <2>3. QED
    BY <1>1, <2>1, <2>2 DEF IsFirst, PutFirst
<1>10. UsedNodes(d) = UsedNodes(m) \cup {p} /\ p \notin UsedNodes(m)
  <2>1. Used(d, p) /\ ~Used(m, p)
    BY <1>3, MapConstants DEF Used, Map!Freed
  <2>2. QED
    BY <1>2, <2>1 DEF UsedNodes, Used
<1>11. d.count = Cardinality(UsedNodes(d))
  <2>1. IsFiniteSet(UsedNodes(m)) /\ m.count = Cardinality(UsedNodes(m))
    BY HeadOfEmpty DEF MapSound
  <2>2. Cardinality(UsedNodes(m) \cup {p}) = m.count + 1
    BY <1>10, <2>1, FS_AddElement
  <2>3. QED
    BY <1>10, <2>2 DEF PutFirst
<1>12. MapSound(d)
  BY <1>1, <1>6, <1>7, <1>8, <1>9, <1>11 DEF MapSound
<1>13. Map!KeysIn(d) = Map!KeysIn(m) \cup {k}
  <2>1. \A n \in HashNodes : d.nodes[n].key = IF n = p THEN k ELSE m.nodes[n].key
    BY <1>2, <1>3
  <2>2. m.nodes[p].key \notin Keys
    BY MapConstants DEF Map!Freed
  <2>3. {j \in Keys : \E n \in HashNodes : d.nodes[n].key = j}
          = {j \in Keys : \E n \in HashNodes : m.nodes[n].key = j} \cup {k}
    BY <2>1, <2>2
  <2>4. QED
    BY <1>12, <2>3, KeysAre
<1>14. QED
  BY <1>12, <1>13

\* d is m with the key k in p, behind the only node e of the bucket b.
PutBehind(m, k, p, b, e, d) ==
    /\ Len(d.buckets) = Len(m.buckets)
    /\ d.buckets[b] = [elems |-> e, size |-> 2, hash |-> m.buckets[b].hash, dirty |-> TRUE]
    /\ \A c \in 1 .. Len(m.buckets) : c # b => d.buckets[c] = m.buckets[c]
    /\ d.nodes[p] = [key |-> k, next |-> Null, prev |-> e]
    /\ d.nodes[e] = [key |-> m.nodes[e].key, next |-> p, prev |-> m.nodes[e].prev]
    /\ \A n \in HashNodes : n # p /\ n # e => d.nodes[n] = m.nodes[n]
    /\ d.head = m.head
    /\ d.count = m.count + 1

LEMMA InsertSecond ==
    ASSUME NEW m, MapSound(m), NEW k \in Keys, \A n \in HashNodes : m.nodes[n].key # k,
           NEW p \in HashNodes, m.nodes[p] = Map!Freed,
           NEW b \in 1 .. Len(m.buckets), b = Map!mapkey(m, k),
           NEW e \in HashNodes, e = m.buckets[b].elems, m.nodes[e].next = Null,
           Hash(m.nodes[e].key) # Hash(k), NEW d \in MapType, PutBehind(m, k, p, b, e, d)
    PROVE  MapSound(d) /\ Map!KeysIn(d) = Map!KeysIn(m) \cup {k}
<1>1. m.nodes \in [HashNodes -> NodeType] /\ m.buckets \in Seq(BucketType)
      /\ Len(m.buckets) \in Nat \ {0} /\ Len(d.buckets) = Len(m.buckets)
  BY SoundNodes DEF MapSound, PutBehind
<1>2. /\ BucketSound(m, b) /\ Map!mapkey(m, m.nodes[e].key) = b /\ m.nodes[e].key \in Keys
      /\ m.nodes[e].prev = Null /\ m.buckets[b].hash = Hash(m.nodes[e].key)
      /\ p # e /\ m.nodes[e].key # k
  <2>1. BucketSound(m, b)
    BY SoundNodes
  <2>2. e # Null
    BY MapConstants
  <2>3. /\ Map!mapkey(m, m.nodes[e].key) = b /\ m.nodes[e].key \in Keys
        /\ m.nodes[e].prev = Null /\ m.buckets[b].hash = Hash(m.nodes[e].key)
    BY <2>1, <2>2 DEF BucketSound
  <2>4. m.nodes[p].key = Null
    BY DEF Map!Freed
  <2>5. QED
    BY <2>1, <2>3, <2>4, MapConstants
<1>3. \A n \in HashNodes : n # p /\ n # e => d.nodes[n] = m.nodes[n]
  BY DEF PutBehind
<1>4. /\ d.nodes[p] = [key |-> k, next |-> Null, prev |-> e]
      /\ d.nodes[e] = [key |-> m.nodes[e].key, next |-> p, prev |-> Null]
  BY <1>2 DEF PutBehind
<1>5. \A c \in 1 .. Len(m.buckets) : c # b => d.buckets[c] = m.buckets[c]
  BY DEF PutBehind
<1>6. d.buckets[b] = [elems |-> e, size |-> 2, hash |-> Hash(m.nodes[e].key), dirty |-> TRUE]
  BY <1>2 DEF PutBehind
<1>7. /\ \A j \in Keys : Map!mapkey(d, j) = Map!mapkey(m, j)
      /\ \A c \in 1 .. Len(m.buckets) : c # b => BucketSound(d, c)
      /\ \A n \in HashNodes :
           m.nodes[n].key \in Keys /\ Map!mapkey(m, m.nodes[n].key) # b => NodeSound(d, n)
  <2>1. \A n \in HashNodes : \/ d.nodes[n] = m.nodes[n] \/ m.nodes[n].key = Null
                             \/ Map!mapkey(m, m.nodes[n].key) = b
    BY <1>2, <1>3 DEF Map!Freed
  <2>2. QED
    BY <1>1, <1>5, <2>1, OtherBuckets, Zenon
<1>8. BucketSound(d, b)
  <2>1. Map!mapkey(d, k) = b /\ Map!mapkey(d, m.nodes[e].key) = b
    BY <1>2, <1>7
  <2>2. PICK B, N, O : B = d.buckets[b] /\ N = d.nodes[e] /\ O = d.nodes[p]
    OBVIOUS
  <2>3. /\ B.elems = e /\ B.hash = Hash(m.nodes[e].key) /\ B.size = 2 /\ B.dirty
        /\ N.key = m.nodes[e].key /\ N.next = p /\ N.prev = Null
        /\ O.key = k /\ O.next = Null /\ O.prev = e
    BY <1>4, <1>6, <2>2
  <2>4. QED
    BY <1>2, <2>1, <2>2, <2>3 DEF BucketSound
<1>9. ASSUME NEW n \in HashNodes PROVE NodeSound(d, n)
  <2>1. CASE n = p \/ n = e
    <3>1. PICK j \in Keys : d.nodes[n].key = j /\ Map!mapkey(d, j) = b
      BY <1>2, <1>4, <1>7, <2>1
    <3>2. n = d.buckets[b].elems \/ (d.buckets[b].size = 2 /\ n = d.nodes[d.buckets[b].elems].next)
      BY <1>4, <1>6, <2>1
    <3>3. d.buckets[b].elems # Null
      BY <1>6, MapConstants
    <3>4. QED
      BY <3>1, <3>2, <3>3 DEF NodeSound
  <2>2. CASE n # p /\ n # e /\ m.nodes[n].key = Null
    <3>1. d.nodes[n] = Map!Freed
      BY <1>3, <2>2, SoundNodes
    <3>2. QED
      BY <3>1 DEF NodeSound, Used
  <2>3. CASE n # p /\ n # e /\ m.nodes[n].key \in Keys
    <3>1. ASSUME Map!mapkey(m, m.nodes[n].key) = b PROVE n = e \/ n = m.nodes[e].next
      <4>1. PICK f : f = m.buckets[Map!mapkey(m, m.nodes[n].key)].elems
        OBVIOUS
      <4>2. n = f \/ n = m.nodes[f].next
        BY <2>3, <4>1, KeyIsNear
      <4>3. QED
        BY <3>1, <4>1, <4>2
    <3>2. Map!mapkey(m, m.nodes[n].key) # b
      BY <2>3, <3>1, MapConstants
    <3>3. QED
      BY <1>7, <2>3, <3>2
  <2>4. QED
    BY <2>1, <2>2, <2>3, SoundNodes
<1>10. IsFirst(d.buckets, d.head)
  <2>1. \A c \in 1 .. Len(m.buckets) : d.buckets[c].elems = m.buckets[c].elems
    BY <1>5, <1>6
  <2>2. IsFirst(m.buckets, m.head)
    BY DEF MapSound
  <2>3. QED
    BY <1>1, <2>1, <2>2 DEF IsFirst, PutBehind
<1>11. UsedNodes(d) = UsedNodes(m) \cup {p} /\ p \notin UsedNodes(m)
  <2>1. Used(d, p) /\ ~Used(m, p) /\ Used(d, e) /\ Used(m, e)
    BY <1>2, <1>4, MapConstants DEF Used, Map!Freed
  <2>2. QED
    BY <1>3, <2>1 DEF UsedNodes, Used
<1>12. d.count = Cardinality(UsedNodes(d))
  <2>1. IsFiniteSet(UsedNodes(m)) /\ m.count = Cardinality(UsedNodes(m))
    BY HeadOfEmpty DEF MapSound
  <2>2. Cardinality(UsedNodes(m) \cup {p}) = m.count + 1
    BY <1>11, <2>1, FS_AddElement
  <2>3. QED
    BY <1>11, <2>2 DEF PutBehind
<1>13. MapSound(d)
  BY <1>1, <1>7, <1>8, <1>9, <1>10, <1>12 DEF MapSound
<1>14. Map!KeysIn(d) = Map!KeysIn(m) \cup {k}
  <2>1. \A n \in HashNodes : d.nodes[n].key = IF n = p THEN k ELSE m.nodes[n].key
    BY <1>3, <1>4
  <2>2. m.nodes[p].key \notin Keys
    BY MapConstants DEF Map!Freed
  <2>3. {j \in Keys : \E n \in HashNodes : d.nodes[n].key = j}
          = {j \in Keys : \E n \in HashNodes : m.nodes[n].key = j} \cup {k}
    BY <2>1, <2>2
  <2>4. QED
    BY <1>13, <2>3, KeysAre
<1>15. QED
  BY <1>13, <1>14

\* A key goes behind the first node of its bucket, if that is the only one.
LEMMA BehindIs ==
    ASSUME NEW m, MapSound(m), NEW x, NEW e \in HashNodes, m.nodes[e].next = Null
    PROVE  Map!Behind(m, e, x) = e
<1> DEFINE F(h) == [p \in HashNodes |->
                      IF m.nodes[p].next # Null /\ Map!hkey(m, p) = x THEN h[m.nodes[p].next] ELSE p]
           f == CHOOSE h : h = F(h)
           g == [p \in HashNodes |->
                   IF m.nodes[p].next # Null /\ Map!hkey(m, p) = x THEN m.nodes[p].next ELSE p]
<1>1. /\ Null \notin HashNodes /\ \A p \in HashNodes : m.nodes[p].next \in HashNodes \cup {Null}
      /\ \A p \in HashNodes : m.nodes[p].next # Null => m.nodes[m.nodes[p].next].next = Null
  BY SoundNodes, MapConstants DEF NodeType
<1>2. g = F(g)
  <2>1. ASSUME NEW p \in HashNodes, m.nodes[p].next # Null
        PROVE  g[m.nodes[p].next] = m.nodes[p].next
    BY <1>1, <2>1
  <2> HIDE DEF g
  <2>2. F(g) = [p \in HashNodes |->
                  IF m.nodes[p].next # Null /\ Map!hkey(m, p) = x THEN m.nodes[p].next ELSE p]
    BY <2>1
  <2>3. QED
    BY <2>2 DEF g
<1>3. f = F(f)
  <2> HIDE DEF F, g
  <2>1. QED
    BY <1>2
<1>4. Map!Behind(m, e, x) = f[e]
  BY DEF Map!Behind
<1> HIDE DEF f
<1>5. f[e] = e
  BY <1>3
<1>6. QED
  BY <1>4, <1>5

\* insert() keeps the map sound and adds the key.
LEMMA InsertIs ==
    ASSUME NEW m, MapSound(m), NEW k \in Keys,
           Map!Sparse(Map!KeysIn(m) \cup {k}, Len(m.buckets))
    PROVE  /\ MapSound(Map!insert(m, k)) /\ Map!KeysIn(Map!insert(m, k)) = Map!KeysIn(m) \cup {k}
           /\ Len(Map!insert(m, k).buckets) = Len(m.buckets)
           /\ Map!insert(m, k) # m <=> k \notin Map!KeysIn(m)
<1>1. PICK b, e : /\ b \in 1 .. Len(m.buckets) /\ b = Map!mapkey(m, k)
                  /\ e = m.buckets[b].elems
  BY SoundNodes
<1>2. BucketSound(m, b) /\ e \in HashNodes \cup {Null}
  BY <1>1, SoundNodes
<1>3. k \in Map!KeysIn(m) <=> \E n \in HashNodes : m.nodes[n].key = k
  BY KeysAre
<1>4. Map!Place(m, b, k) # 0 <=> k \in Map!KeysIn(m)
  <2>1. Map!Place(m, b, k) = 0 <=> Map!find(m, k) = Null
    BY <1>1, FindIs
  <2>2. Map!find(m, k) # Null => k \in Map!KeysIn(m)
    BY <1>3, FindIs
  <2>3. Map!find(m, k) = Null => k \notin Map!KeysIn(m)
    BY <1>3, FindIs
  <2>4. QED
    BY <2>1, <2>2, <2>3
<1>5. CASE k \in Map!KeysIn(m)
  <2>1. Map!Searches(m.buckets[b], Hash(k))
    <3>1. PICK n \in HashNodes : m.nodes[n].key = k
      BY <1>3, <1>5
    <3>2. e \in HashNodes /\ (n = e \/ (m.buckets[b].size = 2 /\ n = m.nodes[e].next))
      BY <1>1, <3>1, KeyIsNear
    <3>3. m.buckets[b].hash = Hash(k) \/ m.buckets[b].dirty
      BY <1>1, <1>2, <3>1, <3>2, MapConstants DEF BucketSound
    <3>4. QED
      BY <1>1, <3>2, <3>3, MapConstants DEF Map!Searches
  <2>2. Map!insert(m, k) = m
    BY <1>1, <1>4, <1>5, <2>1 DEF Map!insert, Map!Missing
  <2>3. QED
    BY <1>5, <2>2
<1>6. CASE k \notin Map!KeysIn(m)
  <2>1. \A n \in HashNodes : m.nodes[n].key # k
    BY <1>3, <1>6
  <2>2. PICK p \in HashNodes :
          m.nodes[p] = Map!Freed /\ p = CHOOSE n \in HashNodes : m.nodes[n] = Map!Freed
    BY <2>1, NodeIsFree
  <2> DEFINE d == Map!Linked(m, p, k)
  <2>3. Map!insert(m, k) = d
    BY <1>1, <1>4, <1>6, <2>2 DEF Map!insert, Map!Missing
  <2>4. m.nodes \in [HashNodes -> NodeType]
        /\ m.buckets \in Seq(BucketType) /\ m.buckets[b] \in BucketType
        /\ m.count \in Nat /\ m.head \in Nat
    BY <1>1, SoundNodes, HeadOfEmpty
  <2>5. m.buckets[b].size \in Nat /\ m.buckets[b].dirty \in BOOLEAN /\ m.buckets[b].hash \in Nat
    BY <2>4 DEF BucketType
  <2>6. CASE e = Null
    <3>1. m.buckets[b].size = 0
      BY <1>1, <1>2, <2>6, MapConstants DEF BucketSound
    <3>2. d = [buckets |-> [m.buckets EXCEPT ![b] =
                              [elems |-> p, size |-> 1, hash |-> Hash(k), dirty |-> m.buckets[b].dirty]],
               head |-> IF m.count = 0 \/ m.head > b THEN b ELSE m.head,
               count |-> m.count + 1,
               nodes |-> [m.nodes EXCEPT ![p] = [key |-> k, next |-> Null, prev |-> Null]]]
      <4>1. PICK bk, g, c, N : /\ bk = [elems |-> p, size |-> 1, hash |-> Hash(k),
                                         dirty |-> m.buckets[b].dirty]
                               /\ g = (IF m.count = 0 \/ m.head > b THEN b ELSE m.head)
                               /\ c = m.count + 1
                               /\ N = [m.nodes EXCEPT ![p] = [key |-> k, next |-> Null, prev |-> Null]]
        OBVIOUS
      <4>2. b = Map!mapkey(m, k) /\ m.buckets[b].elems = Null /\ m.buckets[b].size + 1 = 1
        BY <1>1, <2>6, <3>1
      <4>3. (m.buckets[b].dirty \/ FALSE) = m.buckets[b].dirty
        BY <2>5
      <4>4. d.buckets = [m.buckets EXCEPT ![b] = bk]
        BY <4>1, <4>2, <4>3 DEF Map!Linked
      <4>5. d.head = g /\ d.count = c
        BY <4>1, <4>2 DEF Map!Linked
      <4>6. d.nodes = N
        <5>1. d.nodes = [i \in HashNodes |->
                           CASE i = p -> [key |-> k, next |-> Null, prev |-> Null]
                             [] OTHER -> m.nodes[i]]
          BY <4>2 DEF Map!Linked
        <5> HIDE DEF d
        <5>2. QED
          BY <2>4, <4>1, <5>1
      <4>7. d = [buckets |-> d.buckets, head |-> d.head, count |-> d.count, nodes |-> d.nodes]
        BY DEF Map!Linked
      <4> HIDE DEF d
      <4>8. QED
        BY <4>1, <4>4, <4>5, <4>6, <4>7
    <3> HIDE DEF d
    <3>3. d \in MapType /\ Len(d.buckets) = Len(m.buckets)
      <4>1. [elems |-> p, size |-> 1, hash |-> Hash(k), dirty |-> m.buckets[b].dirty] \in BucketType
        BY <2>5, MapConstants DEF BucketType
      <4>2. d.buckets \in Seq(BucketType) /\ Len(d.buckets) = Len(m.buckets)
        BY <1>1, <2>4, <3>2, <4>1
      <4>3. d.nodes \in [HashNodes -> NodeType]
        BY <2>4, <3>2 DEF NodeType
      <4>4. d.head \in Nat /\ d.count \in Nat
        BY <1>1, <2>4, <3>2
      <4>5. QED
        BY <3>2, <4>2, <4>3, <4>4 DEF MapType
    <3>4. PutFirst(m, k, p, b, d)
      BY <3>2 DEF PutFirst
    <3>5. m.buckets[b].elems = Null
      BY <1>1, <2>6
    <3>6. MapSound(d) /\ Map!KeysIn(d) = Map!KeysIn(m) \cup {k}
      BY <1>1, <2>1, <2>2, <3>3, <3>4, <3>5, InsertFirst
    <3>7. QED
      BY <1>6, <2>3, <3>3, <3>6
  <2>7. CASE e # Null
    <3>1. e \in HashNodes /\ m.nodes[e].key \in Keys /\ Map!mapkey(m, m.nodes[e].key) = b
          /\ m.buckets[b].hash = Hash(m.nodes[e].key) /\ m.nodes[e].key # k /\ p # e
          /\ Hash(m.nodes[e].key) # Hash(k)
      <4>1. /\ e \in HashNodes /\ m.nodes[e].key \in Keys /\ Map!mapkey(m, m.nodes[e].key) = b
            /\ m.buckets[b].hash = Hash(m.nodes[e].key)
        BY <1>1, <1>2, <2>7 DEF BucketSound
      <4>2. m.nodes[p].key \notin Keys
        BY <2>2, MapConstants DEF Map!Freed
      <4>3. m.nodes[e].key \in Map!KeysIn(m) /\ m.nodes[e].key # k
        BY <2>1, <4>1, KeysAre
      <4>4. Hash(m.nodes[e].key) # Hash(k)
        BY <4>3 DEF Map!Sparse
      <4>5. QED
        BY <4>1, <4>2, <4>3, <4>4
    <3>2. m.nodes[e].next = Null /\ m.buckets[b].size = 1
      <4>1. SUFFICES ASSUME m.buckets[b].size # 1 PROVE FALSE
        <5>1. m.buckets[b].size = 1 => m.nodes[e].next = Null
          <6>1. 1 # 2
            OBVIOUS
          <6>2. BucketSound(m, b) /\ m.buckets[b].elems # Null
            BY <1>1, <1>2, <2>7
          <6>3. m.buckets[b].size = 1 => m.nodes[m.buckets[b].elems].next = Null
            BY <6>1, <6>2 DEF BucketSound
          <6>4. QED
            BY <1>1, <6>3
        <5>2. QED
          BY <5>1
      <4>2. PICK o : o = m.nodes[e].next
        OBVIOUS
      <4>3. o \in HashNodes /\ m.nodes[o].key \in Keys
            /\ Hash(m.nodes[o].key) # Hash(m.nodes[e].key) /\ Map!mapkey(m, m.nodes[o].key) = b
        BY <1>1, <1>2, <2>7, <4>1, <4>2 DEF BucketSound
      <4>4. m.nodes[e].key \in Map!KeysIn(m) /\ m.nodes[o].key \in Map!KeysIn(m)
            /\ m.nodes[o].key # k
        BY <2>1, <3>1, <4>3, KeysAre
      <4>5. ~ \E i, j, l \in Map!KeysIn(m) \cup {k} :
                i # j /\ j # l /\ i # l
                /\ Map!mapkey(m, i) = Map!mapkey(m, j) /\ Map!mapkey(m, j) = Map!mapkey(m, l)
        BY DEF Map!Sparse, Map!mapkey
      <4>6. QED
        BY <1>1, <3>1, <4>3, <4>4, <4>5
    <3>3. Map!Behind(m, e, Hash(k)) = e
      BY <3>1, <3>2, BehindIs
    <3>4. d = [buckets |-> [m.buckets EXCEPT ![b] =
                              [elems |-> e, size |-> 2, hash |-> m.buckets[b].hash, dirty |-> TRUE]],
               head |-> m.head, count |-> m.count + 1,
               nodes |-> [i \in HashNodes |->
                            CASE i = p -> [key |-> k, next |-> Null, prev |-> e]
                              [] i # p /\ i = e -> [m.nodes[i] EXCEPT !.next = p]
                              [] OTHER -> m.nodes[i]]]
      <4>1. ~(e # Null /\ m.buckets[b].hash = Hash(k)) /\ Map!Behind(m, e, Hash(k)) = e
        BY <3>1, <3>3
      <4>2. b = Map!mapkey(m, k) /\ m.buckets[b].elems = e
        BY <1>1
      <4>3. PICK bk, N : /\ bk = [elems |-> e, size |-> 2, hash |-> m.buckets[b].hash, dirty |-> TRUE]
                         /\ N = [i \in HashNodes |->
                                   CASE i = p -> [key |-> k, next |-> Null, prev |-> e]
                                     [] i # p /\ i = e -> [m.nodes[i] EXCEPT !.next = p]
                                     [] OTHER -> m.nodes[i]]
        OBVIOUS
      <4>4. d.buckets = [m.buckets EXCEPT ![b] = bk]
        <5>1. m.buckets[b].size + 1 = 2
          BY <3>2
        <5>2. QED
          BY <2>5, <2>7, <4>1, <4>2, <4>3, <5>1 DEF Map!Linked
      <4>5. d.head = m.head /\ d.count = m.count + 1
        BY <2>7, <4>2 DEF Map!Linked
      <4>6. d.nodes = N
        BY <2>7, <3>2, <4>1, <4>2, <4>3 DEF Map!Linked
      <4>7. d = [buckets |-> d.buckets, head |-> d.head, count |-> d.count, nodes |-> d.nodes]
        BY DEF Map!Linked
      <4> HIDE DEF d
      <4>8. QED
        BY <4>3, <4>4, <4>5, <4>6, <4>7
    <3>5. m.nodes[e] \in NodeType
      BY <2>4, <3>1
    <3>6. [m.nodes[e] EXCEPT !.next = p]
             = [key |-> m.nodes[e].key, next |-> p, prev |-> m.nodes[e].prev]
      BY <3>5 DEF NodeType
    <3> HIDE DEF d
    <3>7. PutBehind(m, k, p, b, e, d)
      <4>1. Len(d.buckets) = Len(m.buckets)
        BY <2>4, <3>4
      <4>2. /\ d.buckets[b] = [elems |-> e, size |-> 2, hash |-> m.buckets[b].hash, dirty |-> TRUE]
            /\ \A q \in 1 .. Len(m.buckets) : q # b => d.buckets[q] = m.buckets[q]
        BY <1>1, <2>4, <3>4
      <4>3. /\ d.nodes[p] = [key |-> k, next |-> Null, prev |-> e]
            /\ d.nodes[e] = [key |-> m.nodes[e].key, next |-> p, prev |-> m.nodes[e].prev]
            /\ \A n \in HashNodes : n # p /\ n # e => d.nodes[n] = m.nodes[n]
        BY <3>1, <3>4, <3>6
      <4>4. d.head = m.head /\ d.count = m.count + 1
        BY <3>4
      <4>5. QED
        BY <4>1, <4>2, <4>3, <4>4 DEF PutBehind
    <3>8. d \in MapType
      <4>1. [elems |-> e, size |-> 2, hash |-> m.buckets[b].hash, dirty |-> TRUE] \in BucketType
        BY <2>5, <3>1 DEF BucketType
      <4>2. d.buckets \in Seq(BucketType)
        BY <1>1, <2>4, <3>4, <4>1
      <4>3. /\ [key |-> k, next |-> Null, prev |-> e] \in NodeType
            /\ [key |-> m.nodes[e].key, next |-> p, prev |-> m.nodes[e].prev] \in NodeType
        BY <3>1, <3>5 DEF NodeType
      <4>4. \A n \in HashNodes : d.nodes[n] \in NodeType
        BY <2>4, <3>7, <4>3 DEF PutBehind
      <4>5. DOMAIN d.nodes = HashNodes /\ d.nodes = [i \in DOMAIN d.nodes |-> d.nodes[i]]
        BY <3>4
      <4>6. d.head \in Nat /\ d.count \in Nat
        BY <2>4, <3>4
      <4>7. d = [buckets |-> d.buckets, head |-> d.head, count |-> d.count, nodes |-> d.nodes]
        BY <3>4
      <4>8. d.nodes \in [HashNodes -> NodeType]
        BY <4>4, <4>5
      <4>9. QED
        BY <4>2, <4>6, <4>7, <4>8 DEF MapType
    <3>9. MapSound(d) /\ Map!KeysIn(d) = Map!KeysIn(m) \cup {k}
      BY <1>1, <2>1, <2>2, <3>1, <3>2, <3>7, <3>8, InsertSecond
    <3>10. QED
      BY <1>6, <2>3, <3>7, <3>9 DEF PutBehind
  <2>8. QED
    BY <2>6, <2>7
<1>7. QED
  BY <1>5, <1>6

----------------------------------------------------------------------------
(* Erasing a node *)

\* d is m without the node n of the bucket b, whose other node is q, if there is one.
TakenOut(m, n, b, q, d) ==
    /\ Len(d.buckets) = Len(m.buckets)
    /\ \A c \in 1 .. Len(m.buckets) : c # b => d.buckets[c] = m.buckets[c]
    /\ d.buckets[b].elems = q /\ d.buckets[b].size = (IF q = Null THEN 0 ELSE 1)
    /\ q # Null => d.buckets[b].hash = Hash(m.nodes[q].key)
    /\ d.nodes[n] = Map!Freed
    /\ q # Null => d.nodes[q] = [key |-> m.nodes[q].key, next |-> Null, prev |-> Null]
    /\ \A i \in HashNodes : i # n /\ i # q => d.nodes[i] = m.nodes[i]
    /\ d.head = IF m.buckets[b].elems = n /\ m.head = b THEN Map!FirstUsed(d.buckets) ELSE m.head
    /\ d.count = m.count - 1

LEMMA TakenOutIsSound ==
    ASSUME NEW m, MapSound(m), NEW n \in HashNodes, m.nodes[n].key \in Keys,
           NEW b \in 1 .. Len(m.buckets), b = Map!mapkey(m, m.nodes[n].key),
           NEW q \in HashNodes \cup {Null}, q # n,
           q # Null => m.nodes[q].key \in Keys /\ Map!mapkey(m, m.nodes[q].key) = b,
           \A i \in HashNodes :
               m.nodes[i].key \in Keys /\ Map!mapkey(m, m.nodes[i].key) = b => i = n \/ i = q,
           m.buckets[b].elems = n \/ m.buckets[b].elems = q,
           q = Null => m.buckets[b].elems = n,
           NEW d \in MapType, TakenOut(m, n, b, q, d)
    PROVE  /\ MapSound(d) /\ Map!KeysIn(d) = Map!KeysIn(m) \ {m.nodes[n].key}
           /\ d.count = m.count - 1 /\ m.count # 0
<1>1. m.nodes \in [HashNodes -> NodeType] /\ m.buckets \in Seq(BucketType)
      /\ Len(m.buckets) \in Nat \ {0} /\ Len(d.buckets) = Len(m.buckets) /\ d.count = m.count - 1
  BY SoundNodes DEF MapSound, TakenOut
<1>2. \A i \in HashNodes : i # n /\ i # q => d.nodes[i] = m.nodes[i]
  BY DEF TakenOut
<1>3. /\ d.nodes[n] = Map!Freed
      /\ q # Null => d.nodes[q] = [key |-> m.nodes[q].key, next |-> Null, prev |-> Null]
  BY DEF TakenOut
<1>4. \A c \in 1 .. Len(m.buckets) : c # b => d.buckets[c] = m.buckets[c]
  BY DEF TakenOut
<1>5. /\ d.buckets[b].elems = q /\ d.buckets[b].size = (IF q = Null THEN 0 ELSE 1)
      /\ q # Null => d.buckets[b].hash = Hash(m.nodes[q].key)
  BY DEF TakenOut
<1>6. /\ \A j \in Keys : Map!mapkey(d, j) = Map!mapkey(m, j)
      /\ \A c \in 1 .. Len(m.buckets) : c # b => BucketSound(d, c)
      /\ \A i \in HashNodes :
           m.nodes[i].key \in Keys /\ Map!mapkey(m, m.nodes[i].key) # b => NodeSound(d, i)
  <2>1. \A i \in HashNodes : \/ d.nodes[i] = m.nodes[i] \/ m.nodes[i].key = Null
                             \/ Map!mapkey(m, m.nodes[i].key) = b
    BY <1>2, MapConstants
  <2>2. QED
    BY <1>1, <1>4, <2>1, OtherBuckets, Zenon
<1>7. BucketSound(d, b)
  <2>1. CASE q = Null
    BY <1>5, <2>1 DEF BucketSound
  <2>2. CASE q # Null
    <3>1. PICK N, B : N = d.nodes[q] /\ B = d.buckets[b]
      OBVIOUS
    <3>2. N.key = m.nodes[q].key /\ N.next = Null /\ N.prev = Null
          /\ B.elems = q /\ B.size = 1 /\ B.hash = Hash(m.nodes[q].key)
      BY <1>3, <1>5, <2>2, <3>1
    <3>3. q \in HashNodes /\ m.nodes[q].key \in Keys /\ Map!mapkey(d, m.nodes[q].key) = b
      BY <1>6, <2>2
    <3>4. QED
      BY <3>1, <3>2, <3>3 DEF BucketSound
  <2>3. QED
    BY <2>1, <2>2
<1>8. ASSUME NEW i \in HashNodes PROVE NodeSound(d, i)
  <2>1. CASE i = n
    BY <1>3, <2>1 DEF NodeSound, Used
  <2>2. CASE i = q
    <3>1. q # Null
      BY <2>2, MapConstants
    <3>2. d.nodes[q].key \in Keys /\ Map!mapkey(d, d.nodes[q].key) = b
      <4>1. d.nodes[q].key = m.nodes[q].key
        BY <1>3, <3>1
      <4>2. QED
        BY <1>6, <3>1, <4>1
    <3>3. QED
      BY <1>5, <2>2, <3>1, <3>2 DEF NodeSound
  <2>3. CASE i # n /\ i # q /\ m.nodes[i].key = Null
    <3>1. d.nodes[i] = Map!Freed
      BY <1>2, <2>3, SoundNodes
    <3>2. QED
      BY <3>1 DEF NodeSound, Used
  <2>4. CASE i # n /\ i # q /\ m.nodes[i].key \in Keys
    <3>1. Map!mapkey(m, m.nodes[i].key) # b
      BY <2>4
    <3>2. QED
      BY <1>6, <2>4, <3>1
  <2>5. QED
    BY <2>1, <2>2, <2>3, <2>4, SoundNodes
<1>9. IsFirst(d.buckets, d.head)
  <2>1. d.buckets \in Seq(BucketType)
    BY DEF MapType
  <2>2. CASE m.buckets[b].elems = n /\ m.head = b
    BY <2>1, <2>2, FirstExists DEF TakenOut
  <2>3. CASE ~(m.buckets[b].elems = n /\ m.head = b)
    <3>1. d.head = m.head
      BY <2>3 DEF TakenOut
    <3>2. IsFirst(m.buckets, m.head)
      BY DEF MapSound
    <3>3. m.buckets[b].elems # Null
      BY MapConstants
    <3>4. m.head # b \/ (d.buckets[b].elems # Null)
      BY <1>5, <2>3
    <3>5. QED
      BY <1>1, <1>4, <3>1, <3>2, <3>3, <3>4 DEF IsFirst
  <2>4. QED
    BY <2>2, <2>3
<1>10. UsedNodes(d) = UsedNodes(m) \ {n} /\ n \in UsedNodes(m)
  <2>1. ~Used(d, n) /\ Used(m, n)
    BY <1>3, SoundNodes DEF Used
  <2>2. ASSUME NEW i \in HashNodes, i # n PROVE Used(d, i) <=> Used(m, i)
    <3>1. CASE i = q
      <4>1. d.nodes[q].key = m.nodes[q].key /\ m.nodes[q].key \in Keys
        BY <1>3, <3>1, MapConstants
      <4>2. d.nodes[q] # Map!Freed /\ m.nodes[q] # Map!Freed
        BY <4>1, MapConstants DEF Map!Freed
      <4>3. QED
        BY <3>1, <4>2 DEF Used
    <3>2. CASE i # q
      BY <1>2, <2>2, <3>2 DEF Used
    <3>3. QED
      BY <3>1, <3>2
  <2>3. QED
    BY <2>1, <2>2 DEF UsedNodes
<1>11. d.count = Cardinality(UsedNodes(d)) /\ m.count # 0
  <2>1. IsFiniteSet(UsedNodes(m)) /\ m.count = Cardinality(UsedNodes(m)) /\ m.count # 0
    BY <1>10, HeadOfEmpty DEF MapSound
  <2>2. Cardinality(UsedNodes(m) \ {n}) = m.count - 1
    BY <1>10, <2>1, FS_RemoveElement
  <2>3. QED
    BY <1>1, <1>10, <2>1, <2>2
<1>12. MapSound(d)
  BY <1>1, <1>6, <1>7, <1>8, <1>9, <1>11 DEF MapSound
<1>13. Map!KeysIn(d) = Map!KeysIn(m) \ {m.nodes[n].key}
  <2>1. \A i \in HashNodes : i # n => d.nodes[i].key = m.nodes[i].key
    <3>1. ASSUME NEW i \in HashNodes, i # n PROVE d.nodes[i].key = m.nodes[i].key
      <4>1. CASE i = q
        BY <1>3, <4>1, MapConstants
      <4>2. CASE i # q
        BY <1>2, <3>1, <4>2
      <4>3. QED
        BY <4>1, <4>2
    <3>2. QED
      BY <3>1
  <2>2. d.nodes[n].key = Null
    BY <1>3 DEF Map!Freed
  <2>3. \A i \in HashNodes : m.nodes[i].key = m.nodes[n].key => i = n
    BY KeyIsUnique
  <2>4. {j \in Keys : \E i \in HashNodes : d.nodes[i].key = j}
          = {j \in Keys : \E i \in HashNodes : m.nodes[i].key = j} \ {m.nodes[n].key}
    BY <2>1, <2>2, <2>3, MapConstants
  <2>5. QED
    BY <1>12, <2>4, KeysAre
<1>14. QED
  BY <1>1, <1>11, <1>12, <1>13

\* A node is alone in its bucket, or the first of two, or the second.
LEMMA NodePlaces ==
    ASSUME NEW m, MapSound(m), NEW n \in HashNodes, m.nodes[n].key \in Keys,
           NEW b, b = Map!mapkey(m, m.nodes[n].key), NEW e, e = m.buckets[b].elems
    PROVE  /\ b \in 1 .. Len(m.buckets) /\ e \in HashNodes /\ m.nodes[e].prev = Null
           /\ m.buckets[b].hash = Hash(m.nodes[e].key) /\ m.nodes[e].key \in Keys
           /\ Map!mapkey(m, m.nodes[e].key) = b
           /\ \/ /\ n = e /\ m.buckets[b].size = 1 /\ m.nodes[n].next = Null
              \/ \E o \in HashNodes :
                   /\ o # e /\ m.nodes[o].key \in Keys /\ Map!mapkey(m, m.nodes[o].key) = b
                   /\ Hash(m.nodes[o].key) # Hash(m.nodes[e].key) /\ m.nodes[o].prev = e
                   /\ m.nodes[o].next = Null /\ m.nodes[e].next = o
                   /\ m.buckets[b].size = 2 /\ m.buckets[b].dirty /\ (n = e \/ n = o)
<1>1. /\ b \in 1 .. Len(m.buckets) /\ BucketSound(m, b) /\ e \in HashNodes /\ e # Null
      /\ n = e \/ (m.buckets[b].size = 2 /\ n = m.nodes[e].next /\ n # e)
  BY KeyIsNear, MapConstants
<1>2. /\ m.nodes[e].prev = Null /\ m.buckets[b].hash = Hash(m.nodes[e].key) /\ m.nodes[e].key \in Keys
      /\ Map!mapkey(m, m.nodes[e].key) = b
  BY <1>1 DEF BucketSound
<1>3. PICK o : o = m.nodes[e].next
  OBVIOUS
<1>4. CASE m.buckets[b].size = 1
  <2>a. n = e
    BY <1>1, <1>4
  <2>b. m.nodes[e].next = Null
    BY <1>1, <1>4 DEF BucketSound
  <2>1. o = Null /\ n = e
    BY <1>3, <2>a, <2>b
  <2>2. QED
    BY <1>1, <1>2, <1>3, <1>4, <2>1
<1>5. CASE m.buckets[b].size # 1
  <2>1. /\ o \in HashNodes /\ m.nodes[o].key \in Keys /\ Map!mapkey(m, m.nodes[o].key) = b
        /\ Hash(m.nodes[o].key) # Hash(m.nodes[e].key) /\ m.nodes[o].prev = e
        /\ m.nodes[o].next = Null /\ m.buckets[b].size = 2 /\ m.buckets[b].dirty
    BY <1>1, <1>3, <1>5 DEF BucketSound
  <2>2. QED
    BY <1>1, <1>2, <1>3, <2>1
<1>6. QED
  BY <1>4, <1>5

\* erase() keeps the map sound and takes the key out.
LEMMA EraseIs ==
    ASSUME NEW m, MapSound(m), NEW n \in HashNodes, m.nodes[n].key \in Keys
    PROVE  /\ MapSound(Map!erase(m, n))
           /\ Map!KeysIn(Map!erase(m, n)) = Map!KeysIn(m) \ {m.nodes[n].key}
           /\ Map!erase(m, n).count = m.count - 1 /\ m.count # 0
           /\ Len(Map!erase(m, n).buckets) = Len(m.buckets)
<1> DEFINE d == Map!erase(m, n)
<1>1. PICK b, e : b = Map!mapkey(m, m.nodes[n].key) /\ e = m.buckets[b].elems
  OBVIOUS
<1>2. /\ b \in 1 .. Len(m.buckets) /\ e \in HashNodes /\ m.nodes[e].prev = Null
      /\ m.buckets[b].hash = Hash(m.nodes[e].key) /\ m.nodes[e].key \in Keys
      /\ Map!mapkey(m, m.nodes[e].key) = b
  BY <1>1, NodePlaces
<1>3. PICK q \in HashNodes \cup {Null} :
        /\ q # n
        /\ q = Null => n = e /\ m.buckets[b].size = 1 /\ m.nodes[n].next = Null
        /\ q # Null =>
             /\ m.buckets[b].size = 2 /\ m.buckets[b].dirty
             /\ m.nodes[q].key \in Keys /\ Map!mapkey(m, m.nodes[q].key) = b
             /\ Hash(m.nodes[q].key) # Hash(m.nodes[n].key)
             /\ \/ n = e /\ m.nodes[n].next = q /\ m.nodes[q].prev = n /\ m.nodes[q].next = Null
                \/ q = e /\ m.nodes[n].prev = q /\ m.nodes[n].next = Null /\ m.nodes[q].next = n
                   /\ n # e
  <2>1. CASE n = e /\ m.buckets[b].size = 1 /\ m.nodes[n].next = Null
    BY <2>1, MapConstants
  <2>2. CASE ~(n = e /\ m.buckets[b].size = 1 /\ m.nodes[n].next = Null)
    <3>1. PICK o \in HashNodes :
            /\ o # e /\ m.nodes[o].key \in Keys /\ Map!mapkey(m, m.nodes[o].key) = b
            /\ Hash(m.nodes[o].key) # Hash(m.nodes[e].key) /\ m.nodes[o].prev = e
            /\ m.nodes[o].next = Null /\ m.nodes[e].next = o
            /\ m.buckets[b].size = 2 /\ m.buckets[b].dirty /\ (n = e \/ n = o)
      <4>1. \/ n = e /\ m.buckets[b].size = 1 /\ m.nodes[n].next = Null
            \/ \E o \in HashNodes :
                 /\ o # e /\ m.nodes[o].key \in Keys /\ Map!mapkey(m, m.nodes[o].key) = b
                 /\ Hash(m.nodes[o].key) # Hash(m.nodes[e].key) /\ m.nodes[o].prev = e
                 /\ m.nodes[o].next = Null /\ m.nodes[e].next = o
                 /\ m.buckets[b].size = 2 /\ m.buckets[b].dirty /\ (n = e \/ n = o)
        BY <1>1, NodePlaces
      <4>2. QED
        BY <2>2, <4>1
    <3>2. CASE n = e
      BY <3>1, <3>2, MapConstants
    <3>3. CASE n = o
      BY <1>2, <3>1, <3>3, MapConstants
    <3>4. QED
      BY <3>1, <3>2, <3>3
  <2>3. QED
    BY <2>1, <2>2
<1>4. ASSUME NEW i \in HashNodes, m.nodes[i].key \in Keys, Map!mapkey(m, m.nodes[i].key) = b
      PROVE  i = n \/ i = q
  <2>1. i = e \/ (m.buckets[b].size = 2 /\ i = m.nodes[e].next)
    BY <1>1, <1>4, KeyIsNear
  <2>2. QED
    BY <1>3, <2>1
<1>5. /\ m.nodes \in [HashNodes -> NodeType] /\ m.buckets \in Seq(BucketType)
      /\ m.buckets[b] \in BucketType /\ m.count \in Nat /\ m.head \in Nat
  BY <1>2, SoundNodes, HeadOfEmpty
<1>6. m.nodes[n].prev = Null \/ (m.nodes[n].prev = q /\ q # Null)
  BY <1>2, <1>3
<1>7. ASSUME NEW i \in HashNodes
      PROVE  d.nodes[i] = IF i = n THEN Map!Freed
                          ELSE IF i = q THEN [key |-> m.nodes[q].key, next |-> Null, prev |-> Null]
                          ELSE m.nodes[i]
  <2>1. d.nodes[i] =
          IF i = n THEN Map!Freed
          ELSE [key |-> m.nodes[i].key,
                next |-> IF i = m.nodes[n].prev THEN m.nodes[n].next ELSE m.nodes[i].next,
                prev |-> IF i = m.nodes[n].next THEN m.nodes[n].prev ELSE m.nodes[i].prev]
    BY DEF Map!erase, Map!Unlinked
  <2> HIDE DEF d
  <2>2. CASE i = n
    BY <2>1, <2>2
  <2>3. CASE i # n /\ i = q
    <3>1. q # Null
      BY <2>3, MapConstants
    <3>2. CASE n = e
      <4>1. /\ m.nodes[n].next = q /\ m.nodes[q].next = Null /\ m.nodes[n].prev = Null
        BY <1>2, <1>3, <3>1, <3>2
      <4>2. QED
        BY <2>1, <2>3, <3>1, <4>1
    <3>3. CASE n # e
      <4>1. m.nodes[n].prev = q /\ m.nodes[n].next = Null /\ m.nodes[q].prev = Null
        BY <1>2, <1>3, <3>1, <3>3
      <4>2. QED
        BY <2>1, <2>3, <3>1, <4>1
    <3>4. QED
      BY <3>2, <3>3
  <2>4. CASE i # n /\ i # q
    <3>1. i # m.nodes[n].prev /\ i # m.nodes[n].next
      BY <1>3, <1>6, <2>4, MapConstants
    <3>2. m.nodes[i] \in NodeType
      BY <1>5
    <3>3. [key |-> m.nodes[i].key, next |-> m.nodes[i].next, prev |-> m.nodes[i].prev] = m.nodes[i]
      BY <3>2 DEF NodeType
    <3>4. QED
      BY <2>1, <2>4, <3>1, <3>3
  <2>5. QED
    BY <2>2, <2>3, <2>4
<1>8. PICK bk \in BucketType :
        /\ d.buckets = [m.buckets EXCEPT ![b] = bk]
        /\ bk.elems = q /\ bk.size = (IF q = Null THEN 0 ELSE 1)
        /\ q # Null => bk.hash = Hash(m.nodes[q].key)
  <2>1. m.buckets[b].size \in Nat /\ m.buckets[b].hash \in Nat /\ m.buckets[b].dirty \in BOOLEAN
    BY <1>5 DEF BucketType
  <2>2. CASE n = e
    <3> DEFINE bk == Map!WithoutFirst(m, b, m.nodes[n].next)
    <3>1. d.buckets = [m.buckets EXCEPT ![b] = bk]
      BY <1>1, <2>2 DEF Map!erase
    <3>2. m.nodes[n].next = q
      BY <1>3, <2>2
    <3>3. CASE q = Null
      <4>1. bk = [elems |-> Null, size |-> 0, hash |-> m.buckets[b].hash, dirty |-> FALSE]
        <5>1. m.buckets[b].size = 1 /\ m.buckets[b].size - 1 = 0
          BY <1>3, <3>3
        <5>2. QED
          BY <2>1, <3>2, <3>3, <5>1 DEF Map!WithoutFirst
      <4> HIDE DEF bk, d
      <4>2. bk \in BucketType
        BY <2>1, <4>1 DEF BucketType
      <4>3. QED
        BY <3>1, <3>3, <4>1, <4>2
    <3>4. CASE q # Null
      <4>1. bk = [elems |-> q, size |-> 1, hash |-> Hash(m.nodes[q].key), dirty |-> FALSE]
        <5>1. m.buckets[b].size = 2 /\ m.buckets[b].size - 1 = 1 /\ m.buckets[b].dirty
          BY <1>3, <3>4
        <5>2. m.buckets[b].hash # Map!hkey(m, q) /\ Map!hkey(m, q) = Hash(m.nodes[q].key)
          BY <1>2, <1>3, <2>2, <3>4 DEF Map!hkey
        <5>3. QED
          BY <3>2, <3>4, <5>1, <5>2 DEF Map!WithoutFirst
      <4> HIDE DEF bk, d
      <4>2. bk \in BucketType
        BY <1>3, <3>4, <4>1, MapConstants DEF BucketType
      <4>3. QED
        BY <3>1, <3>4, <4>1, <4>2
    <3>5. QED
      BY <3>3, <3>4
  <2>3. CASE n # e
    <3> DEFINE bk == [m.buckets[b] EXCEPT !.size = m.buckets[b].size - 1]
    <3>1. d.buckets = [m.buckets EXCEPT ![b] = bk]
      BY <1>1, <2>3 DEF Map!erase
    <3>2. q # Null /\ q = e /\ m.buckets[b].size = 2
      BY <1>3, <2>3
    <3>3. bk = [elems |-> q, size |-> 1, hash |-> Hash(m.nodes[q].key), dirty |-> m.buckets[b].dirty]
      <4>1. PICK x, s, y, t : m.buckets[b] = [elems |-> x, size |-> s, hash |-> y, dirty |-> t]
        BY <1>5 DEF BucketType
      <4>2. x = q /\ s - 1 = 1 /\ y = Hash(m.nodes[q].key) /\ t = m.buckets[b].dirty
        BY <1>1, <1>2, <3>2, <4>1
      <4>3. bk = [elems |-> x, size |-> s - 1, hash |-> y, dirty |-> t]
        BY <4>1
      <4> HIDE DEF bk
      <4>4. QED
        BY <4>2, <4>3
    <3> HIDE DEF bk, d
    <3>4. bk \in BucketType
      BY <1>2, <2>1, <3>2, <3>3, MapConstants DEF BucketType
    <3>5. QED
      BY <3>1, <3>2, <3>3, <3>4
  <2>4. QED
    BY <2>2, <2>3
<1>9. /\ d.count = m.count - 1
      /\ d.head = IF m.buckets[b].elems = n /\ m.head = b THEN Map!FirstUsed(d.buckets) ELSE m.head
      /\ d = [buckets |-> d.buckets, count |-> d.count, nodes |-> d.nodes, head |-> d.head]
  <2>1. d.count = m.count - 1
    BY DEF Map!erase
  <2>2. d.head = IF m.buckets[b].elems = n /\ m.head = b THEN Map!FirstUsed(d.buckets) ELSE m.head
    BY <1>1 DEF Map!erase
  <2>3. d = [buckets |-> d.buckets, count |-> d.count, nodes |-> d.nodes, head |-> d.head]
    BY DEF Map!erase
  <2> HIDE DEF d
  <2>4. QED
    BY <2>1, <2>2, <2>3
<1>10. DOMAIN d.nodes = HashNodes /\ d.nodes = [i \in HashNodes |-> d.nodes[i]]
  BY DEF Map!erase, Map!Unlinked
<1> HIDE DEF d
<1>11. /\ d.buckets \in Seq(BucketType) /\ Len(d.buckets) = Len(m.buckets)
       /\ d.buckets[b] = bk
       /\ \A c \in 1 .. Len(m.buckets) : c # b => d.buckets[c] = m.buckets[c]
  BY <1>2, <1>5, <1>8
<1>12. m.count # 0
  <2>1. n \in UsedNodes(m)
    BY SoundNodes DEF UsedNodes
  <2>2. QED
    BY <2>1, HeadOfEmpty
<1>13. d \in MapType
  <2>1. ASSUME NEW i \in HashNodes PROVE d.nodes[i] \in NodeType
    <3>1. Map!Freed \in NodeType /\ m.nodes[i] \in NodeType
      BY <1>5 DEF Map!Freed, NodeType
    <3>2. q # Null => [key |-> m.nodes[q].key, next |-> Null, prev |-> Null] \in NodeType
      BY <1>3 DEF NodeType
    <3>3. QED
      BY <1>7, <3>1, <3>2, MapConstants
  <2>2. d.nodes \in [HashNodes -> NodeType]
    BY <1>10, <2>1
  <2>3. d.head \in Nat
    <3>1. Map!FirstUsed(d.buckets) \in Nat
      BY <1>11, FirstExists DEF IsFirst
    <3>2. QED
      BY <1>5, <1>9, <3>1
  <2>4. d.count \in Nat
    BY <1>5, <1>9, <1>12
  <2>5. QED
    BY <1>9, <1>11, <2>2, <2>3, <2>4 DEF MapType
<1>14. TakenOut(m, n, b, q, d)
  <2>1. d.nodes[n] = Map!Freed
    BY <1>7
  <2>2. q # Null => d.nodes[q] = [key |-> m.nodes[q].key, next |-> Null, prev |-> Null]
    BY <1>3, <1>7
  <2>3. \A i \in HashNodes : i # n /\ i # q => d.nodes[i] = m.nodes[i]
    BY <1>7
  <2>4. QED
    BY <1>8, <1>9, <1>11, <2>1, <2>2, <2>3 DEF TakenOut
<1>15. /\ MapSound(d) /\ Map!KeysIn(d) = Map!KeysIn(m) \ {m.nodes[n].key}
       /\ d.count = m.count - 1 /\ m.count # 0
  <2>1. /\ q # Null => m.nodes[q].key \in Keys /\ Map!mapkey(m, m.nodes[q].key) = b
        /\ m.buckets[b].elems = n \/ m.buckets[b].elems = q
        /\ q = Null => m.buckets[b].elems = n
    BY <1>1, <1>3
  <2>2. QED
    BY <1>1, <1>2, <1>3, <1>4, <1>13, <1>14, <2>1, TakenOutIsSound
<1>16. QED
  BY <1>11, <1>15 DEF d

----------------------------------------------------------------------------
(* Clearing the map *)

LEMMA BeginIs ==
    ASSUME NEW m, MapSound(m)
    PROVE  /\ Map!begin(m) \in HashNodes \cup {Null}
           /\ Map!begin(m) = Null <=> m.count = 0
           /\ Map!begin(m) # Null =>
                /\ Map!begin(m) \in HashNodes /\ m.nodes[Map!begin(m)].key \in Keys
                /\ m.head = Map!mapkey(m, m.nodes[Map!begin(m)].key)
                /\ m.buckets[m.head].elems = Map!begin(m)
<1>1. CASE m.count = 0
  BY <1>1 DEF Map!begin
<1>2. CASE m.count # 0
  <2>1. m.head # 0 /\ m.head \in 1 .. Len(m.buckets)
    BY <1>2, HeadOfEmpty
  <2>2. Map!begin(m) = m.buckets[m.head].elems
    BY <1>2, <2>1 DEF Map!begin
  <2>3. BucketSound(m, m.head) /\ m.buckets[m.head].elems # Null
    BY <2>1, SoundNodes DEF MapSound, IsFirst
  <2>4. m.buckets[m.head].elems \in HashNodes /\ m.nodes[m.buckets[m.head].elems].key \in Keys
        /\ Map!mapkey(m, m.nodes[m.buckets[m.head].elems].key) = m.head
    BY <2>3 DEF BucketSound
  <2>5. QED
    BY <1>2, <2>2, <2>4, MapConstants
<1>3. QED
  BY <1>1, <1>2

\* After the first node that was erased comes the first of those left.
LEMMA NextOfBegin ==
    ASSUME NEW m, MapSound(m), Map!begin(m) # Null
    PROVE  Map!NextOf(m, Map!begin(m)) = Map!begin(Map!erase(m, Map!begin(m)))
<1>1. PICK n \in HashNodes :
        /\ n = Map!begin(m) /\ m.nodes[n].key \in Keys
        /\ m.head = Map!mapkey(m, m.nodes[n].key) /\ m.buckets[m.head].elems = n
  BY BeginIs
<1>2. PICK d : d = Map!erase(m, n)
  OBVIOUS
<1>3. MapSound(d) /\ Len(d.buckets) = Len(m.buckets)
  BY <1>1, <1>2, EraseIs
<1>4. d.head = Map!FirstUsed(d.buckets)
  <2>1. IsFirst(d.buckets, d.head) /\ d.buckets \in Seq(BucketType)
    BY <1>3, SoundNodes DEF MapSound
  <2>2. QED
    BY <2>1, FirstUsedIs
<1>5. CASE d.head # 0
  <2>1. Map!NextOf(m, n) = d.buckets[d.head].elems
    BY <1>1, <1>2, <1>4, <1>5 DEF Map!NextOf
  <2>2. Map!begin(d) = d.buckets[d.head].elems
    BY <1>3, <1>5, HeadOfEmpty DEF Map!begin
  <2>3. QED
    BY <1>1, <1>2, <2>1, <2>2
<1>6. CASE d.head = 0
  <2>1. Map!begin(d) = Null
    BY <1>6 DEF Map!begin
  <2>2. Map!NextOf(m, n) = m.nodes[n].next
    BY <1>2, <1>4, <1>6 DEF Map!NextOf
  <2>3. m.head \in 1 .. Len(m.buckets)
    BY <1>1, SoundNodes
  <2>4. d.buckets[m.head].elems = m.nodes[n].next
    <3>1. d.buckets = [m.buckets EXCEPT ![m.head] =
                         Map!WithoutFirst(m, m.head, m.nodes[n].next)]
      BY <1>1, <1>2 DEF Map!erase
    <3>2. Map!WithoutFirst(m, m.head, m.nodes[n].next).elems = m.nodes[n].next
      BY DEF Map!WithoutFirst
    <3>3. QED
      BY <2>3, <3>1, <3>2, SoundNodes
  <2>5. d.buckets[m.head].elems = Null
    BY <1>3, <1>6, <2>3, HeadOfEmpty
  <2>6. QED
    BY <1>1, <1>2, <2>1, <2>2, <2>4, <2>5
<1>7. QED
  BY <1>5, <1>6

\* clear() leaves no key.
LEMMA ClearIs ==
    ASSUME NEW m, MapSound(m)
    PROVE  MapSound(Map!clear(m)) /\ Map!KeysIn(Map!clear(m)) = {}
<1>1. PICK n \in Nat : n = Map!Cardinality(HashNodes) /\ m.count <= n
  <2>1. Cardinality(HashNodes) \in Nat /\ Cardinality(UsedNodes(m)) <= Cardinality(HashNodes)
    BY MapConstants, FS_CardinalityType, FS_Subset DEF UsedNodes
  <2>2. QED
    BY <2>1, MapConstants DEF MapSound
<1> DEFINE Once(d) == IF d.at = Null THEN d
                      ELSE [map |-> Map!erase(d.map, d.at), at |-> Map!NextOf(d.map, d.at)]
           S == [map : MapType, at : HashNodes \cup {Null}]
           T == [i \in 0 .. n |-> {d \in S : /\ MapSound(d.map) /\ d.at = Map!begin(d.map)
                                             /\ d.map.count <= n - i}]
           G == [i \in 1 .. n |-> [d \in S |-> Once(d)]]
           x == [map |-> m, at |-> Map!begin(m)]
           F(h) == [i \in 0 .. n |-> IF i = 0 THEN x ELSE Once(h[i - 1])]
<1>2. x \in T[0]
  <2>1. m \in MapType /\ m.count <= n - 0
    BY <1>1, HeadOfEmpty DEF MapSound
  <2>2. Map!begin(m) \in HashNodes \cup {Null}
    BY BeginIs
  <2>3. x \in S
    BY <2>1, <2>2
  <2> HIDE DEF S
  <2>4. QED
    BY <2>1, <2>3
<1>3. ASSUME NEW i \in 1 .. n, NEW d \in T[i - 1]
      PROVE  d \in S /\ Once(d) \in T[i]
  <2>1. /\ i - 1 \in 0 .. n /\ i \in 0 .. n /\ d \in S /\ MapSound(d.map)
        /\ d.at = Map!begin(d.map) /\ d.map.count <= n - (i - 1)
    <3>1. i - 1 \in 0 .. n /\ i \in 0 .. n
      OBVIOUS
    <3> HIDE DEF S
    <3>2. QED
      BY <3>1
  <2>2. CASE d.at = Null
    <3>1. d.map.count = 0
      BY <2>1, <2>2, BeginIs
    <3>2. d.map.count <= n - i
      BY <1>1, <2>1, <3>1
    <3> HIDE DEF S
    <3>3. QED
      BY <2>1, <2>2, <3>2
  <2>3. CASE d.at # Null
    <3>1. PICK p \in HashNodes : p = d.at /\ d.map.nodes[p].key \in Keys
      BY <2>1, <2>3, BeginIs
    <3>2. PICK g : g = Map!erase(d.map, p)
      OBVIOUS
    <3>3. MapSound(g) /\ g.count = d.map.count - 1
      BY <2>1, <3>1, <3>2, EraseIs
    <3>4. Map!NextOf(d.map, p) = Map!begin(g)
      BY <2>1, <2>3, <3>1, <3>2, NextOfBegin
    <3>5. Once(d) = [map |-> g, at |-> Map!begin(g)]
      BY <2>3, <3>1, <3>2, <3>4
    <3>6. g \in MapType /\ Map!begin(g) \in HashNodes \cup {Null} /\ g.count <= n - i
      <4>1. g \in MapType /\ Map!begin(g) \in HashNodes \cup {Null}
        BY <3>3, BeginIs DEF MapSound
      <4>2. d.map.count \in Nat
        BY <2>1, HeadOfEmpty
      <4>3. QED
        BY <1>1, <2>1, <3>3, <4>1, <4>2
    <3>7. Once(d) \in S
      BY <3>5, <3>6
    <3> HIDE DEF S, Once
    <3>8. QED
      BY <2>1, <3>3, <3>5, <3>6, <3>7
  <2>4. QED
    BY <2>2, <2>3
<1>4. PICK f \in [0 .. n -> S] :
        /\ f[0] = x /\ \A i \in 1 .. n : f[i] = G[i][f[i - 1]]
        /\ \A i \in 0 .. n : f[i] \in T[i]
  <2>1. \A i \in 1 .. n : \A d \in T[i - 1] : G[i][d] \in T[i]
    <3> HIDE DEF T, S, Once
    <3>1. QED
      BY <1>3
  <2>2. T \in [0 .. n -> SUBSET S]
    <3> HIDE DEF S
    <3>1. QED
      OBVIOUS
  <2> HIDE DEF T, G, x, S
  <2>3. Leads(n, S, T, G, x)
    BY <1>2, <2>1, <2>2 DEF Leads
  <2>4. QED
    BY <2>3, LoopExists
<1>5. f = F(f) /\ \A i \in 0 .. n : f[i] = IF i = 0 THEN x ELSE Once(f[i - 1])
  <2> HIDE DEF x, T
  <2>1. ASSUME NEW i \in 1 .. n PROVE f[i] = Once(f[i - 1])
    <3>1. i - 1 \in 0 .. n
      OBVIOUS
    <3> HIDE DEF S, Once
    <3>2. QED
      BY <1>4, <3>1
  <2> HIDE DEF G, Once, S
  <2>2. \A i \in 0 .. n : i = 0 \/ i \in 1 .. n
    OBVIOUS
  <2>3. \A i \in 0 .. n : f[i] = IF i = 0 THEN x ELSE Once(f[i - 1])
    BY <1>4, <2>1, <2>2
  <2>4. f = [i \in 0 .. n |-> f[i]]
    BY <1>4
  <2>5. QED
    BY <2>3, <2>4
<1> DEFINE after == CHOOSE h : h = F(h)
<1>6. after = F(after)
  <2> HIDE DEF F
  <2>1. QED
    BY <1>5
<1>7. Map!clear(m) = after[n].map
  BY <1>1 DEF Map!clear, Map!EraseFrom
<1>8. after[n] = f[n]
  <2> HIDE DEF after, Once, x
  <2>1. GoAlike(after, f, n)
    <3>1. \A i \in 1 .. n : i # 0 /\ i \in 0 .. n
      OBVIOUS
    <3>2. \A i \in 0 .. n : after[i] = IF i = 0 THEN x ELSE Once(after[i - 1])
      BY <1>6
    <3>3. 0 \in 0 .. n
      OBVIOUS
    <3>4. QED
      BY <1>5, <3>1, <3>2, <3>3 DEF GoAlike
  <2> HIDE DEF F
  <2>2. \A i \in 0 .. n : after[i] = f[i]
    BY <2>1, SameLoop
  <2>3. QED
    BY <2>2
<1>9. MapSound(f[n].map) /\ f[n].map.count <= n - n
  <2> HIDE DEF F, S
  <2>1. n \in 0 .. n
    OBVIOUS
  <2>2. QED
    BY <1>4, <2>1
<1>10. PICK d : d = f[n].map /\ d = Map!clear(m)
  <2> HIDE DEF F, T, after
  <2>1. QED
    BY <1>7, <1>8
<1>11. MapSound(d) /\ UsedNodes(d) = {}
  BY <1>9, <1>10, HeadOfEmpty
<1>12. Map!KeysIn(d) = {}
  BY <1>11, SoundNodes, KeysAre DEF UsedNodes
<1>13. QED
  BY <1>10, <1>11, <1>12

----------------------------------------------------------------------------
(* Copying the map *)

LEMMA NewMapIs ==
    ASSUME NEW n \in Nat \ {0}
    PROVE  /\ MapSound(Map!NewMap(n)) /\ Map!KeysIn(Map!NewMap(n)) = {}
           /\ Len(Map!NewMap(n).buckets) = Map!capacity_factor(n)
           /\ Map!capacity_factor(n) \in Nat \ {0}
<1>1. PICK c \in Nat \ {0} : c = Map!capacity_factor(n)
  BY DEF Map!capacity_factor
<1>2. PICK d : d = Map!NewMap(n)
  OBVIOUS
<1>3. /\ d.buckets = [i \in 1 .. c |-> Map!NoBucket] /\ d.head = 0 /\ d.count = 0
      /\ d.nodes = [p \in HashNodes |-> Map!Freed]
      /\ d = [buckets |-> d.buckets, head |-> 0, count |-> 0, nodes |-> d.nodes]
  BY <1>1, <1>2 DEF Map!NewMap, Map!Table
<1>4. Map!NoBucket \in BucketType /\ Map!NoBucket.elems = Null /\ Map!NoBucket.size = 0
  BY DEF Map!NoBucket, BucketType
<1>5. d.buckets \in Seq(BucketType) /\ Len(d.buckets) = c
  BY <1>3, <1>4
<1>6. \A b \in 1 .. c : d.buckets[b] = Map!NoBucket
  BY <1>3
<1>7. d \in MapType
  <2>1. Map!Freed \in NodeType
    BY DEF Map!Freed, NodeType
  <2>2. d.nodes \in [HashNodes -> NodeType]
    BY <1>3, <2>1
  <2>3. QED
    BY <1>3, <1>5, <2>2 DEF MapType
<1>8. \A b \in 1 .. c : BucketSound(d, b)
  BY <1>4, <1>6 DEF BucketSound
<1>9. \A p \in HashNodes : ~Used(d, p)
  BY <1>3 DEF Used
<1>10. UsedNodes(d) = {} /\ Cardinality(UsedNodes(d)) = 0
  BY <1>9, FS_EmptySet DEF UsedNodes
<1>11. IsFirst(d.buckets, 0)
  BY <1>4, <1>5, <1>6 DEF IsFirst
<1>12. MapSound(d)
  BY <1>3, <1>5, <1>7, <1>8, <1>9, <1>10, <1>11 DEF MapSound, NodeSound
<1>13. Map!KeysIn(d) = {}
  BY <1>10 DEF Map!KeysIn, UsedNodes, Used
<1>14. QED
  BY <1>1, <1>2, <1>5, <1>12, <1>13

\* The nodes whose key belongs into the bucket b.
NodesOf(m, b) == {n \in HashNodes : m.nodes[n].key \in Keys /\ Map!mapkey(m, m.nodes[n].key) = b}

LEMMA ChainHasNodes ==
    ASSUME NEW m, MapSound(m), NEW b \in 1 .. Len(m.buckets)
    PROVE  Map!InBucket(m, b) \in Seq(HashNodes) /\ Elements(Map!InBucket(m, b)) = NodesOf(m, b)
<1>1. PICK e, o, c : e = m.buckets[b].elems /\ o = m.nodes[e].next /\ c = Map!InBucket(m, b)
  OBVIOUS
<1>2. c = IF e = Null THEN << >> ELSE IF o = Null THEN <<e>> ELSE <<e, o>>
  BY <1>1, InBucketIs
<1>3. BucketSound(m, b)
  BY SoundNodes
<1>4. ASSUME NEW n \in NodesOf(m, b)
      PROVE  e \in HashNodes /\ (n = e \/ (n = o /\ m.buckets[b].size = 2))
  BY <1>1, KeyIsNear DEF NodesOf
<1>5. CASE e = Null
  <2>1. c = << >> /\ NodesOf(m, b) = {}
    BY <1>2, <1>4, <1>5, MapConstants
  <2>2. c \in Seq(HashNodes) /\ Elements(c) = {}
    BY <2>1 DEF Elements
  <2>3. QED
    BY <1>1, <2>1, <2>2
<1>6. CASE e # Null /\ o = Null
  <2>1. c = <<e>> /\ e \in NodesOf(m, b)
    BY <1>1, <1>2, <1>3, <1>6 DEF BucketSound, NodesOf
  <2>2. NodesOf(m, b) = {e}
    BY <1>4, <1>6, <2>1, MapConstants DEF NodesOf
  <2>3. c \in Seq(HashNodes) /\ Elements(c) = {e}
    BY <2>1 DEF Elements, NodesOf
  <2>4. QED
    BY <1>1, <2>2, <2>3
<1>7. CASE e # Null /\ o # Null
  <2>1. /\ c = <<e, o>> /\ e \in HashNodes /\ m.nodes[e].key \in Keys
        /\ Map!mapkey(m, m.nodes[e].key) = b
        /\ o \in HashNodes /\ m.nodes[o].key \in Keys /\ Map!mapkey(m, m.nodes[o].key) = b
    BY <1>1, <1>2, <1>3, <1>7 DEF BucketSound
  <2>2. NodesOf(m, b) = {e, o}
    BY <1>4, <2>1 DEF NodesOf
  <2>3. c \in Seq(HashNodes) /\ Len(c) = 2 /\ DOMAIN c = 1 .. 2 /\ c[1] = e /\ c[2] = o
    BY <2>1
  <2>4. \A i \in 1 .. 2 : i = 1 \/ i = 2
    OBVIOUS
  <2>5. Elements(c) = {e, o}
    BY <2>3, <2>4 DEF Elements
  <2>6. QED
    BY <1>1, <2>2, <2>3, <2>5
<1>8. QED
  BY <1>5, <1>6, <1>7

LEMMA ConcatElements ==
    ASSUME NEW S, NEW s \in Seq(S), NEW t \in Seq(S)
    PROVE  s \o t \in Seq(S) /\ Elements(s \o t) = Elements(s) \cup Elements(t)
<1>1. /\ s \o t \in Seq(S) /\ Len(s \o t) = Len(s) + Len(t)
      /\ \A i \in 1 .. Len(s) + Len(t) :
           (s \o t)[i] = IF i <= Len(s) THEN s[i] ELSE t[i - Len(s)]
  BY ConcatProperties
<1>2. Len(s) \in Nat /\ Len(t) \in Nat /\ DOMAIN s = 1 .. Len(s) /\ DOMAIN t = 1 .. Len(t)
      /\ DOMAIN (s \o t) = 1 .. Len(s \o t)
  BY <1>1, LenProperties
<1>3. PICK u : u = s \o t
  OBVIOUS
<1>4. ASSUME NEW i \in DOMAIN u PROVE u[i] \in Elements(s) \cup Elements(t)
  <2>1. i \in 1 .. Len(s) + Len(t)
    BY <1>1, <1>2, <1>3, <1>4
  <2>2. CASE i <= Len(s)
    BY <1>1, <1>2, <1>3, <2>1, <2>2 DEF Elements
  <2>3. CASE ~(i <= Len(s))
    <3>1. i - Len(s) \in DOMAIN t
      BY <1>2, <2>1, <2>3
    <3>2. QED
      BY <1>1, <1>3, <2>1, <2>3, <3>1 DEF Elements
  <2>4. QED
    BY <2>2, <2>3
<1>5. ASSUME NEW i \in DOMAIN s PROVE s[i] \in Elements(u)
  <2>1. i \in DOMAIN u /\ u[i] = s[i]
    BY <1>1, <1>2, <1>3
  <2>2. QED
    BY <2>1 DEF Elements
<1>6. ASSUME NEW i \in DOMAIN t PROVE t[i] \in Elements(u)
  <2>1. i + Len(s) \in DOMAIN u /\ u[i + Len(s)] = t[i]
    BY <1>1, <1>2, <1>3
  <2>2. QED
    BY <2>1 DEF Elements
<1>7. Elements(u) \subseteq Elements(s) \cup Elements(t)
  BY <1>4 DEF Elements
<1>8. Elements(s) \subseteq Elements(u)
  BY <1>5 DEF Elements
<1>9. Elements(t) \subseteq Elements(u)
  BY <1>6 DEF Elements
<1>10. QED
  BY <1>1, <1>3, <1>7, <1>8, <1>9

\* The nodes of all chains are the used nodes.
LEMMA OrderIs ==
    ASSUME NEW m, MapSound(m)
    PROVE  Map!Order(m) \in Seq(HashNodes) /\ Elements(Map!Order(m)) = UsedNodes(m)
<1>1. PICK n \in Nat : n = Len(m.buckets)
  BY SoundNodes
<1> DEFINE S == Seq(HashNodes)
           Upto(i) == {p \in HashNodes : \E b \in 1 .. i : p \in NodesOf(m, b)}
           T == [i \in 0 .. n |-> {s \in S : Elements(s) = Upto(i)}]
           G == [i \in 1 .. n |-> [s \in S |-> s \o Map!InBucket(m, i)]]
           F(h) == [i \in 0 .. n |-> IF i = 0 THEN << >> ELSE h[i - 1] \o Map!InBucket(m, i)]
<1>2. PICK x : x = << >> /\ Leads(n, S, T, G, x)
  <2>1. << >> \in T[0]
    <3>1. << >> \in S /\ Elements(<< >>) = {} /\ Upto(0) = {}
      BY DEF Elements
    <3> HIDE DEF S, Upto
    <3>2. QED
      BY <3>1
  <2>2. ASSUME NEW i \in 1 .. n, NEW s \in T[i - 1] PROVE G[i][s] \in T[i]
    <3>1. i - 1 \in 0 .. n /\ i \in 0 .. n
      OBVIOUS
    <3>2. s \in S /\ Elements(s) = Upto(i - 1)
      <4> HIDE DEF S, Upto
      <4>1. QED
        BY <3>1
    <3>3. Map!InBucket(m, i) \in S /\ Elements(Map!InBucket(m, i)) = NodesOf(m, i)
      BY <1>1, ChainHasNodes
    <3>4. \A b \in 1 .. i : b = i \/ b \in 1 .. i - 1
      OBVIOUS
    <3>5. Upto(i) = Upto(i - 1) \cup NodesOf(m, i)
      BY <3>4 DEF NodesOf
    <3>6. s \o Map!InBucket(m, i) \in S /\ Elements(s \o Map!InBucket(m, i)) = Upto(i)
      BY <3>2, <3>3, <3>5, ConcatElements
    <3> HIDE DEF S, Upto
    <3>7. QED
      BY <3>1, <3>2, <3>6
  <2>3. T \in [0 .. n -> SUBSET S]
    <3> HIDE DEF S, Upto
    <3>1. QED
      OBVIOUS
  <2> HIDE DEF S, T, G
  <2>4. Leads(n, S, T, G, << >>)
    BY <2>1, <2>2, <2>3 DEF Leads
  <2>5. QED
    BY <2>4
<1>3. PICK f \in [0 .. n -> S] :
        /\ f[0] = x /\ \A i \in 1 .. n : f[i] = G[i][f[i - 1]]
        /\ \A i \in 0 .. n : f[i] \in T[i]
  <2> HIDE DEF S, T, G
  <2>1. QED
    BY <1>2, LoopExists
<1>4. f = F(f) /\ \A i \in 0 .. n : f[i] = IF i = 0 THEN << >> ELSE f[i - 1] \o Map!InBucket(m, i)
  <2> HIDE DEF T, S
  <2>1. ASSUME NEW i \in 1 .. n PROVE f[i] = f[i - 1] \o Map!InBucket(m, i)
    <3>1. i - 1 \in 0 .. n
      OBVIOUS
    <3>2. QED
      BY <1>3, <3>1
  <2> HIDE DEF G
  <2>2. \A i \in 0 .. n : i = 0 \/ i \in 1 .. n
    OBVIOUS
  <2>3. \A i \in 0 .. n : f[i] = IF i = 0 THEN << >> ELSE f[i - 1] \o Map!InBucket(m, i)
    BY <1>2, <1>3, <2>1, <2>2
  <2>4. f = [i \in 0 .. n |-> f[i]]
    BY <1>3
  <2>5. QED
    BY <2>3, <2>4
<1> DEFINE upto == CHOOSE h : h = F(h)
<1>5. upto = F(upto)
  <2> HIDE DEF F
  <2>1. QED
    BY <1>4
<1>6. Map!Order(m) = upto[n]
  BY <1>1 DEF Map!Order
<1>7. upto[n] = f[n]
  <2> HIDE DEF upto
  <2>1. GoAlike(upto, f, n)
    <3>1. \A i \in 1 .. n : i # 0 /\ i \in 0 .. n
      OBVIOUS
    <3>2. \A i \in 0 .. n : upto[i] = IF i = 0 THEN << >> ELSE upto[i - 1] \o Map!InBucket(m, i)
      BY <1>5
    <3>3. 0 \in 0 .. n
      OBVIOUS
    <3>4. QED
      BY <1>4, <3>1, <3>2, <3>3 DEF GoAlike
  <2> HIDE DEF F
  <2>2. \A i \in 0 .. n : upto[i] = f[i]
    BY <2>1, SameLoop
  <2>3. QED
    BY <2>2
<1>8. f[n] \in S /\ Elements(f[n]) = Upto(n)
  <2>1. n \in 0 .. n
    OBVIOUS
  <2> HIDE DEF S, Upto
  <2>2. QED
    BY <1>3, <2>1
<1>9. Upto(n) = UsedNodes(m)
  BY <1>1, SoundNodes DEF UsedNodes, NodesOf
<1>10. QED
  <2> HIDE DEF Upto, F, upto
  <2>1. QED
    BY <1>6, <1>7, <1>8, <1>9

\* Fewer keys do not crowd a bucket.
LEMMA SparseKeys ==
    ASSUME NEW X, NEW Y, Y \subseteq X, NEW n, Map!Sparse(X, n)
    PROVE  Map!Sparse(Y, n)
BY DEF Map!Sparse

\* rehash() makes a sound map of the same keys.
LEMMA RehashIs ==
    ASSUME NEW m, MapSound(m), NEW n \in Nat \ {0},
           Map!Sparse(Map!KeysIn(m), Map!capacity_factor(n))
    PROVE  MapSound(Map!rehash(m, n)) /\ Map!KeysIn(Map!rehash(m, n)) = Map!KeysIn(m)
<1>1a. PICK s : s = Map!Order(m)
  OBVIOUS
<1>1b. s \in Seq(HashNodes) /\ Elements(s) = UsedNodes(m)
  BY <1>1a, OrderIs
<1>1c. PICK l \in Nat : l = Len(s)
  BY <1>1b, LenProperties
<1>1d. PICK c, z : c = Map!capacity_factor(n) /\ z = Map!NewMap(n)
  OBVIOUS
<1>1. /\ s = Map!Order(m) /\ s \in Seq(HashNodes) /\ Elements(s) = UsedNodes(m) /\ l = Len(s)
      /\ c = Map!capacity_factor(n) /\ z = Map!NewMap(n)
  BY <1>1a, <1>1b, <1>1c, <1>1d
<1>2. \A i \in 1 .. l : s[i] \in HashNodes /\ m.nodes[s[i]].key \in Keys
                        /\ m.nodes[s[i]].key \in Map!KeysIn(m)
  <2>1. ASSUME NEW i \in 1 .. l PROVE s[i] \in UsedNodes(m)
    BY <1>1 DEF Elements
  <2>2. QED
    BY <2>1, SoundNodes, KeysAre DEF UsedNodes
<1> DEFINE Copied(i) == {m.nodes[s[j]].key : j \in 1 .. i}
           T == [i \in 0 .. l |-> {d \in MapType : /\ MapSound(d) /\ Map!KeysIn(d) = Copied(i)
                                                   /\ Len(d.buckets) = c}]
           G == [i \in 1 .. l |-> [d \in MapType |-> Map!insert(d, m.nodes[s[i]].key)]]
           F(h) == [i \in 0 .. l |->
                      IF i = 0 THEN z ELSE Map!insert(h[i - 1], m.nodes[s[i]].key)]
<1>3. Leads(l, MapType, T, G, z)
  <2>1. z \in T[0]
    <3>0. Copied(0) = {}
      <4>1. 1 .. 0 = {}
        OBVIOUS
      <4>2. QED
        BY <4>1
    <3>1. MapSound(z) /\ Map!KeysIn(z) = {} /\ Len(z.buckets) = c /\ Copied(0) = {}
      <4> HIDE DEF Copied, T, G
      <4>1. QED
        BY <1>1, <3>0, NewMapIs
    <3>2. z \in MapType
      BY <3>1 DEF MapSound
    <3> HIDE DEF Copied
    <3>3. 0 \in 0 .. l
      BY <1>1c
    <3>4. T[0] = {d \in MapType : /\ MapSound(d) /\ Map!KeysIn(d) = Copied(0)
                                  /\ Len(d.buckets) = c}
      BY <3>3
    <3> HIDE DEF T
    <3>5. QED
      BY <3>1, <3>2, <3>4
  <2>2. ASSUME NEW i \in 1 .. l, NEW d \in T[i - 1] PROVE G[i][d] \in T[i]
    <3>1. i - 1 \in 0 .. l /\ i \in 0 .. l
      OBVIOUS
    <3>2. d \in MapType /\ MapSound(d) /\ Map!KeysIn(d) = Copied(i - 1) /\ Len(d.buckets) = c
      <4> HIDE DEF Copied
      <4>1. QED
        BY <3>1
    <3>3. PICK k, e : k \in Keys /\ k = m.nodes[s[i]].key /\ e = Map!insert(d, k)
      BY <1>2
    <3>4. \A j \in 1 .. i : j = i \/ j \in 1 .. i - 1
      OBVIOUS
    <3>5. Copied(i) = Copied(i - 1) \cup {k}
      <4>1. \A j \in 1 .. i - 1 : j \in 1 .. i
        OBVIOUS
      <4>2. i \in 1 .. i
        OBVIOUS
      <4>3. Copied(i - 1) \cup {k} \subseteq Copied(i)
        BY <3>3, <4>1, <4>2
      <4>4. Copied(i) \subseteq Copied(i - 1) \cup {k}
        BY <3>3, <3>4
      <4> HIDE DEF Copied
      <4>5. QED
        BY <4>3, <4>4
    <3>6. Copied(i) \subseteq Map!KeysIn(m)
      <4>1. \A j \in 1 .. i : j \in 1 .. l
        OBVIOUS
      <4>2. QED
        BY <1>2, <4>1
    <3>7. Map!Sparse(Map!KeysIn(d) \cup {k}, Len(d.buckets))
      <4> HIDE DEF Copied
      <4>1. QED
        BY <1>1, <3>2, <3>5, <3>6, SparseKeys
    <3>8. MapSound(e) /\ Map!KeysIn(e) = Copied(i) /\ Len(e.buckets) = c
      <4> HIDE DEF Copied
      <4>1. /\ MapSound(Map!insert(d, k)) /\ Map!KeysIn(Map!insert(d, k)) = Map!KeysIn(d) \cup {k}
            /\ Len(Map!insert(d, k).buckets) = Len(d.buckets)
        <5>1. MapSound(d) /\ k \in Keys
          BY <3>3, <3>2
        <5> HIDE DEF T, G
        <5>2. QED
          BY <5>1, <3>7, InsertIs
      <4>2. QED
        BY <3>2, <3>3, <3>5, <4>1
    <3>9. e \in MapType
      BY <3>8 DEF MapSound
    <3> HIDE DEF Copied
    <3>10. QED
      BY <3>1, <3>2, <3>3, <3>8, <3>9
  <2>3. T \in [0 .. l -> SUBSET MapType]
    OBVIOUS
  <2> HIDE DEF T, G
  <2>4. QED
    BY <2>1, <2>2, <2>3 DEF Leads
<1>4. PICK f \in [0 .. l -> MapType] :
        /\ f[0] = z /\ \A i \in 1 .. l : f[i] = G[i][f[i - 1]]
        /\ \A i \in 0 .. l : f[i] \in T[i]
  <2> HIDE DEF T, G
  <2>1. QED
    BY <1>3, LoopExists
<1>5. /\ f = F(f)
      /\ \A i \in 0 .. l : f[i] = IF i = 0 THEN z ELSE Map!insert(f[i - 1], m.nodes[s[i]].key)
  <2> HIDE DEF T
  <2>1. ASSUME NEW i \in 1 .. l PROVE f[i] = Map!insert(f[i - 1], m.nodes[s[i]].key)
    <3>1. i - 1 \in 0 .. l
      OBVIOUS
    <3>2. QED
      BY <1>4, <3>1
  <2> HIDE DEF G
  <2>2. \A i \in 0 .. l : i = 0 \/ i \in 1 .. l
    OBVIOUS
  <2>3. \A i \in 0 .. l :
          f[i] = IF i = 0 THEN z ELSE Map!insert(f[i - 1], m.nodes[s[i]].key)
    BY <1>4, <2>1, <2>2
  <2>4. f = [i \in 0 .. l |-> f[i]]
    BY <1>4
  <2>5. QED
    BY <2>3, <2>4
<1> DEFINE copied == CHOOSE h : h = F(h)
<1>6. copied = F(copied)
  <2> HIDE DEF F
  <2>1. QED
    BY <1>5
<1>7. Map!rehash(m, n) = copied[l]
  BY <1>1 DEF Map!rehash
<1>8. copied[l] = f[l]
  <2> HIDE DEF copied
  <2>1. GoAlike(copied, f, l)
    <3>1. \A i \in 1 .. l : i # 0 /\ i \in 0 .. l
      OBVIOUS
    <3>2. \A i \in 0 .. l :
            copied[i] = IF i = 0 THEN z ELSE Map!insert(copied[i - 1], m.nodes[s[i]].key)
      BY <1>6
    <3>3. 0 \in 0 .. l
      OBVIOUS
    <3>4. QED
      BY <1>5, <3>1, <3>2, <3>3 DEF GoAlike
  <2> HIDE DEF F
  <2>2. \A i \in 0 .. l : copied[i] = f[i]
    BY <2>1, SameLoop
  <2>3. QED
    BY <2>2
<1>9. MapSound(f[l]) /\ Map!KeysIn(f[l]) = Copied(l)
  <2>1. l \in 0 .. l
    OBVIOUS
  <2> HIDE DEF Copied
  <2>2. QED
    BY <1>4, <2>1
<1>10. Copied(l) = Map!KeysIn(m)
  <2>1. ASSUME NEW k \in Map!KeysIn(m) PROVE k \in Copied(l)
    <3>1. PICK p \in HashNodes : m.nodes[p].key = k /\ k \in Keys
      BY KeysAre
    <3>2. p \in Elements(s)
      BY <1>1, <3>1, SoundNodes DEF UsedNodes
    <3>3. PICK j \in 1 .. l : s[j] = p
      BY <1>1, <3>2 DEF Elements
    <3>4. QED
      BY <3>1, <3>3
  <2>2. Copied(l) \subseteq Map!KeysIn(m)
    BY <1>2
  <2> HIDE DEF Copied
  <2>3. QED
    BY <2>1, <2>2
<1>11. QED
  <2> HIDE DEF Copied, F, copied
  <2>1. QED
    BY <1>7, <1>8, <1>9, <1>10

----------------------------------------------------------------------------
(* The steps *)

\* A sound map's step leaves it sound, and is the same call of a map of unique
\* keys.
MapStepIs(m, d, c) ==
    /\ MapSound(d)
    /\ \/ d = m /\ c = mCall
       \/ c = <<"clear">> /\ Map!KeysIn(d) = {}
       \/ c = <<"rehash">> /\ Map!KeysIn(d) = Map!KeysIn(m)
       \/ \E k \in Keys :
            \/ c = <<"insert", k, k \notin Map!KeysIn(m)>> /\ Map!KeysIn(d) = Map!KeysIn(m) \cup {k}
            \/ c = <<"find", k, k \in Map!KeysIn(m)>> /\ Map!KeysIn(d) = Map!KeysIn(m)
            \/ c = <<"erase", k, k \in Map!KeysIn(m)>> /\ Map!KeysIn(d) = Map!KeysIn(m) \ {k}

LEMMA FoundIs ==
    ASSUME NEW m, MapSound(m), NEW k \in Keys
    PROVE  Map!find(m, k) # Null <=> k \in Map!KeysIn(m)
<1>1. PICK n \in HashNodes \cup {Null} :
        /\ n = Map!find(m, k)
        /\ n # Null => m.nodes[n].key = k
        /\ n = Null => \A p \in HashNodes : m.nodes[p].key # k
  BY FindIs
<1>2. Map!KeysIn(m) = {i \in Keys : \E p \in HashNodes : m.nodes[p].key = i}
  BY KeysAre
<1>3. QED
  BY <1>1, <1>2, MapConstants

\* A map that was crowded once is so from then on.
LEMMA MapCrowds ==
    ASSUME mCrowded \in BOOLEAN, [Map!Next]_mapVars
    PROVE  mCrowded' \in BOOLEAN /\ (mCrowded => mCrowded')
<1>1. CASE UNCHANGED mapVars
  BY <1>1 DEF mapVars
<1>2. CASE Map!Clear
  BY <1>2 DEF Map!Clear
<1>3. ASSUME NEW n \in 1 .. MaxBuckets, Map!Rehash(n)
      PROVE  mCrowded' \in BOOLEAN /\ (mCrowded => mCrowded')
  <2>1. ~mCrowded
    BY <1>3 DEF Map!Rehash
  <2>2. mCrowded' = (Len(mMap.buckets) < n
                     /\ ~Map!Sparse(Map!KeysIn(mMap), Map!capacity_factor(n)))
    BY <1>3 DEF Map!Rehash
  <2>3. QED
    BY <2>1, <2>2, Zenon
<1>4. ASSUME NEW k \in Keys, Map!Insert(k)
      PROVE  mCrowded' \in BOOLEAN /\ (mCrowded => mCrowded')
  <2>1. mCrowded' = (mCrowded \/ ~Map!Sparse(Map!KeysIn(mMap) \cup {k}, Len(mMap.buckets)))
    BY <1>4 DEF Map!Insert
  <2>2. QED
    BY <2>1, Zenon
<1>5. ASSUME NEW k \in Keys, Map!Find(k) \/ Map!Erase(k)
      PROVE  mCrowded' \in BOOLEAN /\ (mCrowded => mCrowded')
  BY <1>5 DEF Map!Find, Map!Erase
<1>6. QED
  BY <1>1, <1>2, <1>3, <1>4, <1>5 DEF Map!Next

LEMMA MapStep ==
    ASSUME MapSound(mMap), mCrowded \in BOOLEAN, ~mCrowded', [Map!Next]_mapVars
    PROVE  MapStepIs(mMap, mMap', mCall')
<1>1. CASE UNCHANGED mapVars
  BY <1>1 DEF mapVars, MapStepIs
<1>2. CASE Map!Clear
  BY <1>2, ClearIs DEF Map!Clear, Map!Did, MapStepIs
<1>3. ASSUME NEW n \in 1 .. MaxBuckets, Map!Rehash(n)
      PROVE  MapStepIs(mMap, mMap', mCall')
  <2>1. /\ mCall' = <<"rehash">>
        /\ mMap' = IF Len(mMap.buckets) >= n THEN mMap ELSE Map!rehash(mMap, n)
    BY <1>3 DEF Map!Rehash, Map!Did
  <2>2. n \in Nat \ {0} /\ Len(mMap.buckets) \in Nat
    BY MapConstants, SoundNodes
  <2>3. CASE Len(mMap.buckets) >= n
    BY <2>1, <2>3 DEF MapStepIs
  <2>4. CASE ~(Len(mMap.buckets) >= n)
    <3>1. Len(mMap.buckets) < n
      BY <2>2, <2>4
    <3>2. mCrowded' = (Len(mMap.buckets) < n
                       /\ ~Map!Sparse(Map!KeysIn(mMap), Map!capacity_factor(n)))
      BY <1>3 DEF Map!Rehash
    <3>3. Map!Sparse(Map!KeysIn(mMap), Map!capacity_factor(n))
      BY <3>1, <3>2, Zenon
    <3>4. /\ MapSound(Map!rehash(mMap, n))
          /\ Map!KeysIn(Map!rehash(mMap, n)) = Map!KeysIn(mMap)
      BY <2>2, <3>3, RehashIs
    <3>5. QED
      BY <2>1, <2>4, <3>4 DEF MapStepIs
  <2>5. QED
    BY <2>3, <2>4
<1>4. ASSUME NEW k \in Keys, Map!Insert(k)
      PROVE  MapStepIs(mMap, mMap', mCall')
  <2>0. mCrowded' = (mCrowded \/ ~Map!Sparse(Map!KeysIn(mMap) \cup {k}, Len(mMap.buckets)))
    BY <1>4 DEF Map!Insert
  <2>1. /\ mMap' = Map!insert(mMap, k) /\ mCall' = <<"insert", k, Map!insert(mMap, k) # mMap>>
        /\ Map!Sparse(Map!KeysIn(mMap) \cup {k}, Len(mMap.buckets))
    <3>1. Map!Sparse(Map!KeysIn(mMap) \cup {k}, Len(mMap.buckets))
      BY <2>0, Zenon
    <3>2. QED
      BY <1>4, <3>1 DEF Map!Insert, Map!Did
  <2>2. /\ MapSound(Map!insert(mMap, k))
        /\ Map!KeysIn(Map!insert(mMap, k)) = Map!KeysIn(mMap) \cup {k}
        /\ Map!insert(mMap, k) # mMap <=> k \notin Map!KeysIn(mMap)
    BY <2>1, InsertIs
  <2>3. mCall' = <<"insert", k, k \notin Map!KeysIn(mMap)>>
    BY <2>1, <2>2
  <2>4. QED
    BY <2>1, <2>2, <2>3 DEF MapStepIs
<1>5. ASSUME NEW k \in Keys, Map!Find(k)
      PROVE  MapStepIs(mMap, mMap', mCall')
  <2>1. mMap' = mMap /\ mCall' = <<"find", k, Map!find(mMap, k) # Null>>
    BY <1>5 DEF Map!Find, Map!Did
  <2>2. mCall' = <<"find", k, k \in Map!KeysIn(mMap)>>
    BY <2>1, FoundIs
  <2>3. QED
    BY <2>1, <2>2 DEF MapStepIs
<1>6. ASSUME NEW k \in Keys, Map!Erase(k)
      PROVE  MapStepIs(mMap, mMap', mCall')
  <2>1. PICK n : n = Map!find(mMap, k)
    OBVIOUS
  <2>2. /\ mCall' = <<"erase", k, n # Null>>
        /\ mMap' = IF n = Null THEN mMap ELSE Map!erase(mMap, n)
    BY <1>6, <2>1 DEF Map!Erase, Map!Did
  <2>3. n # Null <=> k \in Map!KeysIn(mMap)
    BY <2>1, FoundIs
  <2>4. mCall' = <<"erase", k, k \in Map!KeysIn(mMap)>>
    BY <2>2, <2>3
  <2>5. MapSound(mMap') /\ Map!KeysIn(mMap') = Map!KeysIn(mMap) \ {k}
    <3>1. CASE n = Null
      BY <2>2, <2>3, <3>1
    <3>2. CASE n # Null
      <4>1. n \in HashNodes /\ mMap.nodes[n].key = k
        BY <2>1, <3>2, FindIs
      <4>2. /\ MapSound(Map!erase(mMap, n))
            /\ Map!KeysIn(Map!erase(mMap, n)) = Map!KeysIn(mMap) \ {mMap.nodes[n].key}
        BY <4>1, EraseIs
      <4>3. QED
        BY <2>2, <3>2, <4>1, <4>2
    <3>3. QED
      BY <3>1, <3>2
  <2>6. QED
    BY <2>4, <2>5 DEF MapStepIs
<1>7. QED
  BY <1>1, <1>2, <1>3, <1>4, <1>5, <1>6 DEF Map!Next

MapInv == mCrowded \in BOOLEAN /\ (mCrowded \/ MapSound(mMap))

LEMMA MapMoves ==
    ASSUME MapInv, [Next]_mcvars
    PROVE  /\ mCrowded' \in BOOLEAN
           /\ mCrowded' \/ (MapSound(mMap) /\ MapStepIs(mMap, mMap', mCall'))
<1>1. [Map!Next]_mapVars
  BY Moves
<1>2. mCrowded' \in BOOLEAN /\ (mCrowded => mCrowded')
  BY <1>1, MapCrowds DEF MapInv
<1>3. ASSUME ~mCrowded'
      PROVE  MapSound(mMap) /\ MapStepIs(mMap, mMap', mCall')
  <2>1. MapSound(mMap) /\ mCrowded \in BOOLEAN
    BY <1>2, <1>3, Zenon DEF MapInv
  <2>2. QED
    BY <1>1, <1>3, <2>1, MapStep
<1>4. QED
  BY <1>2, <1>3, Zenon

\* Whatever is inserted, erased, cleared and copied, the map is sound until the
\* first bucket that has three nodes, or two of one hash: buckets and nodes
\* agree on who is where, and m_head and m_count are those of the nodes.
THEOREM MapInvariant == Spec => []MapInv
<1>1. Init => MapInv
  <2>1. ASSUME Init PROVE mMap = Map!NewMap(2) /\ mCrowded = FALSE
    BY <2>1 DEF Init, Map!Init
  <2>2. MapSound(Map!NewMap(2))
    BY NewMapIs
  <2>3. QED
    BY <2>1, <2>2 DEF MapInv
<1>2. MapInv /\ [Next]_mcvars => MapInv'
  <2>1. ASSUME MapInv, [Next]_mcvars PROVE MapInv'
    <3>1. mCrowded' \in BOOLEAN /\ (mCrowded' \/ MapSound(mMap'))
      BY <2>1, MapMoves DEF MapStepIs
    <3>2. QED
      BY <3>1, Zenon DEF MapInv
  <2>2. QED
    BY <2>1
<1>3. QED
  BY <1>1, <1>2, PTL DEF Spec

----------------------------------------------------------------------------
(* What a sound map has *)

LEMMA NodesCounted ==
    /\ Cardinality(HashNodes) \in Nat
    /\ \A e \in HashNodes : 1 <= Cardinality(HashNodes)
    /\ \A e, o \in HashNodes : e # o => 2 <= Cardinality(HashNodes)
<1>1. IsFiniteSet(HashNodes) /\ Cardinality(HashNodes) \in Nat
  BY MapConstants, FS_CardinalityType
<1>2. ASSUME NEW e \in HashNodes
      PROVE  IsFiniteSet({e}) /\ Cardinality({e}) = 1 /\ 1 <= Cardinality(HashNodes)
  <2>1. {e} \subseteq HashNodes
    OBVIOUS
  <2>2. IsFiniteSet({e}) /\ Cardinality({e}) = 1
    BY FS_Singleton
  <2>3. QED
    BY <1>1, <2>1, <2>2, FS_Subset
<1>3. ASSUME NEW e \in HashNodes, NEW o \in HashNodes, e # o
      PROVE  2 <= Cardinality(HashNodes)
  <2>1. {e} \cup {o} \subseteq HashNodes /\ o \notin {e}
    BY <1>3
  <2>2. Cardinality({e} \cup {o}) = 2
    <3>1. PICK S : S = {e} /\ IsFiniteSet(S) /\ Cardinality(S) = 1 /\ o \notin S
      BY <1>2, <2>1
    <3>2. Cardinality(S \cup {o}) = 2
      BY <3>1, FS_AddElement
    <3>3. QED
      BY <3>1, <3>2
  <2>3. Cardinality({e} \cup {o}) <= Cardinality(HashNodes)
    BY <1>1, <2>1, FS_Subset
  <2>4. QED
    BY <2>2, <2>3
<1>4. QED
  BY <1>1, <1>2, <1>3

LEMMA MapTypes == MapInv => Map!TypeOK
<1>0. CASE mCrowded
  BY <1>0 DEF MapInv, Map!TypeOK
<1>1. SUFFICES ASSUME MapSound(mMap), mCrowded \in BOOLEAN PROVE Map!TypeOK
  BY <1>0, Zenon DEF MapInv
<1>2. /\ mMap.nodes \in [HashNodes -> NodeType] /\ mMap.head \in 0 .. Len(mMap.buckets)
      /\ \A b \in 1 .. Len(mMap.buckets) : mMap.buckets[b] \in BucketType /\ BucketSound(mMap, b)
  BY <1>1, SoundNodes DEF MapSound, IsFirst
<1>3. PICK N \in Nat : N = Cardinality(HashNodes) /\ N = Map!Cardinality(HashNodes)
  BY MapConstants, NodesCounted
<1>4. ASSUME NEW b \in 1 .. Len(mMap.buckets)
      PROVE  mMap.buckets[b] \in [elems : HashNodes \cup {Null}, size : 0 .. N, hash : Nat, dirty : BOOLEAN]
  <2>1. PICK e \in HashNodes \cup {Null}, z \in Nat, h \in Nat, d \in BOOLEAN :
          mMap.buckets[b] = [elems |-> e, size |-> z, hash |-> h, dirty |-> d]
    BY <1>2 DEF BucketType
  <2>2. \/ z = 0
        \/ z = 1 /\ e \in HashNodes
        \/ /\ z = 2 /\ e \in HashNodes /\ mMap.nodes[e].next \in HashNodes
           /\ Hash(mMap.nodes[mMap.nodes[e].next].key) # Hash(mMap.nodes[e].key)
    <3>1. BucketSound(mMap, b) /\ mMap.buckets[b].elems = e /\ mMap.buckets[b].size = z
      BY <1>2, <2>1
    <3>2. QED
      BY <3>1, Zenon DEF BucketSound
  <2>3. z \in 0 .. N
    BY <1>3, <2>2, NodesCounted
  <2>4. QED
    BY <2>1, <2>3
<1>5. QED
  BY <1>1, <1>2, <1>3, <1>4 DEF Map!TypeOK, NodeType

LEMMA MapTable == MapInv => Map!TableIsSound
<1>0. CASE mCrowded
  BY <1>0 DEF Map!TableIsSound
<1>1. SUFFICES ASSUME MapSound(mMap) PROVE Map!TableIsSound
  BY <1>0, Zenon DEF MapInv
<1>2. ASSUME NEW b \in 1 .. Len(mMap.buckets), NEW c, c = Map!InBucket(mMap, b)
      PROVE  /\ mMap.buckets[b].size = Len(c)
             /\ \A i \in 1 .. Len(c) :
                  /\ Map!mapkey(mMap, mMap.nodes[c[i]].key) = b
                  /\ mMap.nodes[c[i]].prev = (IF i = 1 THEN Null ELSE c[i - 1])
                  /\ i = 1 \/ ~mMap.buckets[b].dirty => Map!hkey(mMap, c[i]) = mMap.buckets[b].hash
  <2>1. PICK e, o : e = mMap.buckets[b].elems /\ o = mMap.nodes[e].next
    OBVIOUS
  <2>2. BucketSound(mMap, b)
    BY <1>1, SoundNodes
  <2>3. c = IF e = Null THEN << >> ELSE IF o = Null THEN <<e>> ELSE <<e, o>>
    BY <1>1, <1>2, <2>1, InBucketIs
  <2>4. \A n \in HashNodes : Map!hkey(mMap, n) = Hash(mMap.nodes[n].key)
    BY DEF Map!hkey
  <2>5. CASE e = Null
    <3>1. c = << >> /\ mMap.buckets[b].size = 0
      BY <2>1, <2>2, <2>3, <2>5, MapConstants DEF BucketSound
    <3>2. QED
      BY <3>1
  <2>6. CASE e # Null /\ o = Null
    <3>1. /\ c = <<e>> /\ mMap.buckets[b].size = 1 /\ e \in HashNodes
          /\ mMap.buckets[b].hash = Hash(mMap.nodes[e].key) /\ mMap.nodes[e].prev = Null
          /\ Map!mapkey(mMap, mMap.nodes[e].key) = b
      BY <2>1, <2>2, <2>3, <2>6, MapConstants DEF BucketSound
    <3>2. Len(c) = 1 /\ \A i \in 1 .. Len(c) : i = 1 /\ c[i] = e
      BY <3>1
    <3>3. QED
      BY <2>4, <3>1, <3>2
  <2>7. CASE e # Null /\ o # Null
    <3>1. /\ c = <<e, o>> /\ mMap.buckets[b].size = 2 /\ e \in HashNodes /\ o \in HashNodes
          /\ mMap.buckets[b].hash = Hash(mMap.nodes[e].key) /\ mMap.nodes[e].prev = Null
          /\ Map!mapkey(mMap, mMap.nodes[e].key) = b /\ mMap.buckets[b].dirty
          /\ Map!mapkey(mMap, mMap.nodes[o].key) = b /\ mMap.nodes[o].prev = e
      <4>1. mMap.buckets[b].elems # Null /\ mMap.nodes[mMap.buckets[b].elems].next # Null
        BY <2>1, <2>7
      <4>2. /\ mMap.buckets[b].size = 2 /\ e \in HashNodes /\ o \in HashNodes
            /\ mMap.buckets[b].hash = Hash(mMap.nodes[e].key) /\ mMap.nodes[e].prev = Null
            /\ Map!mapkey(mMap, mMap.nodes[e].key) = b /\ mMap.buckets[b].dirty
            /\ Map!mapkey(mMap, mMap.nodes[o].key) = b /\ mMap.nodes[o].prev = e
        BY <2>1, <2>2, <4>1, Zenon DEF BucketSound
      <4>3. QED
        BY <2>3, <2>7, <4>2
    <3>2. Len(c) = 2 /\ c[1] = e /\ c[2] = o /\ \A i \in 1 .. Len(c) : i = 1 \/ i = 2
      BY <3>1
    <3>3. QED
      BY <2>4, <3>1, <3>2
  <2>8. QED
    BY <2>5, <2>6, <2>7
<1>3. mMap.head = Map!FirstUsed(mMap.buckets)
  BY <1>1, SoundNodes, FirstUsedIs DEF MapSound
<1>4. Map!Allocated = UsedNodes(mMap)
  BY DEF Map!Allocated, UsedNodes, Used
<1>5. mMap.count = Map!Cardinality(Map!Allocated)
  BY <1>1, <1>4, MapConstants DEF MapSound
<1>6. Map!Allocated = Map!ToSet(Map!Order(mMap))
  <2>1. /\ Map!Order(mMap) \in Seq(HashNodes)
        /\ Elements(Map!Order(mMap)) = UsedNodes(mMap)
    BY <1>1, OrderIs
  <2>2. QED
    BY <1>4, <2>1 DEF Elements, Map!ToSet
<1>7. QED
  BY <1>2, <1>3, <1>5, <1>6 DEF Map!TableIsSound

\* Buckets, nodes and the head keep their types, and a bucket has no more nodes
\* than there are, until a bucket is crowded.
THEOREM MapIsTyped == Spec => []Map!TypeOK
BY MapInvariant, MapTypes, PTL

\* Every bucket's chain is linked both ways and holds the nodes that map to it,
\* its size and its hash are right, and m_head and m_count are the first bucket
\* in use and the number of nodes (insert, erase, clear, rehash), as long as no
\* bucket had three nodes, or two of one hash (lines 664-699).
THEOREM MapTableIsSound == Spec => []Map!TableIsSound
BY MapInvariant, MapTable, PTL

\* insert, find, erase, clear and rehash return what those of a map of unique keys
\* return, up to the call that puts three keys into one bucket, or two keys of
\* one hash into the map.
THEOREM MapIsAMap == Spec => MapImplementsMap
<1>1. ASSUME Init PROVE Map!Calls!Init
  <2>1. mMap = Map!NewMap(2) /\ mCall = <<"none">>
    BY <1>1 DEF Init, Map!Init
  <2>2. QED
    BY <2>1, NewMapIs DEF Map!Calls!Init
<1>2. MapInv /\ [Next]_mcvars
        => [Map!Calls!Next \/ mCrowded']_<<Map!KeysIn(mMap), mCall>>
  <2>1. SUFFICES ASSUME MapInv, [Next]_mcvars, ~mCrowded'
        PROVE  [Map!Calls!Next]_<<Map!KeysIn(mMap), mCall>>
    BY Zenon
  <2>2. MapStepIs(mMap, mMap', mCall')
    BY <2>1, MapMoves, Zenon
  <2>3. Map!KeysIn(mMap)' = Map!KeysIn(mMap')
    BY DEF Map!KeysIn
  <2>4. QED
    BY <2>2, <2>3 DEF MapStepIs, Map!Calls!Next, Map!Calls!Insert, Map!Calls!Find, Map!Calls!Erase,
         Map!Calls!Clear, Map!Calls!Rehash
<1>3. QED
  BY <1>1, <1>2, MapInvariant, PTL DEF Spec, MapImplementsMap, Map!ImplementsMap

----------------------------------------------------------------------------
(* All components together *)

LEMMA StringTypesAreOK == ASSUME StringInv, StringRoom PROVE Strings!TypeOK
<1>1. /\ StringTypes /\ IsFiniteSet(Threads) /\ IsFiniteSet(Strings!Handles)
      /\ \A S : Strings!Cardinality(S) = Cardinality(S)
  BY StringConstants DEF StringInv
<1>2. ASSUME NEW b \in Strings!Allocated
      PROVE  sHeap[b].ref \in 0 .. Strings!Cardinality(Strings!Handles) + Strings!Cardinality(Threads)
  <2>1. Sharers(b) \subseteq Strings!Handles /\ Strings!InCalls(b) \subseteq Threads
    BY DEF Sharers, Strings!InCalls
  <2>2. PICK m, n, p, q : /\ m = Cardinality(Sharers(b)) /\ n = Cardinality(Strings!InCalls(b))
                          /\ p = Cardinality(Strings!Handles) /\ q = Cardinality(Threads)
    OBVIOUS
  <2>3. m \in Nat /\ p \in Nat /\ m <= p
    BY <1>1, <2>1, <2>2, FS_Subset, FS_CardinalityType
  <2>4. n \in Nat /\ q \in Nat /\ n <= q
    BY <1>1, <2>1, <2>2, FS_Subset, FS_CardinalityType
  <2>5. sHeap[b].ref = m + n
    BY <2>2 DEF StringInv, StringCounts
  <2>6. QED
    BY <1>1, <2>2, <2>3, <2>4, <2>5
<1>3. ASSUME NEW b \in Strings!Allocated
      PROVE  sHeap[b].text \in Seq(Letters) /\ Len(sHeap[b].text) < sHeap[b].capacity
  <2>1. sHeap[b] \in StringBlocks
    BY <1>1 DEF StringTypes
  <2>2. sHeap[b].text \in Seq(Letters) /\ sHeap[b].capacity \in Nat
    BY <2>1 DEF StringBlocks
  <2>3. Len(sHeap[b].text) + 1 <= sHeap[b].capacity
    BY DEF StringRoom, HasRoom
  <2>4. QED
    BY <2>2, <2>3, LenProperties
<1>4. ASSUME NEW t \in Threads PROVE sCall[t].at \in Strings!Places
  BY <1>1, StringCall DEF Strings!Places, Appending, Locked
<1>5. sPtr \in [Strings!Handles -> Blocks \cup {Empty, Literal}] /\ Strings!Allocated \subseteq Blocks
  BY <1>1 DEF StringTypes, Refs
<1>6. QED
  BY <1>2, <1>3, <1>4, <1>5 DEF Strings!TypeOK

LEMMA LibraryTypesAreOK == ASSUME LibraryInv PROVE Library!TypeOK
<1>1. iUp \subseteq 1 .. Last
  <2>1. CASE \E t \in Callers : Library!Busy(t)
    BY <2>1, LibraryConstants DEF LibraryInv, LibraryTurns, LibraryTypes
  <2>2. CASE ~ \E t \in Callers : Library!Busy(t)
    BY <2>2, LibraryConstants DEF LibraryInv, LibraryAtRest, Library!MayEnter
  <2>3. QED
    BY <2>1, <2>2
<1>2. QED
  BY <1>1, LibraryConstants DEF LibraryInv, LibraryTypes, Library!TypeOK, Library!Components

LEMMA ListTypesAreOK == ASSUME ListInv PROVE List!TypeOK
<1>1. PICK s \in Seq(Nodes) : ListRing(s)
  BY DEF ListInv
<1>2. lSize \in Nat
  BY <1>1, LenProperties DEF ListRing, RingOf
<1>3. QED
  BY <1>2, ListConstants DEF ListInv, ListTypes, List!TypeOK

LEMMA VectorTypesAreOK == ASSUME VectorInv PROVE Vector!TypeOK
BY DEF VectorInv

\* Strings, initialization, list, vector, circular buffer, hash map and rundown
\* guard keep their types, however many threads, blocks, components, nodes, slots
\* and keys there are: a block has room for its text and the zero behind it, no
\* count passes its bound, no index leaves its storage (vector and circular
\* buffer up to a call that strays, hash map until a bucket is crowded).
THEOREM ObjectsKeepTypes == Spec => []TypeOK
<1>1. StringInv /\ StringRoom => Strings!TypeOK
  BY StringTypesAreOK
<1>2. LibraryInv => Library!TypeOK
  BY LibraryTypesAreOK
<1>3. ListInv => List!TypeOK
  BY ListTypesAreOK
<1>4. VectorInv => Vector!TypeOK
  BY VectorTypesAreOK
<1>5. BufferInv => Ring!TypeOK
  BY BufferTypes
<1>6. GuardInv => Guard!TypeOK
  BY DEF GuardInv
<1>7. StringInv /\ StringRoom /\ LibraryInv /\ ListInv /\ VectorInv /\ BufferInv
      /\ Map!TypeOK /\ GuardInv => TypeOK
  BY <1>1, <1>2, <1>3, <1>4, <1>5, <1>6 DEF TypeOK
<1>8. QED
  BY <1>7, StringInvariant, BlocksHaveRoom, LibraryInvariant, ListInvariant, VectorInvariant,
     BufferInvariant, MapIsTyped, GuardInvariant, PTL

\* In a circular buffer of any capacity no slot is constructed twice or used
\* without an object, the objects are where m_first, m_last and m_size say, and
\* linearize() leaves one piece, up to an insertion of several amid the storage
\* (is_uninitialized(), line 853); in a hash map of any number of keys the
\* buckets agree with the nodes until one of them is crowded.
THEOREM StorageStaysSound == Spec => []StorageIsSound
<1>1. BufferInv => Ring!LifetimesRespected /\ Ring!LiveFromFirst /\ Ring!Linearized
  BY BufferLives DEF BufferInv
<1>2. BufferInv /\ Map!TableIsSound => StorageIsSound
  BY <1>1 DEF StorageIsSound
<1>3. QED
  BY <1>2, BufferInvariant, MapTableIsSound, PTL

\* Under their calls an intrusive list of any length is a sequence of nodes; a
\* vector of any size is a list, and a circular buffer of any capacity a list of
\* bounded length, up to the calls that stray.
THEOREM ContainersAreSequences == Spec => ContainersAreLists
BY ListIsAList, VectorIsAList, BufferIsARing, PTL DEF ContainersAreLists
=============================================================================
