----------------------------- MODULE RingLemmas -----------------------------
(***************************************************************************)
(* Facts that the proofs about lists need: taking an element out of a      *)
(* sequence or putting one in, and rings of links that stand for a         *)
(* sequence.  And loops: functions defined by recursion on a counter.      *)
(***************************************************************************)
EXTENDS Naturals, Sequences, FiniteSets, TLAPS, FiniteSetTheorems, SequenceTheorems,
        WellFoundedInduction

----------------------------------------------------------------------------
(* The least of some numbers: what stands in for induction on them *)

LEMMA LeastNat ==
    ASSUME NEW T \in SUBSET Nat, T # {}
    PROVE  \E m \in T : \A k \in T : m <= k
<1>1. IsWellFoundedOn(OpToRel(<, Nat), Nat)
  BY NatLessThanWellFounded
<1>2. PICK m \in T : \A k \in T : ~(<<k, m>> \in OpToRel(<, Nat))
  BY <1>1, WFMin
<1>3. \A k \in T : k < m => <<k, m>> \in OpToRel(<, Nat)
  BY DEF OpToRel
<1>4. \A k \in T : ~(k < m)
  BY <1>2, <1>3
<1>5. QED
  BY <1>4

----------------------------------------------------------------------------
(* Taking an element out of a sequence *)

Without(s, i) == SubSeq(s, 1, i - 1) \o SubSeq(s, i + 1, Len(s))
Elements(s) == {s[i] : i \in DOMAIN s}
Distinct(s) == \A i, j \in DOMAIN s : s[i] = s[j] => i = j

LEMMA WithoutProperties ==
    ASSUME NEW S, NEW s \in Seq(S), NEW i \in 1 .. Len(s)
    PROVE  /\ Without(s, i) \in Seq(S) /\ Len(Without(s, i)) = Len(s) - 1
           /\ \A j \in 1 .. Len(s) - 1 :
                 Without(s, i)[j] = s[IF j < i THEN j ELSE j + 1]
<1> DEFINE m == Len(s)
           left == SubSeq(s, 1, i - 1)
           right == SubSeq(s, i + 1, m)
           rest == Without(s, i)
<1>1. /\ m \in Nat /\ i \in 1 .. m /\ DOMAIN s = 1 .. m
      /\ \A j \in 1 .. m : s[j] \in S
  OBVIOUS
<1>2. /\ left \in Seq(S) /\ Len(left) = i - 1
      /\ \A j \in 1 .. i - 1 : left[j] = s[j]
  <2>1. \A j \in 1 .. i - 1 : s[j] \in S
    BY <1>1
  <2>2. QED
    BY <1>1, <2>1, SubSeqProperties
<1>3. /\ right \in Seq(S) /\ Len(right) = m - i
      /\ \A j \in 1 .. m - i : right[j] = s[i + j]
  <2>1. \A j \in i + 1 .. m : s[j] \in S
    BY <1>1
  <2>2. /\ right \in Seq(S)
        /\ Len(right) = IF i + 1 <= m THEN m - (i + 1) + 1 ELSE 0
        /\ \A j \in 1 .. m - (i + 1) + 1 : right[j] = s[(i + 1) + j - 1]
    BY <1>1, <2>1, SubSeqProperties
  <2> HIDE DEF left, right, m
  <2>3. /\ m - (i + 1) + 1 = m - i /\ (i + 1 <= m <=> m - i > 0) /\ m - i >= 0
        /\ \A j \in 1 .. m - i : (i + 1) + j - 1 = i + j
    BY <1>1
  <2>4. Len(right) = m - i
    BY <1>1, <2>2, <2>3
  <2>5. \A j \in 1 .. m - i : right[j] = s[i + j]
    BY <2>2, <2>3
  <2>6. QED
    BY <2>2, <2>4, <2>5
<1>4. /\ rest \in Seq(S) /\ Len(rest) = m - 1
      /\ \A j \in 1 .. m - 1 : rest[j] = IF j <= i - 1 THEN left[j] ELSE right[j - (i - 1)]
  <2>1. rest = left \o right
    BY DEF Without
  <2> HIDE DEF left, right, rest
  <2>2. /\ rest \in Seq(S) /\ Len(rest) = Len(left) + Len(right)
        /\ \A j \in 1 .. Len(left) + Len(right) :
              rest[j] = IF j <= Len(left) THEN left[j] ELSE right[j - Len(left)]
    BY <1>2, <1>3, <2>1, ConcatProperties
  <2>3. (i - 1) + (m - i) = m - 1
    BY <1>1
  <2>4. QED
    BY <1>2, <1>3, <2>2, <2>3
<1> HIDE DEF left, right, rest
<1>5. ASSUME NEW j \in 1 .. m - 1 PROVE rest[j] = s[IF j < i THEN j ELSE j + 1]
  <2>1. CASE j < i
    <3>1. j <= i - 1 /\ j \in 1 .. i - 1
      BY <1>1, <2>1
    <3>2. QED
      BY <1>2, <1>4, <2>1, <3>1
  <2>2. CASE ~(j < i)
    <3>1. ~(j <= i - 1) /\ j - (i - 1) \in 1 .. m - i /\ i + (j - (i - 1)) = j + 1
      BY <1>1, <2>2
    <3>2. QED
      BY <1>3, <1>4, <2>2, <3>1
  <2>3. QED
    BY <2>1, <2>2
<1>6. QED
  BY <1>4, <1>5 DEF rest

\* A sequence whose elements are distinct loses the one taken out.
LEMMA WithoutDistinct ==
    ASSUME NEW S, NEW s \in Seq(S), NEW i \in 1 .. Len(s), Distinct(s)
    PROVE  Distinct(Without(s, i)) /\ Elements(Without(s, i)) = Elements(s) \ {s[i]}
<1> DEFINE m == Len(s)
           rest == Without(s, i)
           h(j) == IF j < i THEN j ELSE j + 1
<1>1. /\ m \in Nat /\ i \in 1 .. m /\ DOMAIN s = 1 .. m /\ DOMAIN rest = 1 .. m - 1
      /\ \A j \in 1 .. m - 1 : rest[j] = s[h(j)]
  <2>1. rest \in Seq(S) /\ Len(rest) = m - 1 /\ \A j \in 1 .. m - 1 : rest[j] = s[h(j)]
    BY WithoutProperties
  <2> HIDE DEF rest, h
  <2>2. QED
    BY <2>1
<1> HIDE DEF rest
<1>2. \A j \in 1 .. m - 1 : h(j) \in 1 .. m /\ h(j) # i
  BY <1>1
<1>3. \A j, k \in 1 .. m - 1 : h(j) = h(k) => j = k
  BY <1>1
<1>4. ASSUME NEW k \in 1 .. m, k # i PROVE \E j \in 1 .. m - 1 : h(j) = k
  <2>1. CASE k < i
    <3>1. k \in 1 .. m - 1 /\ h(k) = k
      BY <1>1, <2>1
    <3>2. QED
      BY <3>1
  <2>2. CASE ~(k < i)
    <3>1. k - 1 \in 1 .. m - 1 /\ h(k - 1) = k
      BY <1>1, <1>4, <2>2
    <3>2. QED
      BY <3>1
  <2>3. QED
    BY <2>1, <2>2
<1> HIDE DEF h
<1>5. Distinct(rest)
  BY <1>1, <1>2, <1>3 DEF Distinct
<1>6. Elements(rest) \subseteq Elements(s) \ {s[i]}
  BY <1>1, <1>2 DEF Distinct, Elements
<1>7. Elements(s) \ {s[i]} \subseteq Elements(rest)
  <2>1. SUFFICES ASSUME NEW k \in 1 .. m, s[k] # s[i] PROVE s[k] \in Elements(rest)
    BY <1>1 DEF Elements
  <2>2. PICK j \in 1 .. m - 1 : h(j) = k
    BY <1>4, <2>1
  <2>3. QED
    BY <1>1, <2>2 DEF Elements
<1>8. QED
  BY <1>5, <1>6, <1>7 DEF rest

\* One that is new to it may be appended.
LEMMA AppendDistinct ==
    ASSUME NEW S, NEW s \in Seq(S), NEW e \in S, Distinct(s), e \notin Elements(s)
    PROVE  /\ Append(s, e) \in Seq(S) /\ Len(Append(s, e)) = Len(s) + 1
           /\ Distinct(Append(s, e)) /\ Elements(Append(s, e)) = Elements(s) \cup {e}
BY AppendProperties DEF Distinct, Elements

\* So does one whose head goes.
LEMMA TailDistinct ==
    ASSUME NEW S, NEW s \in Seq(S), s # <<>>, Distinct(s)
    PROVE  /\ Tail(s) \in Seq(S) /\ Len(Tail(s)) = Len(s) - 1 /\ Distinct(Tail(s))
           /\ Head(s) \in Elements(s) /\ Elements(Tail(s)) = Elements(s) \ {Head(s)}
<1>1. /\ Len(s) \in Nat \ {0} /\ DOMAIN s = 1 .. Len(s) /\ Head(s) = s[1]
      /\ Tail(s) \in Seq(S) /\ Len(Tail(s)) = Len(s) - 1
      /\ DOMAIN Tail(s) = 1 .. Len(s) - 1
      /\ \A i \in 1 .. Len(s) - 1 : Tail(s)[i] = s[i + 1]
  BY HeadTailProperties
<1>2. Distinct(Tail(s))
  BY <1>1 DEF Distinct
<1>3. Head(s) \in Elements(s)
  BY <1>1 DEF Elements
<1>4. Elements(Tail(s)) \subseteq Elements(s) \ {Head(s)}
  BY <1>1 DEF Distinct, Elements
<1>5. ASSUME NEW k \in 1 .. Len(s), s[k] # s[1] PROVE s[k] \in Elements(Tail(s))
  <2>1. k - 1 \in 1 .. Len(s) - 1 /\ (k - 1) + 1 = k
    BY <1>1, <1>5
  <2>2. QED
    BY <1>1, <2>1 DEF Elements
<1>6. QED
  BY <1>1, <1>2, <1>3, <1>4, <1>5 DEF Elements

\* Or put before the others.
LEMMA PrependDistinct ==
    ASSUME NEW S, NEW s \in Seq(S), NEW e \in S, Distinct(s), e \notin Elements(s)
    PROVE  /\ <<e>> \o s \in Seq(S) /\ Len(<<e>> \o s) = Len(s) + 1
           /\ Distinct(<<e>> \o s) /\ Elements(<<e>> \o s) = Elements(s) \cup {e}
           /\ (<<e>> \o s)[1] = e /\ \A i \in 1 .. Len(s) : (<<e>> \o s)[i + 1] = s[i]
<1>0. PICK t : t = <<e>> \o s
  OBVIOUS
<1>1. /\ t \in Seq(S) /\ Len(t) = Len(s) + 1 /\ t[1] = e
      /\ \A i \in 1 .. Len(s) : t[i + 1] = s[i]
  <2>1. <<e>> \in Seq(S) /\ Len(<<e>>) = 1 /\ <<e>>[1] = e
    OBVIOUS
  <2>2. /\ t \in Seq(S) /\ Len(t) = 1 + Len(s)
        /\ \A i \in 1 .. 1 + Len(s) : t[i] = IF i <= 1 THEN <<e>>[i] ELSE s[i - 1]
    BY <1>0, <2>1, ConcatProperties
  <2>3. /\ Len(s) \in Nat /\ 1 \in 1 .. 1 + Len(s)
        /\ \A i \in 1 .. Len(s) : i + 1 \in 1 .. 1 + Len(s) /\ ~(i + 1 <= 1) /\ (i + 1) - 1 = i
    OBVIOUS
  <2>4. QED
    BY <2>1, <2>2, <2>3
<1>2. /\ Len(s) \in Nat /\ DOMAIN s = 1 .. Len(s) /\ DOMAIN t = 1 .. Len(s) + 1
      /\ 1 \in 1 .. Len(s) + 1
  BY <1>1
<1>3. \A j \in 1 .. Len(s) + 1 : j = 1 \/ \E i \in 1 .. Len(s) : j = i + 1
  <2>1. ASSUME NEW j \in 1 .. Len(s) + 1, j # 1 PROVE \E i \in 1 .. Len(s) : j = i + 1
    <3>1. j - 1 \in 1 .. Len(s) /\ j = (j - 1) + 1
      BY <1>2, <2>1
    <3>2. QED
      BY <3>1
  <2>2. QED
    BY <2>1
<1>4. \A i \in 1 .. Len(s) : i + 1 \in 1 .. Len(s) + 1 /\ i + 1 # 1
  BY <1>2
<1>5. \A i \in 1 .. Len(s) : s[i] # e
  BY <1>2 DEF Elements
<1>6. Distinct(t)
  <2>1. SUFFICES ASSUME NEW i \in 1 .. Len(s) + 1, NEW j \in 1 .. Len(s) + 1, t[i] = t[j]
                 PROVE  i = j
    BY <1>2 DEF Distinct
  <2>2. \A h, k \in 1 .. Len(s) : s[h] = s[k] => h = k
    BY <1>2 DEF Distinct
  <2>3. CASE i = 1 /\ j = 1
    BY <2>3
  <2>4. CASE i # 1 /\ j = 1
    BY <1>1, <1>3, <1>5, <2>1, <2>4
  <2>5. CASE i = 1 /\ j # 1
    BY <1>1, <1>3, <1>5, <2>1, <2>5
  <2>6. CASE i # 1 /\ j # 1
    <3>1. PICK h \in 1 .. Len(s), k \in 1 .. Len(s) : i = h + 1 /\ j = k + 1
      BY <1>3, <2>6
    <3>2. QED
      BY <1>1, <2>1, <2>2, <3>1
  <2>7. QED
    BY <2>3, <2>4, <2>5, <2>6
<1>7. Elements(t) = Elements(s) \cup {e}
  <2>1. /\ Elements(t) = {t[j] : j \in 1 .. Len(s) + 1}
        /\ Elements(s) = {s[i] : i \in 1 .. Len(s)}
    BY <1>2 DEF Elements
  <2>2. e \in Elements(t)
    BY <1>1, <1>2, <2>1
  <2>3. ASSUME NEW i \in 1 .. Len(s) PROVE s[i] \in Elements(t)
    BY <1>1, <1>4, <2>1
  <2>4. ASSUME NEW j \in 1 .. Len(s) + 1 PROVE t[j] \in Elements(s) \cup {e}
    <3>1. CASE j = 1
      BY <1>1, <3>1
    <3>2. CASE j # 1
      <4>1. PICK i \in 1 .. Len(s) : j = i + 1
        BY <1>3, <3>2
      <4>2. QED
        BY <1>1, <2>1, <4>1
    <3>3. QED
      BY <3>1, <3>2
  <2>5. QED
    BY <2>1, <2>2, <2>3, <2>4
<1>8. QED
  BY <1>0, <1>1, <1>6, <1>7

\* A sequence of distinct elements is as long as they are many.
LEMMA DistinctLength ==
    ASSUME NEW S, IsFiniteSet(S), NEW s \in Seq(S), Distinct(s)
    PROVE  Len(s) = Cardinality(Elements(s)) /\ Len(s) <= Cardinality(S) /\ Cardinality(S) \in Nat
<1>1. Len(s) \in Nat /\ DOMAIN s = 1 .. Len(s) /\ \A i \in 1 .. Len(s) : s[i] \in S
  OBVIOUS
<1>2. s \in Bijection(1 .. Len(s), Elements(s))
  <2>1. s \in [1 .. Len(s) -> Elements(s)]
    BY <1>1 DEF Elements
  <2>2. \A i, j \in 1 .. Len(s) : s[i] = s[j] => i = j
    BY <1>1 DEF Distinct
  <2>3. \A e \in Elements(s) : \E i \in 1 .. Len(s) : s[i] = e
    BY <1>1 DEF Elements
  <2>4. QED
    BY <2>1, <2>2, <2>3 DEF Bijection, Injection, Surjection, IsInjective
<1>3. Cardinality(Elements(s)) = Len(s)
  BY <1>1, <1>2, FS_CountingElements DEF ExistsBijection
<1>4. Elements(s) \in SUBSET S
  BY <1>1 DEF Elements
<1>5. QED
  BY <1>3, <1>4, FS_Subset, FS_CardinalityType

----------------------------------------------------------------------------
(* Rings of links: those of the nodes N, through the root, that stand for  *)
(* the sequence s; the other nodes have none                               *)

\* The sequence s, from the root and back to it.
Spot(root, s, i) == IF i \in 1 .. Len(s) THEN s[i] ELSE root
RingOf(N, root, null, next, prev, size, s) ==
    /\ size = Len(s) /\ Distinct(s)
    /\ \A i \in 0 .. Len(s) :
         /\ next[Spot(root, s, i)] = Spot(root, s, i + 1)
         /\ prev[Spot(root, s, i + 1)] = Spot(root, s, i)
    /\ \A n \in N \ Elements(s) : next[n] = null /\ prev[n] = null

LEMMA SpotIsUnique ==
    ASSUME NEW N, NEW root, NEW null, NEW A, A = N \cup {root}, root \notin N, null \notin A,
           NEW s \in Seq(N), Distinct(s)
    PROVE  /\ \A i \in 0 .. Len(s) : Spot(root, s, i) \in A /\ (Spot(root, s, i) = root <=> i = 0)
           /\ \A i, j \in 0 .. Len(s) : Spot(root, s, i) = Spot(root, s, j) => i = j
           /\ \A i, j \in 1 .. Len(s) + 1 : Spot(root, s, i) = Spot(root, s, j) => i = j
           /\ \A i \in 1 .. Len(s) : Spot(root, s, i) \in N
           /\ Spot(root, s, Len(s) + 1) = root
           /\ \A n \in Elements(s) \cup {root} : \E i \in 0 .. Len(s) : n = Spot(root, s, i)
<1>1. /\ Len(s) \in Nat /\ DOMAIN s = 1 .. Len(s) /\ \A i \in 1 .. Len(s) : s[i] \in N
      /\ root \notin N
  OBVIOUS
<1>2. \A i \in 0 .. Len(s) : i = 0 \/ i \in 1 .. Len(s)
  BY <1>1
<1>3. 0 \notin 1 .. Len(s) /\ Len(s) + 1 \notin 1 .. Len(s) /\ 0 \in 0 .. Len(s)
  BY <1>1
<1>4. \A i \in 0 .. Len(s) : Spot(root, s, i) \in A /\ (Spot(root, s, i) = root <=> i = 0)
  BY <1>1, <1>2, <1>3 DEF Spot
<1>5. \A i, j \in 0 .. Len(s) : Spot(root, s, i) = Spot(root, s, j) => i = j
  BY <1>1, <1>2, <1>3, <1>4 DEF Spot, Distinct
<1>6. \A i \in 1 .. Len(s) : i \in 0 .. Len(s)
  BY <1>1
<1>7. \A n \in Elements(s) \cup {root} : \E i \in 0 .. Len(s) : n = Spot(root, s, i)
  BY <1>1, <1>3, <1>6 DEF Elements, Spot
<1>8. \A i \in 1 .. Len(s) + 1 : i = Len(s) + 1 \/ i \in 1 .. Len(s)
  BY <1>1
<1>9. \A i, j \in 1 .. Len(s) + 1 : Spot(root, s, i) = Spot(root, s, j) => i = j
  BY <1>1, <1>3, <1>8 DEF Spot, Distinct
<1>10. QED
  BY <1>1, <1>3, <1>4, <1>5, <1>7, <1>9 DEF Spot

\* push_back() adds a node at the end.
LEMMA RingAdd ==
    ASSUME NEW N, NEW root, NEW null, NEW A, A = N \cup {root}, root \notin N, null \notin A,
           NEW s \in Seq(N), NEW next \in [A -> A \cup {null}],
           NEW prev \in [A -> A \cup {null}], NEW size, RingOf(N, root, null, next, prev, size, s),
           NEW n \in N \ Elements(s)
    PROVE  RingOf(N, root, null, [next EXCEPT ![n] = root, ![prev[root]] = n],
                [prev EXCEPT ![n] = prev[root], ![root] = n], size + 1, Append(s, n))
<1> DEFINE m == Len(s)
           t == Append(s, n)
           next1 == [next EXCEPT ![n] = root, ![prev[root]] = n]
           prev1 == [prev EXCEPT ![n] = prev[root], ![root] = n]
<1>1. /\ m \in Nat /\ t \in Seq(N) /\ Len(t) = m + 1 /\ Distinct(t) /\ size + 1 = m + 1
      /\ Elements(t) = Elements(s) \cup {n} /\ n # root /\ n \in A /\ root \in A
  BY AppendDistinct DEF RingOf
<1>2. /\ \A i \in 0 .. m : Spot(root, t, i) = Spot(root, s, i)
      /\ Spot(root, t, m + 1) = n /\ Spot(root, t, m + 2) = root
  BY <1>1, AppendProperties DEF Spot
<1>3. /\ \A i \in 0 .. m : Spot(root, s, i) \in A /\ (Spot(root, s, i) = root <=> i = 0)
      /\ \A i, j \in 0 .. m : Spot(root, s, i) = Spot(root, s, j) => i = j
      /\ Spot(root, s, m + 1) = root
  BY SpotIsUnique DEF RingOf
<1>4. \A i \in 0 .. m : next[Spot(root, s, i)] = Spot(root, s, i + 1) /\ prev[Spot(root, s, i + 1)] = Spot(root, s, i)
  BY DEF RingOf
<1>5. prev[root] = Spot(root, s, m) /\ m \in 0 .. m
  BY <1>1, <1>3, <1>4
<1>6. \A i \in 0 .. m : Spot(root, s, i) # n
  BY <1>1, <1>2, <1>5 DEF Spot, Elements
<1> HIDE DEF m, t
<1>7. ASSUME NEW i \in 0 .. m + 1
      PROVE  next1[Spot(root, t, i)] = Spot(root, t, i + 1) /\ prev1[Spot(root, t, i + 1)] = Spot(root, t, i)
  <2>1. CASE i \in 0 .. m - 1
    <3>1. i \in 0 .. m /\ i + 1 \in 0 .. m /\ i # m /\ i + 1 # 0
      BY <1>1, <2>1
    <3>2. QED
      BY <1>1, <1>2, <1>3, <1>4, <1>5, <1>6, <3>1
  <2>2. CASE i = m
    BY <1>1, <1>2, <1>3, <1>5, <1>6, <2>2
  <2>3. CASE i = m + 1
    <3>1. i + 1 = m + 2
      BY <1>1, <2>3
    <3>2. QED
      BY <1>1, <1>2, <1>3, <1>5, <1>6, <2>3, <3>1
  <2>4. QED
    BY <1>1, <2>1, <2>2, <2>3
<1>8. ASSUME NEW k \in N \ Elements(t) PROVE next1[k] = null /\ prev1[k] = null
  <2>1. k \in N \ Elements(s) /\ k # n /\ k # root /\ k \in A
    BY <1>1
  <2>2. k # prev[root]
    <3>1. next[k] = null
      BY <2>1 DEF RingOf
    <3>2. next[prev[root]] # null
      BY <1>3, <1>4, <1>5
    <3>3. QED
      BY <3>1, <3>2
  <2>3. QED
    BY <2>1, <2>2 DEF RingOf
<1>9. QED
  BY <1>1, <1>7, <1>8 DEF RingOf, t

\* _delete() takes one out.
LEMMA RingDelete ==
    ASSUME NEW N, NEW root, NEW null, NEW A, A = N \cup {root}, root \notin N, null \notin A,
           NEW s \in Seq(N), NEW next \in [A -> A \cup {null}],
           NEW prev \in [A -> A \cup {null}], NEW size, RingOf(N, root, null, next, prev, size, s),
           NEW i \in 1 .. Len(s)
    PROVE  RingOf(N, root, null, [next EXCEPT ![prev[s[i]]] = next[s[i]], ![s[i]] = null],
                [prev EXCEPT ![next[s[i]]] = prev[s[i]], ![s[i]] = null], size - 1, Without(s, i))
<1> DEFINE m == Len(s)
           n == s[i]
           t == Without(s, i)
           next1 == [next EXCEPT ![prev[n]] = next[n], ![n] = null]
           prev1 == [prev EXCEPT ![next[n]] = prev[n], ![n] = null]
<1>1. /\ m \in Nat /\ i \in 1 .. m /\ n \in N /\ DOMAIN s = 1 .. m /\ size = m
      /\ root \notin N /\ Distinct(s)
  BY DEF RingOf
<1>2. /\ t \in Seq(N) /\ Len(t) = m - 1 /\ Distinct(t) /\ Elements(t) = Elements(s) \ {n}
      /\ \A j \in 1 .. m - 1 : t[j] = s[IF j < i THEN j ELSE j + 1]
  BY <1>1, WithoutProperties, WithoutDistinct
<1>3. /\ \A j \in 0 .. m : Spot(root, s, j) \in A
      /\ \A j, k \in 0 .. m : Spot(root, s, j) = Spot(root, s, k) => j = k
      /\ \A j, k \in 1 .. m + 1 : Spot(root, s, j) = Spot(root, s, k) => j = k
      /\ \A j \in 1 .. m : Spot(root, s, j) \in N
      /\ Spot(root, s, 0) = root /\ Spot(root, s, m + 1) = root
  <2>1. 0 \notin 1 .. m
    BY <1>1
  <2>2. QED
    BY <1>1, <2>1, SpotIsUnique DEF Spot
<1>4. \A j \in 0 .. m : next[Spot(root, s, j)] = Spot(root, s, j + 1) /\ prev[Spot(root, s, j + 1)] = Spot(root, s, j)
  BY DEF RingOf
<1>5. n = Spot(root, s, i) /\ next[n] = Spot(root, s, i + 1) /\ prev[n] = Spot(root, s, i - 1)
  <2>1. i \in 0 .. m /\ i - 1 \in 0 .. m /\ i - 1 + 1 = i
    BY <1>1
  <2>2. n = Spot(root, s, i)
    BY <1>1 DEF Spot
  <2>3. QED
    BY <1>4, <2>1, <2>2
<1>6. \A j \in 0 .. m : Spot(root, t, j) = Spot(root, s, IF j < i THEN j ELSE j + 1)
  <2>1. \A j \in 1 .. m - 1 : Spot(root, t, j) = Spot(root, s, IF j < i THEN j ELSE j + 1)
    <3>1. \A j \in 1 .. m - 1 : j \in 1 .. m /\ j + 1 \in 1 .. m
      BY <1>1
    <3>2. QED
      BY <1>1, <1>2, <3>1 DEF Spot
  <2>2. Spot(root, t, 0) = Spot(root, s, 0) /\ 0 < i
    <3>1. 0 \notin 1 .. m /\ 0 \notin 1 .. m - 1
      BY <1>1
    <3>2. QED
      BY <1>1, <1>2, <3>1 DEF Spot
  <2>3. Spot(root, t, m) = Spot(root, s, m + 1) /\ ~(m < i)
    <3>1. m + 1 \notin 1 .. m /\ m \notin 1 .. m - 1
      BY <1>1
    <3>2. QED
      BY <1>1, <1>2, <3>1 DEF Spot
  <2>4. \A j \in 0 .. m : j = 0 \/ j = m \/ j \in 1 .. m - 1
    <3>1. m \in Nat
      BY <1>1
    <3> HIDE DEF m
    <3>2. QED
      BY <3>1
  <2>5. ASSUME NEW j \in 0 .. m
        PROVE  Spot(root, t, j) = Spot(root, s, IF j < i THEN j ELSE j + 1)
    <3> HIDE DEF m, t, n
    <3>1. CASE j = 0
      BY <1>1, <2>2, <3>1
    <3>2. CASE j = m
      BY <1>1, <2>3, <3>2
    <3>3. CASE j \in 1 .. m - 1
      BY <2>1, <3>3
    <3>4. QED
      BY <2>4, <3>1, <3>2, <3>3
  <2>6. QED
    BY <2>5
<1> HIDE DEF m, t, n
<1>7. ASSUME NEW j \in 0 .. m - 1
      PROVE  next1[Spot(root, t, j)] = Spot(root, t, j + 1) /\ prev1[Spot(root, t, j + 1)] = Spot(root, t, j)
  <2>0. /\ j \in 0 .. m /\ j + 1 \in 0 .. m /\ j + 1 \in 1 .. m /\ j + 2 \in 1 .. m + 1 /\ i \in 0 .. m
        /\ i - 1 \in 0 .. m /\ i + 1 \in 1 .. m + 1 /\ j + 1 \in 1 .. m + 1 /\ i \in 1 .. m + 1
        /\ j + 1 + 1 = j + 2
    BY <1>1
  <2>1. /\ Spot(root, s, i - 1) \in A /\ n \in A /\ Spot(root, s, i + 1) \in A
        /\ Spot(root, s, j) \in A /\ Spot(root, s, j + 1) \in A /\ Spot(root, s, j + 2) \in A
        /\ Spot(root, s, i + 1) # n /\ Spot(root, s, i - 1) # n
    <3>1. \A k \in 1 .. m + 1 : k = m + 1 \/ k \in 1 .. m
      BY <1>1
    <3>2. \A k \in 1 .. m + 1 : Spot(root, s, k) \in A
      BY <1>3, <3>1
    <3>3. i # i + 1 /\ i # i - 1
      BY <1>1
    <3>4. QED
      BY <1>1, <1>3, <1>5, <2>0, <3>2, <3>3
  <2>2. CASE j < i - 1
    <3>1. j # i - 1 /\ j # i /\ j + 1 # i + 1 /\ j + 1 # i /\ j < i /\ j + 1 < i
      BY <1>1, <2>2
    <3>2. Spot(root, t, j) = Spot(root, s, j) /\ Spot(root, t, j + 1) = Spot(root, s, j + 1)
      BY <1>6, <2>0, <3>1
    <3>3. Spot(root, s, j) # Spot(root, s, i - 1) /\ Spot(root, s, j) # n /\ Spot(root, s, j + 1) # Spot(root, s, i + 1) /\ Spot(root, s, j + 1) # n
      BY <1>3, <1>5, <2>0, <3>1
    <3>4. QED
      BY <1>4, <1>5, <2>0, <2>1, <3>2, <3>3
  <2>3. CASE j = i - 1
    <3>1. j < i /\ ~(j + 1 < i) /\ j + 2 = i + 1
      BY <1>1, <2>3
    <3>2. Spot(root, t, j) = Spot(root, s, i - 1) /\ Spot(root, t, j + 1) = Spot(root, s, i + 1)
      BY <1>6, <2>0, <2>3, <3>1
    <3>3. QED
      BY <1>4, <1>5, <2>0, <2>1, <3>2
  <2>4. CASE j >= i
    <3>1. ~(j < i) /\ ~(j + 1 < i) /\ j + 1 # i - 1 /\ j + 1 # i /\ j + 2 # i + 1 /\ j + 2 # i
      BY <1>1, <2>4
    <3>2. Spot(root, t, j) = Spot(root, s, j + 1) /\ Spot(root, t, j + 1) = Spot(root, s, j + 2)
      BY <1>6, <2>0, <3>1
    <3>3. /\ Spot(root, s, j + 1) # Spot(root, s, i - 1) /\ Spot(root, s, j + 1) # n
          /\ Spot(root, s, j + 2) # Spot(root, s, i + 1) /\ Spot(root, s, j + 2) # n
      BY <1>3, <1>5, <2>0, <3>1
    <3>4. next[Spot(root, s, j + 1)] = Spot(root, s, j + 2) /\ prev[Spot(root, s, j + 2)] = Spot(root, s, j + 1)
      BY <1>4, <2>0
    <3>5. QED
      BY <1>5, <2>1, <3>2, <3>3, <3>4
  <2>5. QED
    BY <1>1, <2>2, <2>3, <2>4
<1>8. ASSUME NEW k \in N \ Elements(t) PROVE next1[k] = null /\ prev1[k] = null
  <2>1. CASE k = n
    BY <1>1, <1>3, <2>1
  <2>2. CASE k # n
    <3>1. k \in N \ Elements(s) /\ k \in A
      BY <1>2, <2>2
    <3>2. next[k] = null /\ prev[k] = null
      BY <3>1 DEF RingOf
    <3>3. next[prev[n]] = n /\ prev[next[n]] = n
      <4>1. i - 1 \in 0 .. m /\ i - 1 + 1 = i /\ i \in 0 .. m
        BY <1>1
      <4>2. QED
        BY <1>4, <1>5, <4>1
    <3>4. k # prev[n] /\ k # next[n]
      BY <1>1, <3>2, <3>3
    <3>5. QED
      BY <2>2, <3>1, <3>2, <3>4
  <2>3. QED
    BY <2>1, <2>2
<1>9. size - 1 = Len(t)
  BY <1>1, <1>2
<1>10. QED
  BY <1>2, <1>7, <1>8, <1>9 DEF RingOf, t, n

\* push_front() adds one at the beginning.
LEMMA RingAddFirst ==
    ASSUME NEW N, NEW root, NEW null, NEW A, A = N \cup {root}, root \notin N, null \notin A,
           NEW s \in Seq(N), NEW next \in [A -> A \cup {null}],
           NEW prev \in [A -> A \cup {null}], NEW size, RingOf(N, root, null, next, prev, size, s),
           NEW n \in N \ Elements(s)
    PROVE  RingOf(N, root, null, [next EXCEPT ![n] = next[root], ![root] = n],
                [prev EXCEPT ![n] = root, ![next[root]] = n], size + 1, <<n>> \o s)
<1> DEFINE m == Len(s)
           t == <<n>> \o s
           next1 == [next EXCEPT ![n] = next[root], ![root] = n]
           prev1 == [prev EXCEPT ![n] = root, ![next[root]] = n]
<1>1. /\ m \in Nat /\ t \in Seq(N) /\ Len(t) = m + 1 /\ Distinct(t) /\ size + 1 = m + 1
      /\ Elements(t) = Elements(s) \cup {n} /\ n # root /\ n \in A /\ root \in A
  BY PrependDistinct DEF RingOf
<1>2. /\ Spot(root, t, 0) = root /\ Spot(root, t, 1) = n
      /\ \A i \in 1 .. m + 1 : Spot(root, t, i + 1) = Spot(root, s, i)
  <2>1. t[1] = n /\ \A i \in 1 .. m : t[i + 1] = s[i]
    BY PrependDistinct DEF RingOf
  <2>2. /\ 0 \notin 1 .. m + 1 /\ 1 \in 1 .. m + 1 /\ m + 1 \notin 1 .. m /\ (m + 1) + 1 \notin 1 .. m + 1
        /\ \A i \in 1 .. m + 1 : i = m + 1 \/ (i \in 1 .. m /\ i + 1 \in 1 .. m + 1)
    BY <1>1
  <2> HIDE DEF m, t
  <2>3. Len(s) = m
    BY DEF m
  <2>4. QED
    BY <1>1, <2>1, <2>2, <2>3 DEF Spot
<1>3. /\ \A i \in 0 .. m : Spot(root, s, i) \in A
      /\ \A i, j \in 0 .. m : Spot(root, s, i) = Spot(root, s, j) => i = j
      /\ \A i, j \in 1 .. m + 1 : Spot(root, s, i) = Spot(root, s, j) => i = j
      /\ \A i \in 0 .. m : Spot(root, s, i) = root <=> i = 0
      /\ Spot(root, s, m + 1) = root
  BY SpotIsUnique DEF RingOf
<1>4. \A i \in 0 .. m : next[Spot(root, s, i)] = Spot(root, s, i + 1) /\ prev[Spot(root, s, i + 1)] = Spot(root, s, i)
  BY DEF RingOf
<1>5. Spot(root, s, 0) = root /\ next[root] = Spot(root, s, 1)
  <2>1. 0 \in 0 .. m /\ 0 + 1 = 1
    BY <1>1
  <2>2. QED
    BY <1>3, <1>4, <2>1
<1>6. /\ \A i \in 0 .. m : Spot(root, s, i) # n
      /\ \A i \in 1 .. m + 1 : Spot(root, s, i) # n /\ Spot(root, s, i) \in A
  <2>1. \A i \in 0 .. m : Spot(root, s, i) # n
    BY <1>1 DEF Spot, Elements
  <2>2. \A i \in 1 .. m + 1 : i = m + 1 \/ i \in 0 .. m
    BY <1>1
  <2>3. QED
    BY <1>1, <1>3, <2>1, <2>2
<1> HIDE DEF m, t
<1>7. ASSUME NEW i \in 0 .. m + 1
      PROVE  next1[Spot(root, t, i)] = Spot(root, t, i + 1) /\ prev1[Spot(root, t, i + 1)] = Spot(root, t, i)
  <2>0. 1 \in 1 .. m + 1 /\ 1 + 1 = 2 /\ 0 + 1 = 1
    BY <1>1
  <2>1. CASE i = 0
    BY <1>1, <1>2, <1>5, <1>6, <2>0, <2>1
  <2>2. CASE i = 1
    <3>1. Spot(root, t, 2) = Spot(root, s, 1)
      BY <1>2, <2>0
    <3>2. QED
      BY <1>1, <1>2, <1>5, <1>6, <2>0, <2>2, <3>1
  <2>3. CASE i \notin {0, 1}
    <3>1. PICK j \in 1 .. m : i = j + 1 /\ j \in 1 .. m + 1 /\ j + 1 \in 1 .. m + 1 /\ j \in 0 .. m
      <4>1. i - 1 \in 1 .. m /\ i = (i - 1) + 1
        BY <1>1, <2>3
      <4>2. \A j \in 1 .. m : j \in 1 .. m + 1 /\ j + 1 \in 1 .. m + 1 /\ j \in 0 .. m
        BY <1>1
      <4>3. QED
        BY <4>1, <4>2
    <3>2. Spot(root, t, i) = Spot(root, s, j) /\ Spot(root, t, i + 1) = Spot(root, s, j + 1)
      BY <1>2, <3>1
    <3>3. j # 0 /\ j + 1 # 1
      BY <3>1
    <3>4. Spot(root, s, j) # root /\ Spot(root, s, j + 1) # Spot(root, s, 1)
      BY <1>3, <2>0, <3>1, <3>3
    <3>5. QED
      BY <1>1, <1>4, <1>5, <1>6, <3>1, <3>2, <3>4
  <2>4. QED
    BY <2>1, <2>2, <2>3
<1>8. ASSUME NEW k \in N \ Elements(t) PROVE next1[k] = null /\ prev1[k] = null
  <2>1. k \in N \ Elements(s) /\ k # n /\ k # root /\ k \in A
    BY <1>1
  <2>2. k # next[root]
    <3>1. prev[k] = null
      BY <2>1 DEF RingOf
    <3>2. prev[next[root]] = root
      <4>1. 0 \in 0 .. m /\ 0 + 1 = 1
        BY <1>1
      <4>2. QED
        BY <1>4, <1>5, <4>1
    <3>3. QED
      BY <1>1, <3>1, <3>2
  <2>3. QED
    BY <2>1, <2>2 DEF RingOf
<1>9. QED
  BY <1>1, <1>7, <1>8 DEF RingOf, t

\* Neighbours agree, and a node has both links or none.
LEMMA RingLinks ==
    ASSUME NEW N, NEW root, NEW null, NEW A, A = N \cup {root}, root \notin N, null \notin A,
           NEW s \in Seq(N), NEW next, NEW prev, NEW size, RingOf(N, root, null, next, prev, size, s)
    PROVE  /\ \A n \in Elements(s) \cup {root} :
                /\ next[n] \in A /\ prev[n] \in A
                /\ prev[next[n]] = n /\ next[prev[n]] = n /\ next[n] # null
           /\ \A n \in N \ Elements(s) : next[n] = null /\ prev[n] = null
<1> DEFINE m == Len(s)
<1>1. m \in Nat
  OBVIOUS
<1>2. /\ \A i \in 0 .. m : Spot(root, s, i) \in A
      /\ Spot(root, s, m + 1) = root
      /\ \A n \in Elements(s) \cup {root} : \E i \in 0 .. m : n = Spot(root, s, i)
  BY SpotIsUnique DEF RingOf
<1>3. /\ \A i \in 0 .. m : /\ next[Spot(root, s, i)] = Spot(root, s, i + 1)
                           /\ prev[Spot(root, s, i + 1)] = Spot(root, s, i)
      /\ \A n \in N \ Elements(s) : next[n] = null /\ prev[n] = null
  BY DEF RingOf
<1>4. Spot(root, s, 0) = root
  BY DEF Spot
<1> HIDE DEF m
<1>5. ASSUME NEW n \in Elements(s) \cup {root}
      PROVE  /\ next[n] \in A /\ prev[n] \in A /\ prev[next[n]] = n /\ next[prev[n]] = n
             /\ next[n] # null
  <2>1. PICK i \in 0 .. m : n = Spot(root, s, i)
    BY <1>2
  <2>2. PICK k \in 0 .. m : n = Spot(root, s, k + 1)
    <3>1. CASE i = 0
      <4>1. m \in 0 .. m
        BY <1>1
      <4>2. QED
        BY <1>2, <1>4, <2>1, <3>1, <4>1
    <3>2. CASE i # 0
      <4>1. i - 1 \in 0 .. m /\ i - 1 + 1 = i
        BY <1>1, <3>2
      <4>2. QED
        BY <2>1, <4>1
    <3>3. QED
      BY <3>1, <3>2
  <2>3. Spot(root, s, i + 1) \in A
    <3>1. i = m \/ i + 1 \in 0 .. m
      BY <1>1
    <3>2. QED
      BY <1>1, <1>2, <3>1
  <2>4. next[n] = Spot(root, s, i + 1) /\ prev[next[n]] = n
    BY <1>3, <2>1
  <2>5. prev[n] = Spot(root, s, k) /\ next[prev[n]] = n
    BY <1>3, <2>2
  <2>6. Spot(root, s, k) \in A
    BY <1>2
  <2>7. QED
    BY <2>3, <2>4, <2>5, <2>6
<1>6. QED
  BY <1>3, <1>5

\* What one walks through from the root, as far as size goes.
WalkOf(root, next, size) ==
    LET f[i \in 0 .. size] == IF i = 0 THEN root ELSE next[f[i - 1]]
    IN  [i \in 1 .. size |-> f[i]]

LEMMA RingWalk ==
    ASSUME NEW N, NEW root, NEW null, NEW s \in Seq(N), NEW next, NEW prev, NEW size,
           RingOf(N, root, null, next, prev, size, s)
    PROVE  WalkOf(root, next, size) = s
<1> DEFINE m == Len(s)
           F(h) == [i \in 0 .. size |-> IF i = 0 THEN root ELSE next[h[i - 1]]]
           f == CHOOSE h : h = F(h)
           g == [i \in 0 .. m |-> Spot(root, s, i)]
<1>1. /\ m \in Nat /\ size = m
      /\ \A i \in 0 .. m : next[Spot(root, s, i)] = Spot(root, s, i + 1)
  BY DEF RingOf
<1>2. Spot(root, s, 0) = root /\ \A i \in 1 .. m : Spot(root, s, i) = s[i]
  <2>1. 0 \notin 1 .. m
    BY <1>1
  <2>2. QED
    BY <2>1 DEF Spot
<1>3. g = F(g)
  <2>1. ASSUME NEW i \in 0 .. m, i # 0
        PROVE  g[i] = next[g[i - 1]]
    <3>1. i - 1 \in 0 .. m /\ i - 1 + 1 = i
      BY <1>1, <2>1
    <3>2. QED
      BY <1>1, <2>1, <3>1
  <2>2. QED
    BY <1>1, <1>2, <2>1
<1>4. f = F(f)
  <2> HIDE DEF F
  <2>1. \E h : h = F(h)
    <3> HIDE DEF g
    <3>1. QED
      BY <1>3
  <2>2. QED
    BY <2>1
<1>5. WalkOf(root, next, size) = [i \in 1 .. size |-> f[i]]
  BY DEF WalkOf
<1> HIDE DEF f
<1>6. /\ f[0] = root /\ \A i \in 1 .. m : f[i] = next[f[i - 1]]
  <2>1. /\ 0 \in 0 .. m /\ \A i \in 1 .. m : i \in 0 .. m /\ i # 0
    BY <1>1
  <2>2. \A i \in 0 .. m : f[i] = IF i = 0 THEN root ELSE next[f[i - 1]]
    BY <1>1, <1>4
  <2>3. QED
    BY <2>1, <2>2
<1>7. \A i \in 0 .. m : f[i] = Spot(root, s, i)
  <2> DEFINE T == {i \in 0 .. m : f[i] # Spot(root, s, i)}
  <2>1. SUFFICES ASSUME T # {} PROVE FALSE
    OBVIOUS
  <2>2. T \in SUBSET Nat
    BY <1>1
  <2>3. PICK i \in T : \A k \in T : i <= k
    BY <2>1, <2>2, LeastNat
  <2>4. i \in 1 .. m /\ i - 1 \in 0 .. m /\ i - 1 + 1 = i /\ ~(i <= i - 1)
    <3>1. i # 0 /\ i \in 0 .. m
      BY <1>2, <1>6
    <3>2. QED
      BY <1>1, <3>1
  <2>5. f[i - 1] = Spot(root, s, i - 1)
    BY <2>3, <2>4
  <2>6. QED
    BY <1>1, <1>6, <2>4, <2>5
<1>8. QED
  <2>1. \A i \in 1 .. m : i \in 0 .. m
    BY <1>1
  <2>2. \A i \in 1 .. m : f[i] = s[i]
    BY <1>2, <1>7, <2>1
  <2>3. s = [i \in 1 .. m |-> s[i]]
    OBVIOUS
  <2>4. QED
    BY <1>1, <1>5, <2>2, <2>3

----------------------------------------------------------------------------
(* Loops: functions that are defined by recursion on a counter *)

\* Two loops that start alike and go on alike are the same.
GoAlike(f, g, n) == f[0] = g[0] /\ \A i \in 1 .. n : f[i - 1] = g[i - 1] => f[i] = g[i]

LEMMA SameLoop ==
    ASSUME NEW n \in Nat, NEW f, NEW g, GoAlike(f, g, n)
    PROVE  \A i \in 0 .. n : f[i] = g[i]
<1> DEFINE T == {i \in 0 .. n : f[i] # g[i]}
<1>1. SUFFICES ASSUME T # {} PROVE FALSE
  OBVIOUS
<1>2. T \in SUBSET Nat
  OBVIOUS
<1> USE DEF GoAlike
<1>3. PICK i \in T : \A k \in T : i <= k
  BY <1>1, <1>2, LeastNat
<1>4. i \in 1 .. n /\ i - 1 \in 0 .. n /\ ~(i <= i - 1)
  BY <1>3
<1>5. f[i - 1] = g[i - 1]
  BY <1>3, <1>4
<1>6. QED
  BY <1>3, <1>4, <1>5

\* Steps that lead from each set to the next make a loop through the sets.
Leads(n, S, T, G, x) ==
    /\ T \in [0 .. n -> SUBSET S] /\ x \in T[0]
    /\ \A i \in 1 .. n : \A s \in T[i - 1] : G[i][s] \in T[i]

LEMMA LoopExists ==
    ASSUME NEW n \in Nat, NEW S, NEW T, NEW G, NEW x, Leads(n, S, T, G, x)
    PROVE  \E f \in [0 .. n -> S] :
               /\ f[0] = x /\ \A i \in 1 .. n : f[i] = G[i][f[i - 1]]
               /\ \A i \in 0 .. n : f[i] \in T[i]
<1> DEFINE F(h, k) == [i \in 0 .. k |-> IF i = 0 THEN x ELSE G[i][h[i - 1]]]
           Good(h, k) == h = F(h, k) /\ \A i \in 0 .. k : h[i] \in T[i]
           K == {k \in 0 .. n : ~ \E h : Good(h, k)}
<1> USE DEF Leads
<1>1. SUFFICES ASSUME K # {} PROVE FALSE
  <2>1. SUFFICES ASSUME K = {} PROVE \E h : Good(h, n)
    <3>1. PICK h : Good(h, n)
      BY <2>1
    <3>2. \A i \in 0 .. n : h[i] \in T[i] /\ h[i] = IF i = 0 THEN x ELSE G[i][h[i - 1]]
      BY <3>1
    <3>3. h \in [0 .. n -> S]
      <4>1. \A i \in 0 .. n : h[i] \in S
        BY <3>2
      <4>2. DOMAIN h = 0 .. n /\ h = [i \in 0 .. n |-> h[i]]
        BY <3>1
      <4>3. QED
        BY <4>1, <4>2
    <3>4. 0 \in 0 .. n /\ \A i \in 1 .. n : i \in 0 .. n /\ i # 0
      OBVIOUS
    <3>5. QED
      BY <3>2, <3>3, <3>4
  <2>2. n \in 0 .. n
    OBVIOUS
  <2> HIDE DEF Good
  <2>3. QED
    BY <2>1, <2>2
<1>2. K \in SUBSET Nat
  OBVIOUS
<1>3. PICK k \in K : \A j \in K : k <= j
  <2> HIDE DEF K
  <2>1. QED
    BY <1>1, <1>2, LeastNat
<1>4. k \in 0 .. n /\ ~ \E h : Good(h, k)
  BY <1>3
<1>5. CASE k = 0
  <2> DEFINE h == [i \in 0 .. 0 |-> x]
  <2>1. h = F(h, 0)
    <3>1. \A i \in 0 .. 0 : i = 0
      OBVIOUS
    <3>2. QED
      BY <3>1
  <2>2. \A i \in 0 .. 0 : h[i] \in T[i]
    OBVIOUS
  <2> HIDE DEF h, F
  <2>3. QED
    BY <1>4, <1>5, <2>1, <2>2
<1>6. CASE k # 0
  <2>1. k - 1 \in 0 .. n /\ ~(k <= k - 1) /\ k \in 1 .. n
    BY <1>4, <1>6
  <2>2. PICK h : Good(h, k - 1)
    BY <1>3, <2>1
  <2> DEFINE g == [i \in 0 .. k |-> IF i = k THEN G[k][h[k - 1]] ELSE h[i]]
  <2>3. \A i \in 0 .. k - 1 : g[i] = h[i] /\ h[i] = F(h, k - 1)[i] /\ h[i] \in T[i]
    BY <2>1, <2>2
  <2>4. g[k] = G[k][g[k - 1]] /\ g[k] \in T[k]
    <3>1. k - 1 \in 0 .. k - 1 /\ k \in 0 .. k
      BY <2>1
    <3>2. g[k] = G[k][h[k - 1]]
      BY <3>1
    <3>3. g[k - 1] = h[k - 1] /\ h[k - 1] \in T[k - 1]
      BY <2>3, <3>1
    <3>4. G[k][h[k - 1]] \in T[k]
      BY <2>1, <3>3
    <3>5. QED
      BY <3>2, <3>3, <3>4
  <2>5. \A i \in 0 .. k : g[i] = IF i = 0 THEN x ELSE G[i][g[i - 1]]
    <3> HIDE DEF g
    <3>1. \A i \in 1 .. k - 1 : i - 1 \in 0 .. k - 1 /\ i \in 0 .. k - 1
      BY <2>1
    <3>2. QED
      BY <2>1, <2>3, <2>4, <3>1
  <2>6. g = F(g, k)
    <3>1. g = [i \in 0 .. k |-> g[i]]
      OBVIOUS
    <3> HIDE DEF g
    <3>2. QED
      BY <2>5, <3>1
  <2>7. \A i \in 0 .. k : g[i] \in T[i]
    <3> HIDE DEF g
    <3>1. \A i \in 0 .. k : i = k \/ i \in 0 .. k - 1
      BY <2>1
    <3>2. QED
      BY <2>3, <2>4, <3>1
  <2> HIDE DEF g, F
  <2>8. QED
    BY <1>4, <2>6, <2>7
<1>7. QED
  BY <1>5, <1>6

\* Two short sequences put together.
LEMMA ShortConcat ==
    ASSUME NEW N
    PROVE  /\ \A p \in N : <<p>> \o << >> = <<p>>
           /\ \A p, q \in N : <<p>> \o <<q>> = <<p, q>>
<1>1. ASSUME NEW p \in N PROVE <<p>> \in Seq(N)
  OBVIOUS
<1>2. ASSUME NEW p \in N PROVE <<p>> \o << >> = <<p>>
  BY <1>1, ConcatEmptySeq
<1>3. ASSUME NEW p \in N, NEW q \in N PROVE <<p>> \o <<q>> = <<p, q>>
  <2> DEFINE s == <<p>>
             t == <<q>>
             u == <<p, q>>
  <2>1. s \in Seq(N) /\ t \in Seq(N) /\ u \in Seq(N)
    OBVIOUS
  <2>2. Len(s) = 1 /\ Len(t) = 1 /\ Len(u) = 2 /\ s[1] = p /\ t[1] = q /\ u[1] = p /\ u[2] = q
    OBVIOUS
  <2> HIDE DEF s, t, u
  <2>3. /\ s \o t \in Seq(N) /\ Len(s \o t) = 2
        /\ (s \o t)[1] = p /\ (s \o t)[2] = q
    <3>1. Len(s \o t) = Len(s) + Len(t) /\ s \o t \in Seq(N)
      BY <2>1, ConcatProperties
    <3>2. \A i \in 1 .. Len(s) + Len(t) :
             (s \o t)[i] = IF i <= Len(s) THEN s[i] ELSE t[i - Len(s)]
      BY <2>1, ConcatProperties
    <3>3. Len(s) + Len(t) = 2 /\ 1 \in 1 .. 2 /\ 2 \in 1 .. 2
      BY <2>2
    <3>4. (s \o t)[1] = s[1]
      BY <2>2, <3>2, <3>3
    <3>5. (s \o t)[2] = t[1]
      BY <2>2, <3>2, <3>3
    <3>6. QED
      BY <2>2, <3>1, <3>3, <3>4, <3>5
  <2>4. \A i \in 1 .. Len(s \o t) : (s \o t)[i] = u[i]
    BY <2>2, <2>3
  <2>5. s \o t = u
    BY <2>1, <2>2, <2>3, <2>4, SeqEqual
  <2>6. QED
    BY <2>5 DEF s, t, u
<1>4. QED
  BY <1>2, <1>3
=============================================================================
