---------------------------- MODULE QueueProofs ----------------------------
(***************************************************************************)
(* Proofs about the ring of module Queue, for every number of producers,   *)
(* consumers, pointers and slots; and about the ring with one consumer:    *)
(* what empty() and "full" mean, and that it implements BoundedFifo.       *)
(***************************************************************************)
EXTENDS QueueFifo, TLAPS, SequenceTheorems

\* The slot of a put or get number is a slot of the array (Queue.hxx:88).
LEMMA SlotOfInRange == ASSUME NEW n \in Nat PROVE SlotOf(n) \in SlotSet
  BY QueueAssumption, SMT DEF SlotOf, SlotSet

\* No thread is both a producer and a consumer.
LEMMA RolesDisjoint ==
    \A p \in Producers : \A c \in Consumers : p # c
  BY QueueAssumption

\* The constructor establishes the inductive invariant.
LEMMA InitIndInv == Init => IndInv
<1> SUFFICES ASSUME Init PROVE IndInv
  OBVIOUS
<1>1. TypeOK
  BY QueueAssumption DEF Init, TypeOK, Threads, SlotSet, Contents, VacantTag, PushPCs, PopPCs
<1>2. CallShape
  BY DEF Init, CallShape, Threads
<1>3. Window
  BY QueueAssumption DEF Init, Window, CountersBounded, Threads
<1>4. QED
  BY <1>1, <1>2, <1>3 DEF IndInv

\* No step of push() breaks the inductive invariant.
LEMMA PushIndInv ==
    ASSUME IndInv, NEW p \in Producers,
           (\E x \in free : PushBegin(p, x)) \/ PushStep(p)
    PROVE  IndInv'
<1> USE QueueAssumption, RolesDisjoint
<1> USE DEF IndInv, CallShape, Window, CountersBounded, TypeOK, Threads,
            Contents, Goto, PushPCs, PopPCs
<1>1. ASSUME NEW x \in free, PushBegin(p, x) PROVE IndInv'
  BY <1>1 DEF PushBegin, Pointer
<1>2. CASE PushCheck(p)
  BY <1>2 DEF PushCheck, HasRoom
<1>3. CASE PushFull(p)
  BY <1>3 DEF PushFull, Return, VacantTag
<1>4. CASE PushSwap(p)
  BY <1>4, SlotOfInRange DEF PushSwap
<1>5. CASE PushAdvance(p)
  BY <1>5 DEF PushAdvance
<1>6. CASE PushReturn(p)
  BY <1>6 DEF PushReturn, Return, VacantTag
<1>7. CASE PushReload(p)
  BY <1>7 DEF PushReload
<1>8. QED
  BY <1>1, <1>2, <1>3, <1>4, <1>5, <1>6, <1>7 DEF PushStep

\* No step of pop() breaks the inductive invariant.
LEMMA PopIndInv ==
    ASSUME IndInv, NEW c \in Consumers, PopBegin(c) \/ PopStep(c)
    PROVE  IndInv'
<1> USE QueueAssumption, RolesDisjoint
<1> USE DEF IndInv, CallShape, Window, CountersBounded, TypeOK, Threads,
            Contents, Goto, PushPCs, PopPCs
<1>1. CASE PopBegin(c)
  BY <1>1 DEF PopBegin
<1>2. CASE PopCheck(c)
  BY <1>2 DEF PopCheck
<1>3. CASE PopEmpty(c)
  BY <1>3 DEF PopEmpty, Return, VacantTag
<1>4. CASE PopLoad(c)
  BY <1>4, SlotOfInRange DEF PopLoad
<1>5. CASE PopSwap(c)
  BY <1>5, SlotOfInRange DEF PopSwap, VacantTag
<1>6. CASE PopAdvance(c)
  BY <1>6 DEF PopAdvance, IsVacantTag
<1>7. CASE PopReturn(c)
  BY <1>7 DEF PopReturn, Return, VacantTag
<1>8. CASE PopReload(c)
  BY <1>8 DEF PopReload, VacantTag
<1>9. QED
  BY <1>1, <1>2, <1>3, <1>4, <1>5, <1>6, <1>7, <1>8 DEF PopStep

\* IndInv holds in every reachable state.
THEOREM InductiveInvariant == Spec => []IndInv
<1>1. IndInv /\ [Next]_vars => IndInv'
  <2> SUFFICES ASSUME IndInv, [Next]_vars PROVE IndInv'
    OBVIOUS
  <2>1. ASSUME NEW p \in Producers,
               (\E x \in free : PushBegin(p, x)) \/ PushStep(p)
        PROVE  IndInv'
    BY <2>1, PushIndInv
  <2>2. ASSUME NEW c \in Consumers, PopBegin(c) \/ PopStep(c)
        PROVE  IndInv'
    BY <2>2, PopIndInv
  <2>3. CASE UNCHANGED vars
    BY <2>3 DEF vars, IndInv, TypeOK, CallShape, Window, CountersBounded
  <2>4. QED
    BY <2>1, <2>2, <2>3 DEF Next
<1>2. QED
  BY InitIndInv, <1>1, PTL DEF Spec

\* The variables keep their types.
THEOREM TypeCorrect == Spec => []TypeOK
<1>1. IndInv => TypeOK
  BY DEF IndInv
<1>2. QED
  BY <1>1, InductiveInvariant, PTL

\* size() (Queue.hxx:71-74) stays within 0 .. capacity(), for any number of
\* threads and however late each of them is.
THEOREM CountersStayBounded == Spec => []CountersBounded
<1>1. IndInv => CountersBounded
  BY DEF IndInv, Window
<1>2. QED
  BY <1>1, InductiveInvariant, PTL

----------------------------------------------------------------------------
(* Conservation of pointers *)

\* A tag is never taken for a pointer, and a pointer determines its content.
LEMMA TagsAndPointers ==
    /\ \A n, x : VacantTag(n) # Pointer(x)
    /\ \A x, y : Pointer(x) = Pointer(y) => x = y
<1>1. ASSUME NEW n, NEW x PROVE VacantTag(n).kind # Pointer(x).kind
  BY DEF VacantTag, Pointer
<1>2. ASSUME NEW x, NEW y, Pointer(x) = Pointer(y) PROVE x = y
  <2>1. Pointer(x).of = x /\ Pointer(y).of = y
    BY DEF Pointer
  <2>2. QED
    BY <1>2, <2>1
<1>3. QED
  BY <1>1, <1>2

\* At the start every pointer is with the clients.
LEMMA InitConserved == Init => ItemsConserved
<1> SUFFICES ASSUME Init, NEW x \in Items
             PROVE  /\ x \in free
                    /\ \A p \in Producers : ~InPush(p, x)
                    /\ \A s \in SlotSet : ~InSlot(s, x)
                    /\ \A c \in Consumers : ~InPop(c, x)
  BY DEF ItemsConserved
<1>1. \A s \in SlotSet : ~InSlot(s, x)
  BY TagsAndPointers DEF Init, InSlot
<1>2. QED
  BY <1>1 DEF Init, InPush, InPop, Threads

\* A step of push() moves a pointer from one place to another, or none.
LEMMA PushConserves ==
    ASSUME IndInv, ItemsConserved, NEW p \in Producers,
           (\E x \in free : PushBegin(p, x)) \/ PushStep(p)
    PROVE  ItemsConserved'
<1> USE QueueAssumption, RolesDisjoint
<1> USE DEF IndInv, CallShape, TypeOK, Threads, Contents, Goto, PushPCs, PopPCs,
            ItemsConserved, InPush, InSlot, InPop, Pointer
<1>1. ASSUME NEW x \in free, PushBegin(p, x) PROVE ItemsConserved'
  BY <1>1 DEF PushBegin
<1>2. CASE PushCheck(p)
  BY <1>2 DEF PushCheck
<1>3. CASE PushFull(p)
  BY <1>3 DEF PushFull, Return, VacantTag
<1>4. CASE PushSwap(p)
  <2> DEFINE s == SlotOf(cnt[p])
  <2>1. s \in SlotSet /\ pc[p] = "push_swap" /\ ~won[p] /\ val[p].kind = "ptr"
    BY <1>4, SlotOfInRange DEF PushSwap
  <2>2. CASE slots[s] # VacantTag(cnt[p])
    BY <1>4, <2>1, <2>2 DEF PushSwap
  <2>3. CASE slots[s] = VacantTag(cnt[p])
    <3>1. PICK x \in Items : val[p] = Pointer(x)
      BY <2>1
    <3>2. /\ slots' = [slots EXCEPT ![s] = Pointer(x)]
          /\ won' = [won EXCEPT ![p] = TRUE]
          /\ pc' = [pc EXCEPT ![p] = "push_advance"]
          /\ UNCHANGED <<free, val>>
      BY <1>4, <2>3, <3>1 DEF PushSwap
    <3> HIDE DEF Pointer, s, IndInv, CallShape, ItemsConserved
    <3>3. \A y \in Items : ~InSlot(s, y)
      BY <2>3, TagsAndPointers
    <3>4. /\ \A y \in Items : \A r \in SlotSet :
                InSlot(r, y)' <=> InSlot(r, y) \/ (r = s /\ y = x)
          /\ \A y \in Items : \A q \in Producers :
                InPush(q, y)' <=> InPush(q, y) /\ q # p
          /\ \A y \in Items : \A c \in Consumers : InPop(c, y)' <=> InPop(c, y)
          /\ \A y \in Items : InPush(p, y) <=> y = x
      BY <2>1, <3>1, <3>2, <3>3, TagsAndPointers DEF IndInv
    <3>5. QED
      BY <2>1, <3>2, <3>3, <3>4 DEF ItemsConserved
  <2>4. QED
    BY <2>2, <2>3
<1>5. CASE PushAdvance(p)
  BY <1>5 DEF PushAdvance
<1>6. CASE PushReturn(p)
  BY <1>6 DEF PushReturn, Return, VacantTag
<1>7. CASE PushReload(p)
  BY <1>7 DEF PushReload
<1>8. QED
  BY <1>1, <1>2, <1>3, <1>4, <1>5, <1>6, <1>7 DEF PushStep

\* A step of pop() moves a pointer from one place to another, or none.
LEMMA PopConserves ==
    ASSUME IndInv, ItemsConserved, NEW c \in Consumers, PopBegin(c) \/ PopStep(c)
    PROVE  ItemsConserved'
<1> USE QueueAssumption, RolesDisjoint
<1> USE DEF IndInv, CallShape, TypeOK, Threads, Contents, Goto, PushPCs, PopPCs,
            ItemsConserved, InPush, InSlot, InPop, Pointer
<1>1. CASE PopBegin(c)
  BY <1>1 DEF PopBegin
<1>2. CASE PopCheck(c)
  BY <1>2 DEF PopCheck
<1>3. CASE PopEmpty(c)
  BY <1>3 DEF PopEmpty, Return, VacantTag
<1>4. CASE PopLoad(c)
  BY <1>4, SlotOfInRange DEF PopLoad
<1>5. CASE PopSwap(c)
  <2> DEFINE s == SlotOf(cnt[c])
             tag == VacantTag(cnt[c] + Capacity)
  <2>1. s \in SlotSet /\ pc[c] = "pop_swap" /\ ~won[c]
    BY <1>5, SlotOfInRange DEF PopSwap
  <2>2. CASE slots[s] # val[c]
    BY <1>5, <2>1, <2>2 DEF PopSwap
  <2>3. CASE slots[s] = val[c]
    <3>1. /\ slots' = [slots EXCEPT ![s] = tag]
          /\ won' = [won EXCEPT ![c] = TRUE]
          /\ pc' = [pc EXCEPT ![c] = "pop_advance"]
          /\ UNCHANGED <<free, val>>
      BY <1>5, <2>3 DEF PopSwap
    <3> HIDE DEF Pointer, s, tag, IndInv, CallShape, ItemsConserved
    <3>2. \A y \in Items : tag # Pointer(y)
      BY TagsAndPointers DEF tag
    <3>3. /\ \A y \in Items : \A r \in SlotSet :
                InSlot(r, y)' <=> InSlot(r, y) /\ r # s
          /\ \A y \in Items : \A q \in Producers : InPush(q, y)' <=> InPush(q, y)
          /\ \A y \in Items : \A d \in Consumers :
                InPop(d, y)' <=> InPop(d, y) \/ (d = c /\ InSlot(s, y))
          /\ \A y \in Items : ~InPop(c, y)
      BY <2>1, <2>3, <3>1, <3>2 DEF IndInv
    <3>4. QED
      BY <2>1, <3>1, <3>3 DEF ItemsConserved
  <2>4. QED
    BY <2>2, <2>3
<1>6. CASE PopAdvance(c)
  BY <1>6 DEF PopAdvance, IsVacantTag
<1>7. CASE PopReturn(c)
  BY <1>7 DEF PopReturn, Return, VacantTag
<1>8. CASE PopReload(c)
  BY <1>8 DEF PopReload, VacantTag
<1>9. QED
  BY <1>1, <1>2, <1>3, <1>4, <1>5, <1>6, <1>7, <1>8 DEF PopStep

\* No pointer is lost or handed out twice by push() and pop()
\* (Queue.hxx:76-158), whatever the number of producers and consumers and
\* however their exchanges interleave: also where a consumer is laps late.
THEOREM PointersConserved == Spec => []ItemsConserved
<1>1. IndInv /\ ItemsConserved /\ [Next]_vars => ItemsConserved'
  <2> SUFFICES ASSUME IndInv, ItemsConserved, [Next]_vars PROVE ItemsConserved'
    OBVIOUS
  <2>1. ASSUME NEW p \in Producers,
               (\E x \in free : PushBegin(p, x)) \/ PushStep(p)
        PROVE  ItemsConserved'
    BY <2>1, PushConserves
  <2>2. ASSUME NEW c \in Consumers, PopBegin(c) \/ PopStep(c)
        PROVE  ItemsConserved'
    BY <2>2, PopConserves
  <2>3. CASE UNCHANGED vars
    BY <2>3 DEF vars, ItemsConserved, InPush, InSlot, InPop
  <2>4. QED
    BY <2>1, <2>2, <2>3 DEF Next
<1>2. QED
  BY InitConserved, InductiveInvariant, <1>1, PTL DEF Spec

----------------------------------------------------------------------------
(* Slots and numbers *)

LEMMA DivisionInt ==
    \A k, n \in Int : k > 0 => n \div k \in Int /\ n % k \in 0 .. k - 1
  OBVIOUS

LEMMA DivisionEqn == \A k, n \in Int : k > 0 => n % k = n - k * (n \div k)
  BY Z3

LEMMA RemainderUnique ==
    \A k, q, r \in Int : k > 0 /\ 0 <= r /\ r < k => (k * q + r) % k = r
  OBVIOUS

LEMMA MultipleBounds ==
    \A k, q \in Int : k > 0 => (q >= 1 => k * q >= k) /\ (q <= -1 => k * q <= -k)
  OBVIOUS

\* A lap later the slot is the same.
LEMMA SlotNextLap ==
    ASSUME NEW n \in Nat PROVE SlotOf(n + Capacity) = SlotOf(n)
<1> DEFINE q == n \div Capacity
           r == n % Capacity
<1>1. q \in Int /\ r \in 0 .. Capacity - 1 /\ n = Capacity * q + r
  BY QueueAssumption, DivisionInt, DivisionEqn
<1> HIDE DEF q, r
<1>2. Capacity * (q + 1) = Capacity * q + Capacity
  BY <1>1, QueueAssumption
<1>3. (Capacity * (q + 1) + r) % Capacity = r /\ (Capacity * q + r) % Capacity = r
  BY <1>1, QueueAssumption, RemainderUnique
<1>4. Capacity * q \in Int /\ n + Capacity = Capacity * (q + 1) + r
  BY <1>1, <1>2, QueueAssumption
<1>5. QED
  BY <1>1, <1>3, <1>4 DEF SlotOf

\* Within a lap different numbers have different slots.
LEMMA SlotsDiffer ==
    ASSUME NEW m \in Nat, NEW n \in Nat, m < n, n < m + Capacity
    PROVE  SlotOf(m) # SlotOf(n)
<1> DEFINE q == n \div Capacity
           r == m \div Capacity
<1>1. /\ q \in Int /\ r \in Int /\ n % Capacity \in Int /\ m % Capacity \in Int
      /\ n % Capacity = n - Capacity * q
      /\ m % Capacity = m - Capacity * r
  BY QueueAssumption, DivisionInt, DivisionEqn
<1> HIDE DEF q, r
<1>2. /\ Capacity * q \in Int /\ Capacity * r \in Int /\ Capacity * (q - r) \in Int
      /\ Capacity * (q - r) = Capacity * q - Capacity * r
  BY <1>1, QueueAssumption
<1> SUFFICES ASSUME n % Capacity = m % Capacity PROVE FALSE
  BY DEF SlotOf
<1>3. n - m = Capacity * (q - r)
  BY <1>1, <1>2
<1>4. q - r >= 1 \/ q - r <= -1 \/ q - r = 0
  BY <1>1
<1>5. CASE q - r >= 1
  BY <1>1, <1>2, <1>3, <1>5, MultipleBounds, QueueAssumption
<1>6. CASE q - r <= -1
  BY <1>1, <1>2, <1>3, <1>6, MultipleBounds, QueueAssumption
<1>7. CASE q - r = 0
  BY <1>2, <1>3, <1>7, QueueAssumption
<1>8. QED
  BY <1>4, <1>5, <1>6, <1>7

\* A lap, wherever it starts, visits every slot.
LEMMA LapCovers ==
    ASSUME NEW g \in Nat, NEW s \in SlotSet
    PROVE  \E n \in g .. g + Capacity - 1 : SlotOf(n) = s
<1> DEFINE q == g \div Capacity
           d == g % Capacity
<1>1. q \in Int /\ d \in 0 .. Capacity - 1 /\ g = Capacity * q + d
  BY QueueAssumption, DivisionInt, DivisionEqn
<1> HIDE DEF q, d
<1>2. Capacity * q \in Int /\ Capacity * (q + 1) = Capacity * q + Capacity
  BY <1>1, QueueAssumption
<1>3. /\ (Capacity * q + s) % Capacity = s
      /\ (Capacity * (q + 1) + s) % Capacity = s
  BY <1>1, QueueAssumption, RemainderUnique DEF SlotSet
<1>4. CASE s >= d
  <2>1. Capacity * q + s \in g .. g + Capacity - 1
    BY <1>1, <1>2, <1>4, QueueAssumption DEF SlotSet
  <2>2. QED
    BY <1>3, <2>1 DEF SlotOf
<1>5. CASE s < d
  <2>1. Capacity * (q + 1) + s \in g .. g + Capacity - 1
    BY <1>1, <1>2, <1>5, QueueAssumption DEF SlotSet
  <2>2. QED
    BY <1>3, <2>1 DEF SlotOf
<1>6. QED
  BY <1>1, <1>4, <1>5 DEF SlotSet

----------------------------------------------------------------------------
(* The ring with one consumer *)

LEMMA InitRingInv == Init => RingInv
<1> SUFFICES ASSUME Init PROVE RingInv
  OBVIOUS
<1>1. ConsumerInv /\ FilledInv /\ AdvanceInv
  BY DEF Init, ConsumerInv, FilledInv, AdvanceInv, Threads
<1>2. VacantInv
  <2> SUFFICES ASSUME NEW n \in m_puts .. m_gets + Capacity - 1
               PROVE  slots[SlotOf(n)] = VacantTag(n)
    BY DEF VacantInv
  <2>1. n \in 0 .. Capacity - 1 /\ n % Capacity = n
    BY QueueAssumption DEF Init
  <2>2. QED
    BY <2>1 DEF Init, SlotOf, SlotSet
<1>3. QED
  BY <1>1, <1>2 DEF RingInv

\* A producer finds its tag only in the slot of the next put.
LEMMA TagIsNext ==
    ASSUME IndInv, RingInv, NEW p \in Producers, pc[p] = "push_swap",
           slots[SlotOf(cnt[p])] = VacantTag(cnt[p])
    PROVE  cnt[p] = m_puts
<1>1. PICK n \in m_gets .. m_gets + Capacity - 1 : SlotOf(n) = SlotOf(cnt[p])
  BY LapCovers, SlotOfInRange DEF IndInv, TypeOK, Threads
<1>2. slots[SlotOf(n)].kind = "tag" /\ slots[SlotOf(n)].of = cnt[p]
  BY <1>1 DEF VacantTag
<1>3. cnt[p] < m_gets + Capacity /\ cnt[p] <= m_puts
  BY DEF IndInv, Window
<1>4. /\ m_gets \in Nat /\ m_puts \in Nat /\ Capacity \in Nat /\ n \in Nat
      /\ cnt[p] \in Nat
  BY QueueAssumption DEF IndInv, TypeOK, Threads
<1>5. CASE n < m_puts
  <2>1. n = m_gets /\ \E c \in Consumers : pc[c] = "pop_advance"
    BY <1>2, <1>4, <1>5 DEF RingInv, FilledInv
  <2>2. cnt[p] = m_gets + Capacity
    BY <1>2, <2>1 DEF RingInv, ConsumerInv, VacantTag
  <2>3. QED
    BY <1>3, <1>4, <2>2
<1>6. CASE n >= m_puts
  <2>1. \/ slots[SlotOf(n)] = VacantTag(n)
        \/ \E q \in Producers : pc[q] = "push_advance" /\ val[q] = slots[SlotOf(n)]
    BY <1>4, <1>6 DEF RingInv, VacantInv
  <2>2. ~ \E q \in Producers : pc[q] = "push_advance" /\ val[q] = slots[SlotOf(n)]
    BY <1>2 DEF IndInv, CallShape
  <2>3. cnt[p] = n
    BY <1>2, <2>1, <2>2 DEF VacantTag
  <2>4. QED
    BY <1>3, <1>4, <1>6, <2>3
<1>7. QED
  BY <1>4, <1>5, <1>6

\* No step of push() breaks the invariant of the ring.
LEMMA PushRingInv ==
    ASSUME IndInv, RingInv, NEW p \in Producers,
           (\E x \in free : PushBegin(p, x)) \/ PushStep(p)
    PROVE  RingInv'
<1> USE QueueAssumption, RolesDisjoint
<1>t. /\ m_gets \in Nat /\ m_puts \in Nat /\ Capacity \in Nat \ {0}
      /\ cnt \in [Threads -> Nat] /\ pc \in [Threads -> PushPCs \cup PopPCs]
      /\ won \in [Threads -> BOOLEAN] /\ val \in [Threads -> Contents]
      /\ slots \in [SlotSet -> Contents]
      /\ p \in Threads /\ Producers \subseteq Threads /\ Consumers \subseteq Threads
      /\ \A c \in Consumers : pc[c] \in PopPCs
      /\ m_gets <= m_puts /\ m_puts <= m_gets + Capacity
      /\ \A q \in Producers : cnt[q] <= m_puts
  BY DEF IndInv, TypeOK, Threads, Window, CountersBounded
\* Steps that touch neither the slots nor the counters, nor a thread that is
\* about to move one.
<1>0. ASSUME UNCHANGED <<slots, m_puts, m_gets>>,
             pc[p] # "push_advance", pc'[p] # "push_advance",
             \A t \in Threads \ {p} : /\ pc'[t] = pc[t]
                                     /\ cnt'[t] = cnt[t]
                                     /\ val'[t] = val[t]
                                     /\ won'[t] = won[t]
      PROVE  RingInv'
  BY <1>0, <1>t DEF RingInv, ConsumerInv, FilledInv, VacantInv, AdvanceInv
<1>1. ASSUME NEW x \in free, PushBegin(p, x) PROVE RingInv'
  BY <1>0, <1>1, <1>t DEF PushBegin, Goto
<1>2. CASE PushCheck(p)
  BY <1>0, <1>2, <1>t DEF PushCheck, Goto
<1>3. CASE PushFull(p)
  BY <1>0, <1>3, <1>t DEF PushFull, Return, Goto
<1>4. CASE PushSwap(p)
  <2>1. /\ pc[p] = "push_swap" /\ ~won[p] /\ cnt[p] < m_gets + Capacity
        /\ val[p].kind = "ptr"
        /\ pc' = [pc EXCEPT ![p] = "push_advance"]
        /\ UNCHANGED <<m_puts, m_gets, cnt, val>>
    BY <1>4 DEF PushSwap, Goto, IndInv, CallShape, Window
  <2>2. CASE slots[SlotOf(cnt[p])] = VacantTag(cnt[p])
    <3>1. cnt[p] = m_puts
      BY <2>1, <2>2, TagIsNext
    <3>2. /\ slots' = [slots EXCEPT ![SlotOf(m_puts)] = val[p]]
          /\ won' = [won EXCEPT ![p] = TRUE]
      BY <1>4, <2>2, <3>1 DEF PushSwap
    <3>3. slots[SlotOf(m_puts)].kind = "tag" /\ SlotOf(m_puts) \in SlotSet
      BY <1>t, <2>2, <3>1, SlotOfInRange DEF VacantTag
    <3>4. \A n \in m_gets .. m_gets + Capacity - 1 :
             n # m_puts => slots'[SlotOf(n)] = slots[SlotOf(n)]
      BY <1>t, <2>1, <3>1, <3>2, SlotsDiffer, SlotOfInRange
    <3>5. ConsumerInv'
      <4>1. \A c \in Consumers : pc[c] \in {"pop_load", "pop_swap", "pop_advance"}
                                  => m_gets < m_puts
        BY <1>t DEF IndInv, Window, RingInv, ConsumerInv
      <4>2. m_gets < m_puts => slots'[SlotOf(m_gets)] = slots[SlotOf(m_gets)]
        BY <1>t, <3>4
      <4>3. QED
        BY <1>t, <2>1, <3>2, <4>1, <4>2 DEF RingInv, ConsumerInv
    <3>6. FilledInv'
      BY <1>t, <2>1, <3>4 DEF RingInv, FilledInv
    <3>7. VacantInv'
      <4> SUFFICES ASSUME NEW n \in m_puts .. m_gets + Capacity - 1
                   PROVE  \/ slots'[SlotOf(n)] = VacantTag(n)
                          \/ /\ n = m_puts
                             /\ pc'[p] = "push_advance" /\ won'[p]
                             /\ cnt'[p] = m_puts /\ val'[p] = slots'[SlotOf(n)]
        BY <2>1 DEF VacantInv
      <4>1. CASE n = m_puts
        BY <1>t, <2>1, <3>1, <3>2, <3>3, <4>1
      <4>2. CASE n # m_puts
        BY <1>t, <3>4, <4>2 DEF RingInv, VacantInv
      <4>3. QED
        BY <4>1, <4>2
    <3>8. AdvanceInv'
      BY <1>t, <2>1, <3>1, <3>2, <3>3 DEF RingInv, AdvanceInv
    <3>9. QED
      BY <3>5, <3>6, <3>7, <3>8 DEF RingInv
  <2>3. CASE slots[SlotOf(cnt[p])] # VacantTag(cnt[p])
    <3>1. slots' = slots /\ won' = [won EXCEPT ![p] = FALSE]
      BY <1>4, <2>3 DEF PushSwap
    <3>2. cnt[p] = m_puts => slots[SlotOf(m_puts)].kind = "ptr"
      BY <1>t, <2>1, <2>3 DEF RingInv, VacantInv, AdvanceInv
    <3>3. QED
      BY <1>t, <2>1, <3>1, <3>2
         DEF RingInv, ConsumerInv, FilledInv, VacantInv, AdvanceInv
  <2>4. QED
    BY <2>2, <2>3
<1>5. CASE PushAdvance(p)
  <2>1. /\ pc[p] = "push_advance"
        /\ pc'[p] # "push_advance"
        /\ \A t \in Threads \ {p} : pc'[t] = pc[t]
        /\ UNCHANGED <<slots, m_gets, cnt, val, won>>
        /\ cnt[p] < m_gets + Capacity
    BY <1>5, <1>t DEF PushAdvance, Goto, IndInv, Window
  <2>2. CASE m_puts = cnt[p]
    <3>1. m_puts' = m_puts + 1
      BY <1>5, <2>2 DEF PushAdvance
    <3>2. slots[SlotOf(m_puts)].kind = "ptr"
      BY <2>1, <2>2 DEF RingInv, AdvanceInv
    <3>3. ConsumerInv'
      BY <1>t, <2>1 DEF RingInv, ConsumerInv
    <3>4. FilledInv'
      BY <1>t, <2>1, <3>1, <3>2 DEF RingInv, FilledInv
    <3>5. VacantInv'
      BY <1>t, <2>1, <3>1 DEF RingInv, VacantInv
    <3>6. AdvanceInv'
      BY <1>t, <2>1, <3>1 DEF AdvanceInv
    <3>7. QED
      BY <3>3, <3>4, <3>5, <3>6 DEF RingInv
  <2>3. CASE m_puts # cnt[p]
    <3>1. m_puts' = m_puts
      BY <1>5, <2>3 DEF PushAdvance
    <3>2. QED
      BY <1>t, <2>1, <2>3, <3>1
         DEF RingInv, ConsumerInv, FilledInv, VacantInv, AdvanceInv
  <2>4. QED
    BY <2>2, <2>3
<1>6. CASE PushReturn(p)
  BY <1>0, <1>6, <1>t DEF PushReturn, Return, Goto
<1>7. CASE PushReload(p)
  BY <1>0, <1>7, <1>t DEF PushReload, Goto
<1>8. QED
  BY <1>1, <1>2, <1>3, <1>4, <1>5, <1>6, <1>7 DEF PushStep

\* No step of the only consumer breaks the invariant of the ring.
LEMMA PopRingInv ==
    ASSUME SingleConsumer, IndInv, RingInv, NEW c \in Consumers,
           PopBegin(c) \/ PopStep(c)
    PROVE  RingInv'
<1> USE QueueAssumption, RolesDisjoint
<1>t. /\ m_gets \in Nat /\ m_puts \in Nat /\ Capacity \in Nat \ {0}
      /\ cnt \in [Threads -> Nat] /\ pc \in [Threads -> PushPCs \cup PopPCs]
      /\ won \in [Threads -> BOOLEAN] /\ val \in [Threads -> Contents]
      /\ slots \in [SlotSet -> Contents]
      /\ c \in Threads /\ Producers \subseteq Threads /\ Consumers \subseteq Threads
      /\ Consumers = {c}
      /\ \A p \in Producers : p # c
      /\ m_gets <= m_puts /\ m_puts <= m_gets + Capacity
      /\ \A p \in Producers : /\ cnt[p] <= m_puts
                              /\ pc[p] = "push_advance" => cnt[p] < m_gets + Capacity
  BY DEF IndInv, TypeOK, Threads, Window, CountersBounded, SingleConsumer
\* Steps that only move the consumer, outside its two exchanges.
<1>0. ASSUME UNCHANGED <<slots, m_puts, m_gets>>,
             pc[c] # "pop_advance",
             pc'[c] \in {"idle", "pop_check", "pop_load", "pop_return"},
             pc'[c] \in {"pop_check", "pop_load"} => cnt'[c] = m_gets,
             \A p \in Producers : /\ pc'[p] = pc[p]
                                 /\ cnt'[p] = cnt[p]
                                 /\ val'[p] = val[p]
                                 /\ won'[p] = won[p]
      PROVE  RingInv'
  BY <1>0, <1>t DEF RingInv, ConsumerInv, FilledInv, VacantInv, AdvanceInv
<1>1. CASE PopBegin(c)
  BY <1>0, <1>1, <1>t DEF PopBegin, Goto
<1>2. CASE PopCheck(c)
  BY <1>0, <1>2, <1>t DEF PopCheck, Goto, RingInv, ConsumerInv
<1>3. CASE PopEmpty(c)
  BY <1>0, <1>3, <1>t DEF PopEmpty, Return, Goto
<1>4. CASE PopLoad(c)
  BY <1>4, <1>t DEF PopLoad, Goto,
                    RingInv, ConsumerInv, FilledInv, VacantInv, AdvanceInv
<1>5. CASE PopSwap(c)
  <2>1. /\ pc[c] = "pop_swap" /\ cnt[c] = m_gets /\ m_gets < m_puts
        /\ val[c] = slots[SlotOf(m_gets)]
        /\ pc' = [pc EXCEPT ![c] = "pop_advance"]
        /\ UNCHANGED <<m_puts, m_gets, cnt, val>>
        /\ slots' = [slots EXCEPT ![SlotOf(m_gets)] = VacantTag(m_gets + Capacity)]
        /\ won' = [won EXCEPT ![c] = TRUE]
    BY <1>5 DEF PopSwap, Goto, IndInv, Window, RingInv, ConsumerInv
  <2>2. slots[SlotOf(m_gets)].kind = "ptr"
    BY <1>t, <2>1 DEF RingInv, FilledInv
  <2>3. /\ \A n \in m_gets .. m_gets + Capacity - 1 :
              n # m_gets => slots'[SlotOf(n)] = slots[SlotOf(n)]
        /\ slots'[SlotOf(m_gets)] = VacantTag(m_gets + Capacity)
    BY <1>t, <2>1, SlotsDiffer, SlotOfInRange
  <2>4. ConsumerInv'
    BY <1>t, <2>1, <2>2, <2>3 DEF ConsumerInv
  <2>5. FilledInv'
    BY <1>t, <2>1, <2>3 DEF RingInv, FilledInv
  <2>6. VacantInv'
    BY <1>t, <2>1, <2>3 DEF RingInv, VacantInv
  <2>7. AdvanceInv'
    BY <1>t, <2>1, <2>3 DEF RingInv, AdvanceInv
  <2>8. QED
    BY <2>4, <2>5, <2>6, <2>7 DEF RingInv
<1>6. CASE PopAdvance(c)
  <2>1. /\ pc[c] = "pop_advance"
        /\ pc' = [pc EXCEPT ![c] = "pop_return"]
        /\ m_gets' = m_gets + 1 /\ m_gets < m_puts
        /\ slots[SlotOf(m_gets)] = VacantTag(m_gets + Capacity)
        /\ UNCHANGED <<slots, m_puts, cnt, val, won>>
    BY <1>6 DEF PopAdvance, Goto, IsVacantTag, IndInv, Window, RingInv, ConsumerInv
  <2>2. slots[SlotOf(m_gets + Capacity)] = VacantTag(m_gets + Capacity)
    BY <1>t, <2>1, SlotNextLap
  <2>3. ConsumerInv'
    BY <1>t, <2>1 DEF ConsumerInv
  <2>4. FilledInv'
    BY <1>t, <2>1 DEF RingInv, FilledInv
  <2>5. VacantInv'
    BY <1>t, <2>1, <2>2 DEF RingInv, VacantInv
  <2>6. AdvanceInv'
    BY <1>t, <2>1 DEF RingInv, AdvanceInv
  <2>7. QED
    BY <2>3, <2>4, <2>5, <2>6 DEF RingInv
<1>7. CASE PopReturn(c)
  BY <1>0, <1>7, <1>t DEF PopReturn, Return, Goto
<1>8. CASE PopReload(c)
  BY <1>8 DEF PopReload, RingInv, ConsumerInv
<1>9. QED
  BY <1>1, <1>2, <1>3, <1>4, <1>5, <1>6, <1>7, <1>8 DEF PopStep

\* The invariant of the ring holds in every reachable state.
LEMMA RingInvariant ==
    ASSUME SingleConsumer
    PROVE  Spec => [](IndInv /\ RingInv)
<1>1. IndInv /\ RingInv /\ [Next]_vars => RingInv'
  <2> SUFFICES ASSUME IndInv, RingInv, [Next]_vars PROVE RingInv'
    OBVIOUS
  <2>1. ASSUME NEW p \in Producers,
               (\E x \in free : PushBegin(p, x)) \/ PushStep(p)
        PROVE  RingInv'
    BY <2>1, PushRingInv
  <2>2. ASSUME NEW c \in Consumers, PopBegin(c) \/ PopStep(c)
        PROVE  RingInv'
    BY <2>2, PopRingInv
  <2>3. CASE UNCHANGED vars
    BY <2>3 DEF vars, RingInv, ConsumerInv, FilledInv, VacantInv, AdvanceInv
  <2>4. QED
    BY <2>1, <2>2, <2>3 DEF Next
<1>2. QED
  BY InitRingInv, InductiveInvariant, <1>1, PTL DEF Spec

\* With one consumer empty() (Queue.hxx:66-69) and the null that pop() returns
\* (Queue.hxx:156-157) are truthful: every pointer whose push() returned true
\* has been popped.
THEOREM EmptyAnswersTrue ==
    ASSUME SingleConsumer
    PROVE  Spec => []EmptyIsEmpty
<1>1. IndInv /\ RingInv => EmptyIsEmpty
  <2> SUFFICES ASSUME IndInv, RingInv, m_puts = m_gets,
                      NEW s \in SlotSet, NEW x \in Items, InSlot(s, x)
               PROVE  Publishing(x)
    BY DEF EmptyIsEmpty
  <2>1. PICK n \in m_gets .. m_gets + Capacity - 1 : SlotOf(n) = s
    BY LapCovers DEF IndInv, TypeOK
  <2>2. slots[SlotOf(n)] = Pointer(x) /\ slots[SlotOf(n)] # VacantTag(n)
    BY <2>1, TagsAndPointers DEF InSlot
  <2>3. n \in m_puts .. m_gets + Capacity - 1
    BY <2>1
  <2>4. PICK p \in Producers : /\ pc[p] = "push_advance"
                               /\ won[p]
                               /\ val[p] = slots[SlotOf(n)]
    BY <2>2, <2>3 DEF RingInv, VacantInv
  <2>5. QED
    BY <2>2, <2>4 DEF Publishing
<1>2. QED
  BY RingInvariant, <1>1, PTL

\* With one consumer push() answers "full" (Queue.hxx:108-109) only while every
\* slot has a pointer, or the consumer is about to count the one it took out.
THEOREM FullAnswersTrue ==
    ASSUME SingleConsumer
    PROVE  Spec => []FullIsFull
<1>1. IndInv /\ RingInv => FullIsFull
  <2> SUFFICES ASSUME IndInv, RingInv, m_puts = m_gets + Capacity,
                      NEW s \in SlotSet
               PROVE  \/ \E x \in Items : InSlot(s, x)
                      \/ \E c \in Consumers, x \in Items :
                            /\ pc[c] = "pop_advance"
                            /\ InPop(c, x)
                            /\ SlotOf(cnt[c]) = s
    BY DEF FullIsFull
  <2>1. PICK n \in m_gets .. m_gets + Capacity - 1 : SlotOf(n) = s
    BY LapCovers DEF IndInv, TypeOK
  <2>2. CASE slots[s].kind = "ptr"
    <3>1. slots[s] \in Contents
      BY DEF IndInv, TypeOK
    <3>2. \E x \in Items : slots[s] = Pointer(x)
      BY <2>2, <3>1 DEF Contents, Pointer
    <3>3. QED
      BY <3>2 DEF InSlot
  <2>3. CASE n = m_gets /\ \E c \in Consumers : pc[c] = "pop_advance"
    <3>1. PICK c \in Consumers : pc[c] = "pop_advance"
      BY <2>3
    <3>2. won[c] /\ cnt[c] = n /\ val[c].kind = "ptr" /\ val[c] \in Contents
      BY <2>3, <3>1 DEF RingInv, ConsumerInv, IndInv, TypeOK, Threads
    <3>3. \E x \in Items : val[c] = Pointer(x)
      BY <3>2 DEF Contents, Pointer
    <3>4. QED
      BY <2>1, <3>1, <3>2, <3>3 DEF InPop
  <2>4. n \in m_gets .. m_puts - 1
    BY <2>1, QueueAssumption DEF IndInv, TypeOK
  <2>5. QED
    BY <2>1, <2>2, <2>3, <2>4 DEF RingInv, FilledInv
<1>2. QED
  BY RingInvariant, <1>1, PTL

----------------------------------------------------------------------------
(* The ring implements BoundedFifo *)

\* The pointer put under a number is in its slot, or with the consumer.
LEMMA PutAtValue ==
    ASSUME SingleConsumer, NEW n
    PROVE  /\ (\A c \in Consumers : ~TakenAt(c, n)) => PutAt(n) = slots[SlotOf(n)].of
           /\ \A c \in Consumers : TakenAt(c, n) => PutAt(n) = val[c].of
  BY DEF PutAt, SingleConsumer

\* The contents of the abstract queue: a sequence of size() pointers.
LEMMA ContentsType ==
    ASSUME SingleConsumer, IndInv, RingInv
    PROVE  /\ FifoContents \in Seq(Items)
           /\ Len(FifoContents) = m_puts - m_gets
           /\ \A i \in 1 .. m_puts - m_gets : /\ FifoContents[i] = PutAt(m_gets + i - 1)
                                             /\ PutAt(m_gets + i - 1) \in Items
<1>1. m_puts \in Nat /\ m_gets \in Nat /\ m_puts - m_gets \in Nat
  BY DEF IndInv, TypeOK, Window, CountersBounded
<1>2. ASSUME NEW n \in m_gets .. m_puts - 1 PROVE PutAt(n) \in Items
  <2>1. CASE \E c \in Consumers : TakenAt(c, n)
    <3>1. PICK c \in Consumers : TakenAt(c, n)
      BY <2>1
    <3>2. val[c] \in Contents /\ val[c].kind = "ptr"
      BY <3>1 DEF TakenAt, RingInv, ConsumerInv, IndInv, TypeOK, Threads
    <3>3. val[c].of \in Items
      BY <3>2 DEF Contents
    <3>4. QED
      BY <3>1, <3>3, PutAtValue
  <2>2. CASE \A c \in Consumers : ~TakenAt(c, n)
    <3>1. ~(n = m_gets /\ \E c \in Consumers : pc[c] = "pop_advance")
      BY <2>2 DEF TakenAt, RingInv, ConsumerInv
    <3>2. slots[SlotOf(n)].kind = "ptr"
      BY <3>1 DEF RingInv, FilledInv
    <3>3. slots[SlotOf(n)] \in Contents
      BY <1>1, SlotOfInRange DEF IndInv, TypeOK
    <3>4. slots[SlotOf(n)].of \in Items
      BY <3>2, <3>3 DEF Contents
    <3>5. QED
      BY <2>2, <3>4, PutAtValue
  <2>3. QED
    BY <2>1, <2>2
<1>3. \A i \in 1 .. m_puts - m_gets : PutAt(m_gets + i - 1) \in Items
  BY <1>1, <1>2
<1>4. QED
  BY <1>1, <1>3 DEF FifoContents

LEMMA FifoInit == Init => Fifo!Init
<1> SUFFICES ASSUME Init PROVE Fifo!Init
  OBVIOUS
<1>1. FifoContents = <<>>
  BY DEF FifoContents, Init
<1>2. FifoStages = [t \in Threads |-> "idle"]
  BY DEF FifoStages, FifoStage, Init
<1>3. FifoItems = [t \in Threads |-> None]
  BY DEF FifoItems, FifoItem, Init
<1>4. QED
  BY <1>1, <1>2, <1>3 DEF Fifo!Init, Fifo!Threads, Threads, Init

LEMMA IsAppend ==
    ASSUME NEW S, NEW s \in Seq(S), NEW t \in Seq(S), NEW x \in S,
           Len(t) = Len(s) + 1, t[Len(s) + 1] = x,
           \A i \in 1 .. Len(s) : t[i] = s[i]
    PROVE  t = Append(s, x)
<1>1. /\ Append(s, x) \in Seq(S) /\ Len(Append(s, x)) = Len(s) + 1
      /\ \A i \in 1 .. Len(s) : Append(s, x)[i] = s[i]
      /\ Append(s, x)[Len(s) + 1] = x
  OBVIOUS
<1>2. Len(s) \in Nat
  OBVIOUS
<1>3. \A i \in 1 .. Len(t) : t[i] = Append(s, x)[i]
  BY <1>1, <1>2
<1>4. QED
  BY <1>1, <1>3, SeqEqual

LEMMA IsTail ==
    ASSUME NEW S, NEW s \in Seq(S), NEW t \in Seq(S), s # <<>>,
           Len(t) = Len(s) - 1, \A i \in 1 .. Len(t) : t[i] = s[i + 1]
    PROVE  t = Tail(s)
  BY HeadTailProperties, SeqEqual

\* A step that leaves the counters, the slots and the consumer's hand alone
\* leaves the abstract contents alone.
LEMMA ContentsUnchanged ==
    ASSUME SingleConsumer, IndInv, RingInv, UNCHANGED <<m_puts, m_gets>>,
           \A n \in m_gets .. m_puts - 1 : PutAt(n)' = PutAt(n)
    PROVE  FifoContents' = FifoContents
  BY DEF FifoContents, IndInv, TypeOK

\* A step of a producer that moves no counter shows in its own stage at most.
LEMMA ProducerLocal ==
    ASSUME SingleConsumer, IndInv, RingInv, NEW p \in Producers,
           UNCHANGED <<slots, m_puts, m_gets>>,
           \A t \in Threads \ {p} : /\ pc'[t] = pc[t]
                                   /\ cnt'[t] = cnt[t]
                                   /\ val'[t] = val[t]
                                   /\ won'[t] = won[t]
    PROVE  /\ FifoContents' = FifoContents
           /\ FifoStages' = [FifoStages EXCEPT ![p] = FifoStage(p)']
           /\ FifoItems' = [FifoItems EXCEPT ![p] = FifoItem(p)']
           /\ \A t \in Threads \ {p} : /\ FifoStage(t)' = FifoStage(t)
                                       /\ FifoItem(t)' = FifoItem(t)
<1>1. \A c \in Consumers : c \in Threads \ {p}
  BY RolesDisjoint DEF Threads
<1>2. ASSUME NEW n PROVE PutAt(n)' = PutAt(n)
  <2>1. \A c \in Consumers : TakenAt(c, n)' = TakenAt(c, n) /\ val'[c] = val[c]
    BY <1>1 DEF TakenAt
  <2>2. CASE \E c \in Consumers : TakenAt(c, n)
    BY <2>1, <2>2, SingleConsumer DEF PutAt, SingleConsumer
  <2>3. CASE \A c \in Consumers : ~TakenAt(c, n)
    BY <2>1, <2>3 DEF PutAt
  <2>4. QED
    BY <2>2, <2>3
<1>3. \A t \in Threads \ {p} : /\ FifoStage(t)' = FifoStage(t)
                               /\ FifoItem(t)' = FifoItem(t)
  BY DEF FifoStage, FifoItem
<1>4. QED
  BY <1>2, <1>3, ContentsUnchanged DEF FifoStages, FifoItems, Threads

\* Every step of push() is a step of BoundedFifo or none.
LEMMA PushRefines ==
    ASSUME SingleConsumer, IndInv, RingInv, NEW p \in Producers,
           (\E x \in free : PushBegin(p, x)) \/ PushStep(p)
    PROVE  [Fifo!Next]_(Fifo!vars)
<1> USE QueueAssumption, RolesDisjoint
<1>t. /\ m_gets \in Nat /\ m_puts \in Nat /\ Capacity \in Nat \ {0}
      /\ cnt \in [Threads -> Nat] /\ pc \in [Threads -> PushPCs \cup PopPCs]
      /\ won \in [Threads -> BOOLEAN] /\ val \in [Threads -> Contents]
      /\ slots \in [SlotSet -> Contents]
      /\ p \in Threads /\ Producers \subseteq Threads /\ Consumers \subseteq Threads
      /\ m_gets <= m_puts /\ m_puts <= m_gets + Capacity
      /\ cnt[p] <= m_puts
  BY DEF IndInv, TypeOK, Threads, Window, CountersBounded
<1>f. /\ FifoStages \in [Threads -> {"idle", "called", "done"}]
      /\ FifoStages[p] = FifoStage(p) /\ FifoItems[p] = FifoItem(p)
      /\ DOMAIN FifoItems = Threads
  BY <1>t DEF FifoStages, FifoItems, FifoStage
<1>1. ASSUME NEW x \in free, PushBegin(p, x) PROVE Fifo!PushCall(p, x)
  <2>1. /\ FifoContents' = FifoContents
        /\ FifoStages' = [FifoStages EXCEPT ![p] = FifoStage(p)']
        /\ FifoItems' = [FifoItems EXCEPT ![p] = FifoItem(p)']
    BY <1>1, <1>t, ProducerLocal DEF PushBegin, Goto
  <2>2. FifoStage(p) = "idle" /\ FifoStage(p)' = "called" /\ FifoItem(p)' = x
    BY <1>1, <1>t DEF PushBegin, Goto, FifoStage, FifoItem, Pointer
  <2>3. QED
    BY <1>1, <1>f, <2>1, <2>2 DEF PushBegin, Fifo!PushCall, Fifo!Enter
<1>2. CASE PushCheck(p) \/ PushReload(p)
  <2>1. /\ FifoContents' = FifoContents
        /\ \A t \in Threads \ {p} : /\ FifoStage(t)' = FifoStage(t)
                                    /\ FifoItem(t)' = FifoItem(t)
        /\ free' = free
    BY <1>2, <1>t, ProducerLocal DEF PushCheck, PushReload, Goto
  <2>2. FifoStage(p)' = FifoStage(p) /\ FifoItem(p)' = FifoItem(p)
    BY <1>2, <1>t DEF PushCheck, PushReload, Goto, FifoStage, FifoItem
  <2>3. QED
    BY <2>1, <2>2 DEF FifoStages, FifoItems, Fifo!vars
<1>3. CASE PushFull(p)
  <2>1. /\ FifoContents' = FifoContents
        /\ FifoStages' = [FifoStages EXCEPT ![p] = FifoStage(p)']
        /\ FifoItems' = [FifoItems EXCEPT ![p] = FifoItem(p)']
    BY <1>3, <1>t, ProducerLocal DEF PushFull, Return, Goto
  <2>2. /\ FifoStage(p) = "called" /\ FifoItem(p) = val[p].of
        /\ FifoStage(p)' = "idle" /\ FifoItem(p)' = None
    BY <1>3, <1>t DEF PushFull, Return, Goto, FifoStage, FifoItem
  <2>3. m_puts - m_gets = Capacity
    BY <1>3, <1>t DEF PushFull, HasRoom
  <2>4. QED
    BY <1>3, <1>f, <2>1, <2>2, <2>3, ContentsType
       DEF PushFull, Fifo!Next, Fifo!PushFalse, Fifo!Enter
<1>4. CASE PushSwap(p)
  <2>1. /\ pc[p] = "push_swap" /\ ~won[p]
        /\ pc' = [pc EXCEPT ![p] = "push_advance"]
        /\ UNCHANGED <<m_puts, m_gets, free, cnt, val>>
        /\ won' = [won EXCEPT ![p] = won'[p]]
        /\ won'[p] => cnt[p] = m_puts
    BY <1>4, <1>t, TagIsNext DEF PushSwap, Goto, IndInv, CallShape
  <2>2. \A n \in m_gets .. m_puts - 1 : slots'[SlotOf(n)] = slots[SlotOf(n)]
    <3>1. CASE slots[SlotOf(cnt[p])] = VacantTag(cnt[p])
      <4>1. slots' = [slots EXCEPT ![SlotOf(m_puts)] = val[p]]
        BY <1>4, <2>1, <3>1, TagIsNext DEF PushSwap
      <4>2. m_puts < m_gets + Capacity
        BY <2>1, <3>1, TagIsNext DEF IndInv, Window
      <4>3. QED
        BY <1>t, <4>1, <4>2, SlotsDiffer, SlotOfInRange
    <3>2. CASE slots[SlotOf(cnt[p])] # VacantTag(cnt[p])
      BY <1>4, <3>2 DEF PushSwap
    <3>3. QED
      BY <3>1, <3>2
  <2>3. \A n : \A c \in Consumers : TakenAt(c, n)' = TakenAt(c, n)
    BY <1>t, <2>1 DEF TakenAt
  <2>4. \A n \in m_gets .. m_puts - 1 : PutAt(n)' = PutAt(n)
    BY <2>1, <2>2, <2>3 DEF PutAt
  <2>5. \A t \in Threads : FifoStage(t)' = FifoStage(t) /\ FifoItem(t)' = FifoItem(t)
    BY <1>t, <2>1 DEF FifoStage, FifoItem
  <2>6. QED
    BY <2>1, <2>4, <2>5, ContentsUnchanged DEF FifoStages, FifoItems, Fifo!vars
<1>5. CASE PushAdvance(p)
  <2>1. /\ pc[p] = "push_advance"
        /\ pc' = [pc EXCEPT ![p] = IF won[p] THEN "push_return" ELSE "push_reload"]
        /\ UNCHANGED <<slots, m_gets, free, cnt, val, won>>
        /\ cnt[p] < m_gets + Capacity
    BY <1>5, <1>t DEF PushAdvance, Goto, IndInv, Window
  <2>2. \A n : PutAt(n)' = PutAt(n)
    BY <1>t, <2>1 DEF PutAt, TakenAt
  <2>3. CASE m_puts = cnt[p]
    <3>1. m_puts' = m_puts + 1
      BY <1>5, <2>3 DEF PushAdvance
    <3>2. slots[SlotOf(m_puts)].kind = "ptr"
      BY <2>1, <2>3 DEF RingInv, AdvanceInv
    <3>3. m_puts \in m_puts .. m_gets + Capacity - 1
      BY <1>t, <2>1, <2>3
    <3>4. PICK q \in Producers : /\ pc[q] = "push_advance"
                                 /\ won[q]
                                 /\ cnt[q] = m_puts
                                 /\ val[q] = slots[SlotOf(m_puts)]
      <4>1. slots[SlotOf(m_puts)] # VacantTag(m_puts)
        BY <3>2 DEF VacantTag
      <4>2. QED
        BY <3>3, <4>1 DEF RingInv, VacantInv
    <3>5. \A r \in Producers :
             pc[r] = "push_advance" /\ won[r] /\ cnt[r] = m_puts => r = q
      BY <3>4 DEF RingInv, AdvanceInv
    <3>6. /\ FifoStage(q) = "called" /\ FifoStage(q)' = "done"
          /\ FifoItem(q) = val[q].of
          /\ \A t \in Threads : FifoItem(t)' = FifoItem(t)
      BY <1>t, <2>1, <2>3, <3>1, <3>4 DEF FifoStage, FifoItem
    <3>7. \A r \in Producers : cnt[r] <= m_puts
      BY DEF IndInv, Window
    <3>8. \A t \in Threads \ {q} : FifoStage(t)' = FifoStage(t)
      <4> SUFFICES ASSUME NEW t \in Threads \ {q}
                   PROVE  FifoStage(t)' = FifoStage(t)
        OBVIOUS
      <4>1. CASE t = p
        BY <1>t, <2>1, <2>3, <3>1, <3>5, <4>1 DEF FifoStage
      <4>2. CASE t # p /\ t \in Producers
        BY <1>t, <2>1, <3>1, <3>5, <3>7, <4>2 DEF FifoStage
      <4>3. CASE t \in Consumers
        BY <1>t, <2>1, <4>3 DEF FifoStage, IndInv, TypeOK, PopPCs
      <4>4. QED
        BY <4>1, <4>2, <4>3 DEF Threads
    <3>9. FifoContents' = Append(FifoContents, FifoItems[q])
      <4>1. PutAt(m_puts) = val[q].of /\ FifoItems[q] = val[q].of
        <5>1. \A c \in Consumers : ~TakenAt(c, m_puts)
          BY <1>t DEF TakenAt, IndInv, Window
        <5>2. QED
          BY <1>t, <3>4, <3>6, <5>1, PutAtValue DEF FifoItems
      <4>2. FifoContents' = [i \in 1 .. m_puts - m_gets + 1 |-> PutAt(m_gets + i - 1)]
        BY <1>t, <2>1, <2>2, <3>1 DEF FifoContents
      <4>3. val[q].of \in Items
        BY <1>t, <3>2, <3>4 DEF Contents
      <4>4. m_gets + (m_puts - m_gets + 1) - 1 = m_puts
        BY <1>t
      <4>5. \A i \in 1 .. m_puts - m_gets + 1 : PutAt(m_gets + i - 1) \in Items
        <5>1. \A i \in 1 .. m_puts - m_gets : PutAt(m_gets + i - 1) \in Items
          BY ContentsType
        <5>2. \A i \in 1 .. m_puts - m_gets + 1 :
                 i \in 1 .. m_puts - m_gets \/ m_gets + i - 1 = m_puts
          BY <1>t
        <5>3. QED
          BY <4>1, <4>3, <5>1, <5>2
      <4>6. /\ FifoContents' \in Seq(Items)
            /\ Len(FifoContents') = m_puts - m_gets + 1
            /\ \A i \in 1 .. m_puts - m_gets + 1 :
                  FifoContents'[i] = PutAt(m_gets + i - 1)
        BY <1>t, <4>2, <4>5
      <4>7. QED
        <5>1. /\ Len(FifoContents') = Len(FifoContents) + 1
              /\ FifoContents'[Len(FifoContents) + 1] = FifoItems[q]
              /\ \A i \in 1 .. Len(FifoContents) : FifoContents'[i] = FifoContents[i]
              /\ FifoContents \in Seq(Items) /\ FifoContents' \in Seq(Items)
              /\ FifoItems[q] \in Items
          BY <1>t, <4>1, <4>3, <4>4, <4>6, ContentsType
        <5> HIDE DEF FifoContents, FifoItems
        <5>2. QED
          BY <5>1, IsAppend
    <3>10. /\ FifoStages' = [FifoStages EXCEPT ![q] = "done"]
           /\ FifoItems' = [FifoItems EXCEPT ![q] = FifoItems[q]]
           /\ FifoStages[q] = "called"
      BY <1>t, <3>6, <3>8 DEF FifoStages, FifoItems
    <3>11. Len(FifoContents) < Capacity
      BY <1>t, <2>1, <2>3, ContentsType
    <3>12. Fifo!PushEffect(q)
      BY <2>1, <3>9, <3>10, <3>11 DEF Fifo!PushEffect, Fifo!Enter
    <3>13. QED
      BY <3>12 DEF Fifo!Next
  <2>4. CASE m_puts # cnt[p]
    <3>1. m_puts' = m_puts
      BY <1>5, <2>4 DEF PushAdvance
    <3>2. \A t \in Threads : FifoStage(t)' = FifoStage(t) /\ FifoItem(t)' = FifoItem(t)
      BY <1>t, <2>1, <2>4, <3>1 DEF FifoStage, FifoItem
    <3>3. QED
      BY <2>1, <2>2, <3>1, <3>2, ContentsUnchanged DEF FifoStages, FifoItems, Fifo!vars
  <2>5. QED
    BY <2>3, <2>4
<1>6. CASE PushReturn(p)
  <2>1. /\ FifoContents' = FifoContents
        /\ FifoStages' = [FifoStages EXCEPT ![p] = FifoStage(p)']
        /\ FifoItems' = [FifoItems EXCEPT ![p] = FifoItem(p)']
    BY <1>6, <1>t, ProducerLocal DEF PushReturn, Return, Goto
  <2>2. FifoStage(p) = "done" /\ FifoStage(p)' = "idle" /\ FifoItem(p)' = None
    BY <1>6, <1>t DEF PushReturn, Return, Goto, FifoStage, FifoItem
  <2>3. QED
    BY <1>6, <1>f, <2>1, <2>2 DEF PushReturn, Fifo!Next, Fifo!PushTrue, Fifo!Enter
<1>7. QED
  BY <1>1, <1>2, <1>3, <1>4, <1>5, <1>6 DEF PushStep, Fifo!Next

\* Every step of the only consumer is a step of BoundedFifo or none.
LEMMA PopRefines ==
    ASSUME SingleConsumer, IndInv, RingInv, NEW c \in Consumers,
           PopBegin(c) \/ PopStep(c)
    PROVE  [Fifo!Next]_(Fifo!vars)
<1> USE QueueAssumption, RolesDisjoint
<1>t. /\ m_gets \in Nat /\ m_puts \in Nat /\ Capacity \in Nat \ {0}
      /\ cnt \in [Threads -> Nat] /\ pc \in [Threads -> PushPCs \cup PopPCs]
      /\ won \in [Threads -> BOOLEAN] /\ val \in [Threads -> Contents]
      /\ slots \in [SlotSet -> Contents]
      /\ c \in Threads /\ c \notin Producers
      /\ Producers \subseteq Threads /\ Consumers \subseteq Threads
      /\ Consumers = {c}
      /\ m_gets <= m_puts /\ m_puts <= m_gets + Capacity
  BY DEF IndInv, TypeOK, Threads, Window, CountersBounded, SingleConsumer
<1>f. /\ FifoStages[c] = FifoStage(c) /\ FifoItems[c] = FifoItem(c)
      /\ FifoContents \in Seq(Items) /\ Len(FifoContents) = m_puts - m_gets
  BY <1>t, ContentsType DEF FifoStages, FifoItems
\* A step of the consumer alone, outside its exchanges.
<1>0. ASSUME UNCHANGED <<slots, m_puts, m_gets>>,
             pc[c] # "pop_advance", pc'[c] # "pop_advance",
             \A t \in Threads \ {c} : /\ pc'[t] = pc[t]
                                     /\ cnt'[t] = cnt[t]
                                     /\ val'[t] = val[t]
                                     /\ won'[t] = won[t]
      PROVE  /\ FifoContents' = FifoContents
             /\ FifoStages' = [FifoStages EXCEPT ![c] = FifoStage(c)']
             /\ FifoItems' = [FifoItems EXCEPT ![c] = FifoItem(c)']
             /\ \A t \in Threads \ {c} : /\ FifoStage(t)' = FifoStage(t)
                                         /\ FifoItem(t)' = FifoItem(t)
  <2>1. \A n : PutAt(n)' = PutAt(n)
    BY <1>0, <1>t DEF PutAt, TakenAt
  <2>2. \A t \in Threads \ {c} : FifoStage(t)' = FifoStage(t) /\ FifoItem(t)' = FifoItem(t)
    BY <1>0 DEF FifoStage, FifoItem
  <2>3. QED
    BY <1>0, <2>1, <2>2, ContentsUnchanged DEF FifoStages, FifoItems
<1>1. CASE PopBegin(c)
  <2>1. /\ FifoContents' = FifoContents
        /\ FifoStages' = [FifoStages EXCEPT ![c] = FifoStage(c)']
        /\ FifoItems' = [FifoItems EXCEPT ![c] = FifoItem(c)']
    BY <1>0, <1>1, <1>t DEF PopBegin, Goto
  <2>2. FifoStage(c) = "idle" /\ FifoStage(c)' = "called" /\ FifoItem(c)' = None
    BY <1>1, <1>t DEF PopBegin, Goto, FifoStage, FifoItem
  <2>3. QED
    BY <1>1, <1>f, <2>1, <2>2 DEF PopBegin, Fifo!Next, Fifo!PopCall, Fifo!Enter
<1>2. CASE PopCheck(c) \/ PopLoad(c)
  <2>1. /\ FifoContents' = FifoContents
        /\ \A t \in Threads \ {c} : FifoStage(t)' = FifoStage(t) /\ FifoItem(t)' = FifoItem(t)
        /\ free' = free
    BY <1>0, <1>2, <1>t DEF PopCheck, PopLoad, Goto
  <2>2. FifoStage(c)' = FifoStage(c) /\ FifoItem(c)' = FifoItem(c)
    BY <1>2, <1>t DEF PopCheck, PopLoad, Goto, FifoStage, FifoItem
  <2>3. QED
    BY <2>1, <2>2 DEF FifoStages, FifoItems, Fifo!vars
<1>3. CASE PopEmpty(c)
  <2>1. /\ FifoContents' = FifoContents
        /\ FifoStages' = [FifoStages EXCEPT ![c] = FifoStage(c)']
        /\ FifoItems' = [FifoItems EXCEPT ![c] = FifoItem(c)']
    BY <1>0, <1>3, <1>t DEF PopEmpty, Return, Goto
  <2>2. FifoStage(c) = "called" /\ FifoStage(c)' = "idle" /\ FifoItem(c)' = None
    BY <1>3, <1>t DEF PopEmpty, Return, Goto, FifoStage, FifoItem
  <2>3. m_puts - m_gets = 0
    BY <1>3, <1>t DEF PopEmpty, RingInv, ConsumerInv
  <2>4. FifoContents = <<>>
    BY <1>f, <2>3, EmptySeq
  <2>5. QED
    BY <1>3, <1>f, <2>1, <2>2, <2>4 DEF PopEmpty, Fifo!Next, Fifo!PopNull, Fifo!Enter
<1>4. CASE PopSwap(c)
  <2>1. /\ pc[c] = "pop_swap" /\ cnt[c] = m_gets
        /\ val[c] = slots[SlotOf(m_gets)]
        /\ pc' = [pc EXCEPT ![c] = "pop_advance"]
        /\ UNCHANGED <<m_puts, m_gets, free, cnt, val>>
        /\ slots' = [slots EXCEPT ![SlotOf(m_gets)] = VacantTag(m_gets + Capacity)]
        /\ won' = [won EXCEPT ![c] = TRUE]
    BY <1>4 DEF PopSwap, Goto, RingInv, ConsumerInv
  <2>2. ASSUME NEW n \in m_gets .. m_puts - 1 PROVE PutAt(n)' = PutAt(n)
    <3>1. ~TakenAt(c, n) /\ (TakenAt(c, n)' <=> n = m_gets)
      BY <1>t, <2>1 DEF TakenAt
    <3>2. PutAt(n) = slots[SlotOf(n)].of
      BY <1>t, <3>1 DEF PutAt
    <3>3. CASE n = m_gets
      <4>1. PutAt(n)' = val'[c].of
        BY <1>t, <3>1, <3>3 DEF PutAt
      <4>2. QED
        BY <2>1, <3>2, <3>3, <4>1
    <3>4. CASE n # m_gets
      <4>1. PutAt(n)' = slots'[SlotOf(n)].of
        BY <1>t, <3>1, <3>4 DEF PutAt
      <4>2. slots'[SlotOf(n)] = slots[SlotOf(n)]
        BY <1>t, <2>1, <3>4, SlotsDiffer, SlotOfInRange
      <4>3. QED
        BY <3>2, <4>1, <4>2
    <3>5. QED
      BY <3>3, <3>4
  <2>3. \A t \in Threads : FifoStage(t)' = FifoStage(t) /\ FifoItem(t)' = FifoItem(t)
    BY <1>t, <2>1 DEF FifoStage, FifoItem
  <2>4. QED
    BY <2>1, <2>2, <2>3, ContentsUnchanged DEF FifoStages, FifoItems, Fifo!vars
<1>5. CASE PopAdvance(c)
  <2>1. /\ pc[c] = "pop_advance" /\ won[c] /\ cnt[c] = m_gets
        /\ pc' = [pc EXCEPT ![c] = "pop_return"]
        /\ m_gets' = m_gets + 1 /\ m_gets < m_puts
        /\ UNCHANGED <<slots, m_puts, free, cnt, val, won>>
    BY <1>5 DEF PopAdvance, Goto, IsVacantTag, IndInv, Window, RingInv, ConsumerInv
  <2>2. PutAt(m_gets) = val[c].of
    BY <2>1, PutAtValue DEF TakenAt
  <2>3. ASSUME NEW n \in m_gets + 1 .. m_puts - 1 PROVE PutAt(n)' = PutAt(n)
    <3>1. ~TakenAt(c, n) /\ ~TakenAt(c, n)'
      BY <1>t, <2>1 DEF TakenAt
    <3>2. QED
      BY <1>t, <2>1, <3>1 DEF PutAt
  <2>4. FifoContents # <<>> /\ Head(FifoContents) = val[c].of
    <3>1. 1 \in 1 .. m_puts - m_gets /\ m_gets + 1 - 1 = m_gets
      BY <1>t, <2>1
    <3>2. FifoContents[1] = val[c].of
      BY <2>2, <3>1, ContentsType
    <3>3. Len(FifoContents) # 0
      BY <1>f, <1>t, <2>1
    <3> HIDE DEF FifoContents
    <3>4. FifoContents # <<>>
      BY <3>3, EmptySeq
    <3>5. QED
      BY <1>f, <3>2, <3>4
  <2>5. FifoContents' = Tail(FifoContents)
    <3>1. PICK g \in Nat : g = m_gets
      BY <1>t
    <3>2. FifoContents' = [i \in 1 .. m_puts - g - 1 |-> PutAt(g + i)']
      <4>1. m_puts' - m_gets' = m_puts - g - 1 /\ \A i \in Int : m_gets' + i - 1 = g + i
        BY <1>t, <2>1, <3>1
      <4>2. FifoContents' = [i \in 1 .. m_puts' - m_gets' |-> PutAt(m_gets + i - 1)']
        BY DEF FifoContents
      <4>3. QED
        BY <4>1, <4>2
    <3>3. ASSUME NEW i \in 1 .. m_puts - g - 1
          PROVE  PutAt(g + i)' = FifoContents[i + 1] /\ PutAt(g + i)' \in Items
      <4>1. g + i \in m_gets + 1 .. m_puts - 1
        BY <1>t, <3>1
      <4>2. PutAt(g + i)' = PutAt(g + i)
        BY <2>3, <4>1
      <4>3. i + 1 \in 1 .. m_puts - m_gets /\ m_gets + (i + 1) - 1 = g + i
        BY <1>t, <3>1
      <4>4. FifoContents[i + 1] = PutAt(g + i) /\ PutAt(g + i) \in Items
        BY <4>3, ContentsType
      <4>5. QED
        BY <4>2, <4>4
    <3>4. /\ FifoContents' \in Seq(Items)
          /\ Len(FifoContents') = m_puts - g - 1
          /\ \A i \in 1 .. m_puts - g - 1 : FifoContents'[i] = FifoContents[i + 1]
      <4>1. PICK k \in Nat : k = m_puts - g - 1
        BY <1>t, <2>1, <3>1
      <4>2. FifoContents' \in [1 .. k -> Items]
        BY <3>2, <3>3, <4>1
      <4> HIDE DEF FifoContents
      <4>3. FifoContents' \in Seq(Items) /\ Len(FifoContents') = k
        BY <4>1, <4>2
      <4>4. \A i \in 1 .. k : FifoContents'[i] = FifoContents[i + 1]
        BY <3>2, <3>3, <4>1
      <4>5. QED
        BY <4>1, <4>3, <4>4
    <3>5. Len(FifoContents) - 1 = m_puts - g - 1
      BY <1>f, <3>1
    <3> HIDE DEF FifoContents
    <3>6. QED
      BY <1>f, <2>4, <3>4, <3>5, IsTail
  <2>6. /\ FifoStage(c) = "called" /\ FifoStage(c)' = "done"
        /\ FifoItem(c)' = val[c].of
        /\ \A t \in Threads \ {c} : FifoStage(t)' = FifoStage(t) /\ FifoItem(t)' = FifoItem(t)
    BY <1>t, <2>1 DEF FifoStage, FifoItem
  <2>7. /\ FifoStages' = [FifoStages EXCEPT ![c] = "done"]
        /\ FifoItems' = [FifoItems EXCEPT ![c] = val[c].of]
    BY <1>t, <2>6 DEF FifoStages, FifoItems
  <2>8. Fifo!PopEffect(c)
    BY <1>f, <2>1, <2>4, <2>5, <2>6, <2>7 DEF Fifo!PopEffect, Fifo!Enter
  <2>9. QED
    BY <2>8 DEF Fifo!Next
<1>6. CASE PopReturn(c)
  <2>1. /\ FifoContents' = FifoContents
        /\ FifoStages' = [FifoStages EXCEPT ![c] = FifoStage(c)']
        /\ FifoItems' = [FifoItems EXCEPT ![c] = FifoItem(c)']
    BY <1>0, <1>6, <1>t DEF PopReturn, Return, Goto
  <2>2. /\ FifoStage(c) = "done" /\ FifoItem(c) = val[c].of
        /\ FifoStage(c)' = "idle" /\ FifoItem(c)' = None
    BY <1>6, <1>t DEF PopReturn, Return, Goto, FifoStage, FifoItem
  <2>3. QED
    BY <1>6, <1>f, <2>1, <2>2 DEF PopReturn, Fifo!Next, Fifo!PopItem, Fifo!Enter
<1>7. CASE PopReload(c)
  BY <1>7 DEF PopReload, RingInv, ConsumerInv
<1>8. QED
  BY <1>1, <1>2, <1>3, <1>4, <1>5, <1>6, <1>7 DEF PopStep

\* The queue the trace library relies on: with one consumer, push() and pop()
\* (Queue.hxx:76-158) implement a bounded first-in-first-out queue, each call
\* taking effect at one instant.
THEOREM RingImplementsFifo ==
    ASSUME SingleConsumer
    PROVE  Spec => ImplementsFifo
<1>1. IndInv /\ RingInv /\ [Next]_vars => [Fifo!Next]_(Fifo!vars)
  <2> SUFFICES ASSUME IndInv, RingInv, [Next]_vars PROVE [Fifo!Next]_(Fifo!vars)
    OBVIOUS
  <2>1. ASSUME NEW p \in Producers,
               (\E x \in free : PushBegin(p, x)) \/ PushStep(p)
        PROVE  [Fifo!Next]_(Fifo!vars)
    BY <2>1, PushRefines
  <2>2. ASSUME NEW c \in Consumers, PopBegin(c) \/ PopStep(c)
        PROVE  [Fifo!Next]_(Fifo!vars)
    BY <2>2, PopRefines
  <2>3. CASE UNCHANGED vars
    BY <2>3 DEF vars, Fifo!vars, FifoContents, FifoStages, FifoItems, PutAt,
                TakenAt, FifoStage, FifoItem
  <2>4. QED
    BY <2>1, <2>2, <2>3 DEF Next
<1>2. QED
  BY FifoInit, RingInvariant, <1>1, PTL DEF Spec, ImplementsFifo, Fifo!Spec
=============================================================================
