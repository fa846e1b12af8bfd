---------------------------- MODULE BufferProofs ----------------------------
(***************************************************************************)
(* Proofs about the circular buffer of MCObjects, for every value of the   *)
(* constants.                                                              *)
(***************************************************************************)
EXTENDS MCObjects, RingLemmas

LEMMA BufferMoves == ASSUME [Next]_mcvars PROVE [Ring!Next]_ringVars
BY DEF Next, Only, mcvars

LEMMA BufferConstants == MaxCapacity \in Nat /\ Raw \notin Values
BY ObjectsAssumption DEF Ring!BufferAssumption

----------------------------------------------------------------------------
(* Positions in N slots: of the slot n after, or before, the slot p *)

Plus(N, p, n) == IF n < N - p THEN p + n ELSE p + n - N
Minus(N, p, n) == IF n > p THEN p + N - n ELSE p - n

LEMMA Around ==
    ASSUME NEW N \in Nat, NEW f \in 0 .. N - 1
    PROVE  /\ \A n \in 0 .. N : Plus(N, f, n) \in 0 .. N - 1 /\ Minus(N, f, n) \in 0 .. N - 1
           /\ \A k \in 0 .. N - 1 : Minus(N, Plus(N, f, k), f) = k
           /\ \A p \in 0 .. N - 1 : Minus(N, p, f) \in 0 .. N - 1 /\ Plus(N, f, Minus(N, p, f)) = p
BY DEF Plus, Minus

----------------------------------------------------------------------------
(* Buffers: the slots hold t, of which the position 0 is the slot b *)

Cells == Values \cup {Raw}
Put(t, k, x) == [t EXCEPT ![k] = x]
Layout(N, b, t) == [p \in 1 .. N |-> t[Minus(N, p - 1, b)]]
Rec(N, b, t, f, l, z) ==
    [slots |-> Layout(N, b, t), first |-> f, last |-> l, size |-> z, ok |-> TRUE]

IsRec(c, N, b, t, f, l, z) == N \in Nat /\ c = Rec(N, b, t, f, l, z)

LEMMA Pointers ==
    ASSUME NEW N, NEW b, NEW t, NEW f, NEW l, NEW z, NEW c, IsRec(c, N, b, t, f, l, z)
    PROVE  /\ c.first = f /\ c.last = l /\ c.size = z /\ c.ok /\ Ring!capacity(c) = N
           /\ \A p, n : Ring!add(c, p, n) = Plus(N, p, n) /\ Ring!sub(c, p, n) = Minus(N, p, n)
           /\ \A p \in 0 .. N - 1 : /\ Ring!increment(c, p) = Plus(N, p, 1)
                                    /\ Ring!decrement(c, p) = Minus(N, p, 1)
           /\ Ring!full(c) <=> z = N
           /\ Ring!reserve(c) = N - z
<1>1. c.slots = Layout(N, b, t) /\ c.first = f /\ c.last = l /\ c.size = z /\ c.ok
  BY DEF Rec, IsRec
<1>2. Len(c.slots) = N /\ N \in Nat
  BY <1>1 DEF Layout, IsRec
<1>3. Ring!capacity(c) = N
  BY <1>2 DEF Ring!capacity
<1>4. \A p, n : Ring!add(c, p, n) = Plus(N, p, n) /\ Ring!sub(c, p, n) = Minus(N, p, n)
  BY <1>3 DEF Ring!add, Ring!sub, Plus, Minus
<1>5. ASSUME NEW p \in 0 .. N - 1
      PROVE  Ring!increment(c, p) = Plus(N, p, 1) /\ Ring!decrement(c, p) = Minus(N, p, 1)
  BY <1>2, <1>3 DEF Ring!increment, Ring!decrement, Plus, Minus
<1>6. (Ring!full(c) <=> z = N) /\ Ring!reserve(c) = N - z
  BY <1>1, <1>3 DEF Ring!full, Ring!reserve
<1>7. QED
  BY <1>1, <1>3, <1>4, <1>5, <1>6

\* p is the slot of the position k of such a buffer.
IsSlot(p, k, c, N, b, t, f, l, z) ==
    /\ N \in Nat /\ b \in 0 .. N - 1 /\ t \in [0 .. N - 1 -> Cells]
    /\ c = Rec(N, b, t, f, l, z) /\ k \in 0 .. N - 1 /\ p = Plus(N, b, k)

\* A write to a position.
LEMMA SetIs ==
    ASSUME NEW N, NEW b, NEW t, NEW f, NEW l, NEW z, NEW c, NEW k, NEW p,
           IsSlot(p, k, c, N, b, t, f, l, z), NEW x \in Cells
    PROVE  /\ Ring!Get(c, p) = t[k]
           /\ Ring!Set(c, p, x) = Rec(N, b, Put(t, k, x), f, l, z)
<1>0. /\ N \in Nat /\ b \in 0 .. N - 1 /\ t \in [0 .. N - 1 -> Cells]
      /\ c = Rec(N, b, t, f, l, z) /\ k \in 0 .. N - 1 /\ p = Plus(N, b, k)
  BY DEF IsSlot
<1>1. PICK S : S = Layout(N, b, t)
  OBVIOUS
<1>2. p \in 0 .. N - 1 /\ p + 1 \in 1 .. N /\ Minus(N, p + 1 - 1, b) = k
  <2>1. p \in 0 .. N - 1 /\ Minus(N, p, b) = k
    BY <1>0, Around
  <2>2. p + 1 - 1 = p /\ p + 1 \in 1 .. N
    BY <1>0, <2>1
  <2>3. QED
    BY <2>1, <2>2
<1>3. S[p + 1] = t[k]
  BY <1>1, <1>2 DEF Layout
<1>4. [S EXCEPT ![p + 1] = x] = Layout(N, b, Put(t, k, x))
  <2>1. ASSUME NEW q \in 1 .. N
        PROVE  [S EXCEPT ![p + 1] = x][q] = Put(t, k, x)[Minus(N, q - 1, b)]
    <3>1. q - 1 \in 0 .. N - 1
      BY <1>0
    <3>2. Minus(N, q - 1, b) \in 0 .. N - 1
      BY <1>0, <1>1, <1>2, <3>1, Around
    <3>3. Minus(N, q - 1, b) = k => q = p + 1
      BY <1>0, <1>1, <1>2, <3>1, Around
    <3>4. S[q] = t[Minus(N, q - 1, b)] /\ DOMAIN S = 1 .. N
      BY <1>1 DEF Layout
    <3>5. QED
      BY <1>0, <1>2, <3>2, <3>3, <3>4 DEF Put
  <2>2. S = [q \in 1 .. N |-> S[q]]
    BY <1>1 DEF Layout
  <2>3. QED
    BY <2>1, <2>2 DEF Layout
<1>5. c = [slots |-> S, first |-> f, last |-> l, size |-> z, ok |-> TRUE]
  BY <1>0, <1>1 DEF Rec
<1>6. Ring!Get(c, p) = t[k]
  BY <1>3, <1>5 DEF Ring!Get
<1>7. Ring!Set(c, p, x) = [slots |-> [S EXCEPT ![p + 1] = x], first |-> f, last |-> l,
                           size |-> z, ok |-> TRUE]
  <2>1. PICK d : d = Ring!Set(c, p, x)
    OBVIOUS
  <2>2. d = [c EXCEPT !.slots[p + 1] = x]
    BY <2>1 DEF Ring!Set
  <2>3. d = [i \in {"slots", "first", "last", "size", "ok"} |-> d[i]]
    BY <1>5, <2>2
  <2>4. d.first = f /\ d.last = l /\ d.size = z /\ d.ok = TRUE
    BY <1>5, <2>2
  <2>5. d.slots = [S EXCEPT ![p + 1] = x]
    BY <1>5, <2>2
  <2>6. QED
    BY <2>1, <2>3, <2>4, <2>5
<1>8. QED
  BY <1>1, <1>4, <1>6, <1>7 DEF Rec

\* Updates of the fields.
LEMMA EndsAre ==
    ASSUME NEW N, NEW b, NEW t, NEW f, NEW l, NEW z, NEW c, c = Rec(N, b, t, f, l, z),
           NEW g, NEW m, NEW y
    PROVE  Ring!Ends(c, g, m, y) = Rec(N, b, t, g, m, y)
<1>1. PICK S : S = Layout(N, b, t)
  OBVIOUS
<1>2. c = [slots |-> S, first |-> f, last |-> l, size |-> z, ok |-> TRUE]
  BY <1>1 DEF Rec
<1>3. PICK d : d = [c EXCEPT !.first = g, !.last = m, !.size = y]
  OBVIOUS
<1>4. d = [i \in {"slots", "first", "last", "size", "ok"} |-> d[i]]
  BY <1>2, <1>3
<1>5. d.slots = S /\ d.first = g /\ d.last = m /\ d.size = y /\ d.ok = TRUE
  BY <1>2, <1>3
<1>6. d = [slots |-> S, first |-> g, last |-> m, size |-> y, ok |-> TRUE]
  BY <1>4, <1>5
<1>7. QED
  BY <1>1, <1>3, <1>6 DEF Rec, Ring!Ends

\* An object is made in a free position, and assigned to and destroyed in one that
\* has an object.
LEMMA Writes ==
    ASSUME NEW N, NEW b, NEW t, NEW f, NEW l, NEW z, NEW c, NEW k, NEW p,
           IsSlot(p, k, c, N, b, t, f, l, z), NEW x \in Values
    PROVE  /\ Ring!Get(c, p) = t[k]
           /\ t[k] = Raw => Ring!construct(c, p, x) = Rec(N, b, Put(t, k, x), f, l, z)
           /\ t[k] # Raw => Ring!replace(c, p, x) = Rec(N, b, Put(t, k, x), f, l, z)
           /\ \A new : (new <=> t[k] = Raw) =>
                Ring!construct_or_replace(c, new, p, x) = Rec(N, b, Put(t, k, x), f, l, z)
<1>1. /\ Ring!Get(c, p) = t[k] /\ x # Raw
      /\ Ring!Set(c, p, x) = Rec(N, b, Put(t, k, x), f, l, z)
  <2>1. x \in Cells /\ x # Raw
    BY BufferConstants DEF Cells
  <2>2. ASSUME NEW y \in Cells
        PROVE  /\ Ring!Get(c, p) = t[k]
               /\ Ring!Set(c, p, y) = Rec(N, b, Put(t, k, y), f, l, z)
    BY SetIs
  <2>3. QED
    BY <2>1, <2>2
<1>2. t[k] = Raw => Ring!construct(c, p, x) = Ring!Set(c, p, x)
  BY <1>1 DEF Ring!construct
<1>3. t[k] # Raw => Ring!replace(c, p, x) = Ring!Set(c, p, x)
  BY <1>1 DEF Ring!replace
<1>4. QED
  BY <1>1, <1>2, <1>3 DEF Ring!construct_or_replace

LEMMA Destroys ==
    ASSUME NEW N, NEW b, NEW t, NEW f, NEW l, NEW z, NEW c, NEW k, NEW p,
           IsSlot(p, k, c, N, b, t, f, l, z), t[k] # Raw
    PROVE  Ring!destroy_item(c, p) = Rec(N, b, Put(t, k, Raw), f, l, z)
<1>1. Raw \in Cells
  BY DEF Cells
<1>2. /\ Ring!Get(c, p) = t[k]
      /\ Ring!Set(c, p, Raw) = Rec(N, b, Put(t, k, Raw), f, l, z)
  BY <1>1, SetIs
<1>3. QED
  BY <1>2 DEF Ring!destroy_item

----------------------------------------------------------------------------
(* A buffer of N slots whose items, from the slot f on, are s *)

Content(N, s) == [j \in 0 .. N - 1 |-> IF j < Len(s) THEN s[j + 1] ELSE Raw]
At(N, f, s) == Rec(N, f, Content(N, s), f, Plus(N, f, Len(s)), Len(s))
Fits(N, f, s) ==
    /\ (N \in Nat /\ f \in 0 .. N - 1) \/ (N = 0 /\ f = 0)
    /\ s \in Seq(Values) /\ Len(s) <= N

LEMMA Turn ==
    ASSUME NEW N \in Nat, NEW f \in 0 .. N - 1, NEW h \in 0 .. N - 1, NEW p \in 0 .. N - 1
    PROVE  /\ Plus(N, h, Minus(N, p, Plus(N, f, h))) = Minus(N, p, f)
           /\ Minus(N, p, Plus(N, f, h)) \in 0 .. N - 1
BY DEF Plus, Minus

\* The slots t hold s from another first one, g, on, which is at the position h.
Turns(N, f, t, h, g, s) ==
    /\ N \in Nat /\ f \in 0 .. N - 1 /\ t \in [0 .. N - 1 -> Cells]
    /\ h \in 0 .. N - 1 /\ g = Plus(N, f, h) /\ s \in Seq(Values) /\ Len(s) <= N
    /\ \A q \in 0 .. N - 1 : t[Plus(N, h, q)] = IF q < Len(s) THEN s[q + 1] ELSE Raw

LEMMA Turned ==
    ASSUME NEW N, NEW f, NEW t, NEW h, NEW g, NEW s, Turns(N, f, t, h, g, s)
    PROVE  Rec(N, f, t, g, Plus(N, g, Len(s)), Len(s)) = At(N, g, s) /\ Fits(N, g, s)
<1>0. /\ N \in Nat /\ f \in 0 .. N - 1 /\ t \in [0 .. N - 1 -> Cells]
      /\ h \in 0 .. N - 1 /\ g = Plus(N, f, h) /\ s \in Seq(Values) /\ Len(s) <= N
      /\ \A q \in 0 .. N - 1 : t[Plus(N, h, q)] = IF q < Len(s) THEN s[q + 1] ELSE Raw
  BY DEF Turns
<1>1. g \in 0 .. N - 1
  BY <1>0, Around
<1>2. ASSUME NEW p \in 1 .. N PROVE t[Minus(N, p - 1, f)] = Content(N, s)[Minus(N, p - 1, g)]
  <2>1. PICK q : q = Minus(N, p - 1, g)
    OBVIOUS
  <2>2. q \in 0 .. N - 1 /\ Plus(N, h, q) = Minus(N, p - 1, f)
    <3>1. p - 1 \in 0 .. N - 1
      BY <1>0
    <3>2. QED
      BY <1>0, <2>1, <3>1, Turn
  <2>3. QED
    BY <1>0, <2>1, <2>2 DEF Content
<1>3. Layout(N, f, t) = Layout(N, g, Content(N, s))
  BY <1>2 DEF Layout
<1>4. QED
  BY <1>0, <1>1, <1>3 DEF Rec, At, Fits

\* What the fields of such a buffer are.
LEMMA AtIs ==
    ASSUME NEW N, NEW f, NEW s, Fits(N, f, s), NEW c, c = At(N, f, s)
    PROVE  /\ N \in Nat /\ Len(s) \in 0 .. N /\ s \in Seq(Values)
           /\ c.first = f /\ c.last = Plus(N, f, Len(s)) /\ c.size = Len(s) /\ c.ok
           /\ Ring!capacity(c) = N /\ (Ring!full(c) <=> Len(s) = N)
           /\ Ring!reserve(c) = N - Len(s)
           /\ N # 0 => f \in 0 .. N - 1 /\ c.last \in 0 .. N - 1
           /\ N = 0 => f = 0 /\ c.last = 0
           /\ Content(N, s) \in [0 .. N - 1 -> Cells]
           /\ c = Rec(N, f, Content(N, s), f, c.last, Len(s))
<1>1. N \in Nat /\ Len(s) \in 0 .. N /\ s \in Seq(Values) /\ f \in Nat
  BY DEF Fits
<1>2. /\ N # 0 => f \in 0 .. N - 1 /\ Plus(N, f, Len(s)) \in 0 .. N - 1
      /\ N = 0 => f = 0 /\ Plus(N, f, Len(s)) = 0
  BY <1>1 DEF Fits, Plus
<1>3. Content(N, s) \in [0 .. N - 1 -> Cells]
  BY <1>1 DEF Content, Cells
<1>4. c = Rec(N, f, Content(N, s), f, Plus(N, f, Len(s)), Len(s))
  BY DEF At
<1>5. /\ c.first = f /\ c.last = Plus(N, f, Len(s)) /\ c.size = Len(s) /\ c.ok
      /\ Ring!capacity(c) = N /\ (Ring!full(c) <=> Len(s) = N)
      /\ Ring!reserve(c) = N - Len(s)
  <2>1. PICK l, z : l = Plus(N, f, Len(s)) /\ z = Len(s)
    OBVIOUS
  <2>2. c = Rec(N, f, Content(N, s), f, l, z)
    BY <1>4, <2>1
  <2>3. /\ c.first = f /\ c.last = l /\ c.size = z /\ c.ok /\ Ring!capacity(c) = N
        /\ Ring!full(c) <=> z = N
        /\ Ring!reserve(c) = N - z
    BY <1>1, <2>2, Pointers DEF IsRec
  <2>4. QED
    BY <2>1, <2>3
<1>6. QED
  BY <1>1, <1>2, <1>3, <1>4, <1>5
----------------------------------------------------------------------------
(* The sequences the calls make *)

Front(s, n) == [i \in 1 .. n |-> s[i]]
Back(s, n) == [i \in 1 .. n |-> s[Len(s) - n + i]]
Inserted(s, k, n, x) ==
    [i \in 1 .. Len(s) + n |-> IF i <= k THEN s[i] ELSE IF i <= k + n THEN x ELSE s[i - n]]
Removed(s, k, m) ==
    [i \in 1 .. Len(s) - (m - k) |-> IF i <= k THEN s[i] ELSE s[i + (m - k)]]

LEMMA InsertedIs ==
    ASSUME NEW S, NEW s \in Seq(S), NEW k \in 0 .. Len(s), NEW n \in Nat, NEW x \in S
    PROVE  Inserted(s, k, n, x) \in Seq(S) /\ Len(Inserted(s, k, n, x)) = Len(s) + n
<1>0. Len(s) \in Nat /\ \A i \in 1 .. Len(s) : s[i] \in S
  OBVIOUS
<1>1. \A i \in 1 .. Len(s) + n :
        (IF i <= k THEN s[i] ELSE IF i <= k + n THEN x ELSE s[i - n]) \in S
  <2>1. ASSUME NEW i \in 1 .. Len(s) + n
        PROVE  /\ i <= k => s[i] \in S
               /\ ~(i <= k + n) => s[i - n] \in S
    BY <1>0
  <2>2. QED
    BY <2>1
<1>2. Len(s) + n \in Nat
  BY <1>0
<1>3. QED
  BY <1>1, <1>2 DEF Inserted

LEMMA Lists ==
    ASSUME NEW S, NEW s \in Seq(S)
    PROVE  /\ \A n \in 0 .. Len(s) : /\ Front(s, n) \in Seq(S) /\ Len(Front(s, n)) = n
                                     /\ Back(s, n) \in Seq(S) /\ Len(Back(s, n)) = n
           /\ \A k \in 0 .. Len(s), n \in Nat, x \in S :
                Inserted(s, k, n, x) \in Seq(S) /\ Len(Inserted(s, k, n, x)) = Len(s) + n
           /\ \A k, m \in 0 .. Len(s) : k <= m =>
                Removed(s, k, m) \in Seq(S) /\ Len(Removed(s, k, m)) = Len(s) - (m - k)
<1>1. Len(s) \in Nat /\ \A i \in 1 .. Len(s) : s[i] \in S
  OBVIOUS
<1>2. ASSUME NEW n \in 0 .. Len(s)
      PROVE  /\ Front(s, n) \in Seq(S) /\ Len(Front(s, n)) = n
             /\ Back(s, n) \in Seq(S) /\ Len(Back(s, n)) = n
  <2>1. \A i \in 1 .. n : s[i] \in S /\ s[Len(s) - n + i] \in S
    BY <1>1
  <2>2. n \in Nat
    BY <1>1
  <2>3. Front(s, n) \in Seq(S) /\ Len(Front(s, n)) = n
    BY <2>1, <2>2 DEF Front
  <2>4. Back(s, n) \in Seq(S) /\ Len(Back(s, n)) = n
    BY <2>1, <2>2 DEF Back
  <2>5. QED
    BY <2>3, <2>4
<1>3. ASSUME NEW k \in 0 .. Len(s), NEW n \in Nat, NEW x \in S
      PROVE  Inserted(s, k, n, x) \in Seq(S) /\ Len(Inserted(s, k, n, x)) = Len(s) + n
  BY InsertedIs
<1>4. ASSUME NEW k \in 0 .. Len(s), NEW m \in 0 .. Len(s), k <= m
      PROVE  Removed(s, k, m) \in Seq(S) /\ Len(Removed(s, k, m)) = Len(s) - (m - k)
  <2>1. \A i \in 1 .. Len(s) - (m - k) : (IF i <= k THEN s[i] ELSE s[i + (m - k)]) \in S
    <3>1. ASSUME NEW i \in 1 .. Len(s) - (m - k)
          PROVE  /\ i <= k => s[i] \in S
                 /\ ~(i <= k) => s[i + (m - k)] \in S
      BY <1>1, <1>4
    <3>2. QED
      BY <3>1
  <2>2. Len(s) - (m - k) \in Nat
    BY <1>1, <1>4
  <2>3. QED
    BY <2>1, <2>2 DEF Removed
<1>5. QED
  BY <1>2, <1>3, <1>4

----------------------------------------------------------------------------
(* Removal at an end *)

LEMMA PopBackIs ==
    ASSUME NEW N, NEW f, NEW s, Fits(N, f, s), Len(s) # 0
    PROVE  /\ Ring!pop_back(At(N, f, s)) = At(N, f, Front(s, Len(s) - 1))
           /\ Fits(N, f, Front(s, Len(s) - 1))
<1>0. PICK z \in Nat \ {0} : z = Len(s)
  BY DEF Fits
<1>1. PICK c, l, t, r :
        c = At(N, f, s) /\ l = c.last /\ t = Content(N, s) /\ r = Front(s, z - 1)
  OBVIOUS
<1>2. /\ N \in Nat /\ z <= N /\ f \in 0 .. N - 1 /\ s \in Seq(Values) /\ l = Plus(N, f, z)
      /\ t \in [0 .. N - 1 -> Cells] /\ c = Rec(N, f, t, f, l, z)
  BY <1>0, <1>1, AtIs
<1>3. r \in Seq(Values) /\ Len(r) = z - 1
  <2>1. z - 1 \in 0 .. Len(s)
    BY <1>0
  <2>2. QED
    BY <1>1, <1>2, <2>1, Lists
<1>4. PICK p : p = Minus(N, l, 1)
  OBVIOUS
<1>5. p = Plus(N, f, z - 1) /\ z - 1 \in 0 .. N - 1 /\ l \in 0 .. N - 1
  BY <1>2, <1>4 DEF Plus, Minus
<1>6. Ring!decrement(c, l) = p /\ c.first = f /\ c.last = l /\ c.size = z
  BY <1>2, <1>4, <1>5, Pointers DEF IsRec
<1>7. IsSlot(p, z - 1, c, N, f, t, f, l, z) /\ t[z - 1] = s[z] /\ s[z] \in Values /\ s[z] # Raw
  BY <1>0, <1>1, <1>2, <1>5, BufferConstants DEF IsSlot, Content
<1>8. Ring!destroy_item(c, p) = Rec(N, f, Put(t, z - 1, Raw), f, l, z)
  BY <1>7, Destroys
<1>9. Ring!pop_back(c) = Rec(N, f, Put(t, z - 1, Raw), f, p, z - 1)
  BY <1>6, <1>8, EndsAre DEF Ring!pop_back
<1>10. Put(t, z - 1, Raw) = Content(N, r)
  <2>1. ASSUME NEW j \in 0 .. N - 1
        PROVE  Put(t, z - 1, Raw)[j] = IF j < z - 1 THEN r[j + 1] ELSE Raw
    <3>1. t[j] = IF j < z THEN s[j + 1] ELSE Raw
      BY <1>0, <1>1 DEF Content
    <3>2. j < z - 1 => r[j + 1] = s[j + 1]
      BY <1>1 DEF Front
    <3>3. QED
      BY <1>2, <1>5, <3>1, <3>2 DEF Put
  <2>2. Put(t, z - 1, Raw) = [j \in 0 .. N - 1 |-> Put(t, z - 1, Raw)[j]]
    BY <1>2 DEF Put
  <2>3. QED
    BY <1>3, <2>1, <2>2 DEF Content
<1>11. QED
  BY <1>0, <1>1, <1>2, <1>3, <1>5, <1>9, <1>10 DEF At, Fits

LEMMA PopFrontIs ==
    ASSUME NEW N, NEW f, NEW s, Fits(N, f, s), Len(s) # 0
    PROVE  /\ Ring!pop_front(At(N, f, s)) = At(N, Plus(N, f, 1), Back(s, Len(s) - 1))
           /\ Fits(N, Plus(N, f, 1), Back(s, Len(s) - 1))
<1>0. PICK z \in Nat \ {0} : z = Len(s)
  BY DEF Fits
<1>1. PICK c, l, t, r, g, u, h :
        /\ c = At(N, f, s) /\ l = c.last /\ t = Content(N, s) /\ r = Back(s, z - 1)
        /\ g = Plus(N, f, 1) /\ u = Put(t, 0, Raw) /\ h = Plus(N, 0, 1)
  OBVIOUS
<1>2. /\ N \in Nat \ {0} /\ z <= N /\ f \in 0 .. N - 1 /\ s \in Seq(Values) /\ l = Plus(N, f, z)
      /\ t \in [0 .. N - 1 -> Cells] /\ c = Rec(N, f, t, f, l, z)
  BY <1>0, <1>1, AtIs
<1>3. r \in Seq(Values) /\ Len(r) = z - 1
  <2>1. z - 1 \in 0 .. Len(s)
    BY <1>0
  <2>2. QED
    BY <1>1, <1>2, <2>1, Lists
<1>4. /\ f = Plus(N, f, 0) /\ h \in 0 .. N - 1 /\ g = Plus(N, f, h) /\ g \in 0 .. N - 1
      /\ l = Plus(N, g, z - 1) /\ \A q \in 0 .. N - 1 : Plus(N, h, q) = IF q = N - 1 THEN 0 ELSE q + 1
  BY <1>1, <1>2 DEF Plus
<1>5. Ring!increment(c, f) = g /\ c.first = f /\ c.last = l /\ c.size = z
  BY <1>1, <1>2, Pointers DEF IsRec
<1>6. IsSlot(f, 0, c, N, f, t, f, l, z) /\ t[0] = s[1] /\ s[1] \in Values /\ s[1] # Raw
  BY <1>0, <1>1, <1>2, <1>4, BufferConstants DEF IsSlot, Content
<1>7. Ring!destroy_item(c, f) = Rec(N, f, u, f, l, z)
  <2>1. PICK k : k = 0
    OBVIOUS
  <2>2. IsSlot(f, k, c, N, f, t, f, l, z) /\ t[k] # Raw /\ u = Put(t, k, Raw)
    BY <1>1, <1>6, <2>1
  <2>3. QED
    BY <2>2, Destroys
<1>8. Ring!pop_front(c) = Rec(N, f, u, g, l, z - 1)
  BY <1>5, <1>7, EndsAre DEF Ring!pop_front
<1>9. \A q \in 0 .. N - 1 : u[Plus(N, h, q)] = IF q < Len(r) THEN r[q + 1] ELSE Raw
  <2>1. ASSUME NEW q \in 0 .. N - 1
        PROVE  u[Plus(N, h, q)] = IF q < Len(r) THEN r[q + 1] ELSE Raw
    <3>1. CASE q = N - 1
      BY <1>1, <1>2, <1>3, <1>4, <3>1 DEF Put
    <3>2. CASE q # N - 1
      <4>1. Plus(N, h, q) = q + 1 /\ q + 1 \in 0 .. N - 1 /\ q + 1 # 0
        BY <1>2, <1>4, <3>2
      <4>2. u[q + 1] = IF q + 1 < z THEN s[q + 1 + 1] ELSE Raw
        BY <1>0, <1>1, <1>2, <4>1 DEF Content, Put
      <4>3. q < z - 1 => r[q + 1] = s[q + 1 + 1]
        BY <1>0, <1>1 DEF Back
      <4>4. QED
        BY <1>0, <1>2, <1>3, <4>1, <4>2, <4>3
    <3>3. QED
      BY <3>1, <3>2
  <2>2. QED
    BY <2>1
<1>10. u \in [0 .. N - 1 -> Cells]
  BY <1>1, <1>2 DEF Cells, Put
<1>11. Rec(N, f, u, g, Plus(N, g, Len(r)), Len(r)) = At(N, g, r) /\ Fits(N, g, r)
  <2>1. Turns(N, f, u, h, g, r)
    BY <1>2, <1>3, <1>4, <1>9, <1>10 DEF Turns
  <2>2. QED
    BY <2>1, Turned
<1>12. QED
  BY <1>0, <1>1, <1>3, <1>4, <1>8, <1>11

LEMMA PopBacksIs ==
    ASSUME NEW N, NEW f, NEW s, Fits(N, f, s), NEW n \in 0 .. Len(s)
    PROVE  /\ Ring!pop_backs(At(N, f, s), n) = At(N, f, Front(s, Len(s) - n))
           /\ Fits(N, f, Front(s, Len(s) - n))
<1> DEFINE start == At(N, f, s)
           Body(d, i) == Ring!pop_back(d)
           Closed(i) == At(N, f, Front(s, Len(s) - i))
           F(h) == [i \in 0 .. n |-> IF i = 0 THEN start ELSE Body(h[i - 1], i)]
           loop == CHOOSE h : h = F(h)
<1>n. n \in Nat /\ Len(s) \in Nat /\ s \in Seq(Values) /\ Len(s) <= N
  BY DEF Fits
<1>1. ASSUME NEW i \in 0 .. n
      PROVE  /\ Fits(N, f, Front(s, Len(s) - i)) /\ Len(Front(s, Len(s) - i)) = Len(s) - i
  <2>1. Len(s) - i \in 0 .. Len(s)
    BY <1>n
  <2>2. Front(s, Len(s) - i) \in Seq(Values) /\ Len(Front(s, Len(s) - i)) = Len(s) - i
    BY <1>n, <2>1, Lists
  <2>3. QED
    BY <1>n, <2>1, <2>2 DEF Fits
<1>2. start = Closed(0)
  <2>1. Front(s, Len(s) - 0) = s
    BY <1>n DEF Front
  <2>2. QED
    BY <2>1
<1>3. ASSUME NEW i \in 1 .. n PROVE Closed(i) = Body(Closed(i - 1), i)
  <2>1. PICK j \in 0 .. n : j = i - 1
    BY <1>n
  <2>2. PICK r : r = Front(s, Len(s) - j)
    OBVIOUS
  <2>3. Fits(N, f, r) /\ Len(r) = Len(s) - j
    BY <1>1, <2>2
  <2>4. Len(r) # 0 /\ Len(r) - 1 = Len(s) - i
    BY <1>n, <2>1, <2>3
  <2>5. Ring!pop_back(At(N, f, r)) = At(N, f, Front(r, Len(r) - 1))
    BY <2>3, <2>4, PopBackIs
  <2>6. Front(r, Len(r) - 1) = Front(s, Len(s) - i)
    <3>1. \A q \in 1 .. Len(s) - i : r[q] = s[q]
      BY <1>n, <2>1, <2>2 DEF Front
    <3>2. QED
      BY <2>4, <3>1 DEF Front
  <2>7. QED
    BY <2>1, <2>2, <2>5, <2>6
<1>4. loop[n] = Closed(n)
  <2> DEFINE g == [i \in 0 .. n |-> Closed(i)]
  <2> HIDE DEF Body, Closed
  <2>1. \A i \in 0 .. n : g[i] = IF i = 0 THEN start ELSE Body(g[i - 1], i)
    <3>1. ASSUME NEW i \in 0 .. n PROVE g[i] = IF i = 0 THEN start ELSE Body(g[i - 1], i)
      <4>1. CASE i = 0
        BY <1>2, <4>1
      <4>2. CASE i # 0
        <5>1. i \in 1 .. n /\ i - 1 \in 0 .. n
          BY <4>2
        <5>2. g[i - 1] = Closed(i - 1) /\ g[i] = Closed(i)
          BY <5>1
        <5>3. QED
          BY <1>3, <4>2, <5>1, <5>2
      <4>3. QED
        BY <4>1, <4>2
    <3>2. QED
      BY <3>1
  <2>2. g = F(g)
    <3>1. g = [i \in 0 .. n |-> g[i]]
      OBVIOUS
    <3> HIDE DEF g
    <3>2. QED
      BY <2>1, <3>1
  <2>3. loop = F(loop)
    <3> HIDE DEF F, g
    <3>1. QED
      BY <2>2
  <2> HIDE DEF loop
  <2>4. \A i \in 0 .. n : loop[i] = IF i = 0 THEN start ELSE Body(loop[i - 1], i)
    BY <2>3
  <2>5. GoAlike(loop, g, n)
    <3>1. 0 \in 0 .. n /\ \A i \in 1 .. n : i # 0 /\ i \in 0 .. n
      BY <1>n
    <3> HIDE DEF g, F
    <3>2. QED
      BY <2>1, <2>4, <3>1 DEF GoAlike
  <2>6. loop[n] = g[n] /\ g[n] = Closed(n)
    <3>1. n \in 0 .. n
      BY <1>n
    <3>2. QED
      BY <1>n, <2>5, <3>1, SameLoop
  <2>7. QED
    BY <2>6
<1>5. Ring!pop_backs(At(N, f, s), n) = loop[n]
  BY DEF Ring!pop_backs, Ring!Repeat
<1>6. n \in 0 .. n
  BY <1>n
<1> HIDE DEF loop
<1>7. QED
  BY <1>1, <1>4, <1>5, <1>6

LEMMA PopFrontsIs ==
    ASSUME NEW N, NEW f, NEW s, Fits(N, f, s), NEW n \in 0 .. Len(s)
    PROVE  /\ Ring!pop_fronts(At(N, f, s), n) = At(N, Plus(N, f, n), Back(s, Len(s) - n))
           /\ Fits(N, Plus(N, f, n), Back(s, Len(s) - n))
<1> DEFINE start == At(N, f, s)
           Body(d, i) == Ring!pop_front(d)
           Closed(i) == At(N, Plus(N, f, i), Back(s, Len(s) - i))
           F(h) == [i \in 0 .. n |-> IF i = 0 THEN start ELSE Body(h[i - 1], i)]
           loop == CHOOSE h : h = F(h)
<1>n. n \in Nat /\ Len(s) \in Nat /\ s \in Seq(Values) /\ Len(s) <= N /\ N \in Nat
  BY DEF Fits
<1>1. ASSUME NEW i \in 0 .. n
      PROVE  /\ Fits(N, Plus(N, f, i), Back(s, Len(s) - i)) /\ Len(Back(s, Len(s) - i)) = Len(s) - i
  <2>1. Len(s) - i \in 0 .. Len(s)
    BY <1>n
  <2>2. Back(s, Len(s) - i) \in Seq(Values) /\ Len(Back(s, Len(s) - i)) = Len(s) - i
    BY <1>n, <2>1, Lists
  <2>3. Plus(N, f, i) \in 0 .. N - 1 \/ (N = 0 /\ Plus(N, f, i) = 0)
    BY <1>n DEF Fits, Plus
  <2>4. QED
    BY <1>n, <2>1, <2>2, <2>3 DEF Fits
<1>2. start = Closed(0)
  <2>1. Back(s, Len(s) - 0) = s
    BY <1>n DEF Back
  <2>2. Plus(N, f, 0) = f
    BY <1>n DEF Plus, Fits
  <2>3. QED
    BY <2>1, <2>2
<1>3. ASSUME NEW i \in 1 .. n PROVE Closed(i) = Body(Closed(i - 1), i)
  <2>1. PICK j \in 0 .. n : j = i - 1
    BY <1>n
  <2>2. PICK r, g : r = Back(s, Len(s) - j) /\ g = Plus(N, f, j)
    OBVIOUS
  <2>3. Fits(N, g, r) /\ Len(r) = Len(s) - j
    BY <1>1, <2>2
  <2>4. Len(r) # 0 /\ Len(r) - 1 = Len(s) - i
    BY <1>n, <2>1, <2>3
  <2>5. Ring!pop_front(At(N, g, r)) = At(N, Plus(N, g, 1), Back(r, Len(r) - 1))
    BY <2>3, <2>4, PopFrontIs
  <2>6. Back(r, Len(r) - 1) = Back(s, Len(s) - i)
    <3>1. ASSUME NEW q \in 1 .. Len(s) - i
          PROVE  r[Len(r) - (Len(r) - 1) + q] = s[Len(s) - (Len(s) - i) + q]
      <4>1. Len(r) - (Len(r) - 1) + q = q + 1 /\ q + 1 \in 1 .. Len(s) - j
        BY <1>n, <2>1, <2>3
      <4>2. r[q + 1] = s[Len(s) - (Len(s) - j) + (q + 1)]
        BY <2>2, <4>1 DEF Back
      <4>3. Len(s) - (Len(s) - j) + (q + 1) = Len(s) - (Len(s) - i) + q
        BY <1>n, <2>1
      <4>4. QED
        BY <4>1, <4>2, <4>3
    <3>2. QED
      BY <2>4, <3>1 DEF Back
  <2>7. Plus(N, g, 1) = Plus(N, f, i)
    BY <1>n, <2>1, <2>2 DEF Fits, Plus
  <2>8. QED
    BY <2>1, <2>2, <2>5, <2>6, <2>7
<1>4. loop[n] = Closed(n)
  <2> DEFINE g == [i \in 0 .. n |-> Closed(i)]
  <2> HIDE DEF Body, Closed
  <2>1. \A i \in 0 .. n : g[i] = IF i = 0 THEN start ELSE Body(g[i - 1], i)
    <3>1. ASSUME NEW i \in 0 .. n PROVE g[i] = IF i = 0 THEN start ELSE Body(g[i - 1], i)
      <4>1. CASE i = 0
        BY <1>2, <4>1
      <4>2. CASE i # 0
        <5>1. i \in 1 .. n /\ i - 1 \in 0 .. n
          BY <4>2
        <5>2. g[i - 1] = Closed(i - 1) /\ g[i] = Closed(i)
          BY <5>1
        <5>3. QED
          BY <1>3, <4>2, <5>1, <5>2
      <4>3. QED
        BY <4>1, <4>2
    <3>2. QED
      BY <3>1
  <2>2. g = F(g)
    <3>1. g = [i \in 0 .. n |-> g[i]]
      OBVIOUS
    <3> HIDE DEF g
    <3>2. QED
      BY <2>1, <3>1
  <2>3. loop = F(loop)
    <3> HIDE DEF F, g
    <3>1. QED
      BY <2>2
  <2> HIDE DEF loop
  <2>4. \A i \in 0 .. n : loop[i] = IF i = 0 THEN start ELSE Body(loop[i - 1], i)
    BY <2>3
  <2>5. GoAlike(loop, g, n)
    <3>1. 0 \in 0 .. n /\ \A i \in 1 .. n : i # 0 /\ i \in 0 .. n
      BY <1>n
    <3> HIDE DEF g, F
    <3>2. QED
      BY <2>1, <2>4, <3>1 DEF GoAlike
  <2>6. loop[n] = g[n] /\ g[n] = Closed(n)
    <3>1. n \in 0 .. n
      BY <1>n
    <3>2. QED
      BY <1>n, <2>5, <3>1, SameLoop
  <2>7. QED
    BY <2>6
<1>5. Ring!pop_fronts(At(N, f, s), n) = loop[n]
  BY DEF Ring!pop_fronts, Ring!Repeat
<1>6. n \in 0 .. n
  BY <1>n
<1> HIDE DEF loop
<1>7. QED
  BY <1>1, <1>4, <1>5, <1>6

LEMMA BufferClearIs ==
    ASSUME NEW N, NEW f, NEW s, Fits(N, f, s)
    PROVE  /\ Ring!clear(At(N, f, s)) = At(N, Plus(N, f, Len(s)), << >>)
           /\ Fits(N, Plus(N, f, Len(s)), << >>)
<1>1. At(N, f, s).size = Len(s) /\ Len(s) \in 0 .. Len(s)
  BY AtIs DEF Fits
<1>2. Back(s, Len(s) - Len(s)) = << >>
  BY <1>1 DEF Back
<1>3. QED
  BY <1>1, <1>2, PopFrontsIs DEF Ring!clear

----------------------------------------------------------------------------
(* Positions counted from the first one *)

\* A position that has gone around at most once.
Wr(N, j) == IF j < N THEN j ELSE j - N

LEMMA Rounds ==
    ASSUME NEW N \in Nat, NEW f \in 0 .. N - 1
    PROVE  /\ \A a, b \in 0 .. N : a + b < 2 * N =>
                Plus(N, Plus(N, f, a), b) = Plus(N, f, Wr(N, a + b)) /\ Wr(N, a + b) \in 0 .. N - 1
           /\ \A a, b \in 0 .. N : b <= a =>
                Minus(N, Plus(N, f, a), b) = Plus(N, f, Wr(N, a - b)) /\ Wr(N, a - b) \in 0 .. N - 1
           /\ \A a, b \in 0 .. N : a < b =>
                Minus(N, Plus(N, f, a), b) = Plus(N, f, N + a - b) /\ N + a - b \in 0 .. N - 1
<1>1. ASSUME NEW a \in 0 .. N, NEW b \in 0 .. N, a + b < 2 * N
      PROVE  Plus(N, Plus(N, f, a), b) = Plus(N, f, Wr(N, a + b)) /\ Wr(N, a + b) \in 0 .. N - 1
  BY <1>1 DEF Plus, Wr
<1>2. ASSUME NEW a \in 0 .. N, NEW b \in 0 .. N, b <= a
      PROVE  Minus(N, Plus(N, f, a), b) = Plus(N, f, Wr(N, a - b)) /\ Wr(N, a - b) \in 0 .. N - 1
  BY <1>2 DEF Plus, Minus, Wr
<1>3. ASSUME NEW a \in 0 .. N, NEW b \in 0 .. N, a < b
      PROVE  Minus(N, Plus(N, f, a), b) = Plus(N, f, N + a - b) /\ N + a - b \in 0 .. N - 1
  BY <1>3 DEF Plus, Minus
<1>4. QED
  BY <1>1, <1>2, <1>3

\* What is in a position.
LEMMA ContentIs ==
    ASSUME NEW N \in Nat, NEW s \in Seq(Values), Len(s) <= N, NEW j \in 0 .. N - 1
    PROVE  /\ j < Len(s) => Content(N, s)[j] = s[j + 1] /\ s[j + 1] \in Values /\ s[j + 1] # Raw
           /\ ~(j < Len(s)) => Content(N, s)[j] = Raw
           /\ Content(N, s) \in [0 .. N - 1 -> Cells]
<1>1. j < Len(s) => s[j + 1] \in Values
  OBVIOUS
<1>2. \A i \in 0 .. N - 1 : i < Len(s) => s[i + 1] \in Values
  OBVIOUS
<1>3. QED
  BY <1>1, <1>2, BufferConstants DEF Content, Cells

\* Becomes: the buffer has the items s, from some slot on.
Becomes(c, N, s) == \E g : c = At(N, g, s) /\ Fits(N, g, s)

----------------------------------------------------------------------------
(* Items put in *)

\* The sequence r written from the first position on, round the slots and over itself.
Wound(N, r) ==
    [j \in 0 .. N - 1 |-> IF j + N < Len(r) THEN r[j + N + 1]
                          ELSE IF j < Len(r) THEN r[j + 1] ELSE Raw]

LEMMA WoundIs ==
    ASSUME NEW N \in Nat \ {0}, NEW f \in 0 .. N - 1, NEW r \in Seq(Values), NEW z \in 0 .. N,
           NEW n \in 0 .. N, Len(r) = z + n, NEW c, NEW l, NEW y, NEW a,
           c = Rec(N, f, Wound(N, r), a, l, y),
           NEW last, last = Plus(N, Plus(N, f, z), n)
    PROVE  /\ z + n > N => Becomes(Ring!Ends(c, Plus(N, f, z + n - N), last, N), N, Back(r, N))
           /\ ~(z + n > N) => Becomes(Ring!Ends(c, f, last, z + n), N, r)
<1>1. PICK t, v : t = Wound(N, r) /\ v = z + n
  OBVIOUS
<1>2. v \in Nat /\ v <= N + N /\ Len(r) = v /\ \A i \in 1 .. v : r[i] \in Values
  BY <1>1
<1>3. \A j \in 0 .. N - 1 : t[j] = IF j + N < v THEN r[j + N + 1] ELSE IF j < v THEN r[j + 1] ELSE Raw
  BY <1>1, <1>2 DEF Wound
<1>4. t \in [0 .. N - 1 -> Cells]
  <2>1. ASSUME NEW j \in 0 .. N - 1 PROVE t[j] \in Cells
    <3>1. /\ j + N < v => j + N + 1 \in 1 .. v
          /\ j < v => j + 1 \in 1 .. v
      BY <1>2
    <3>2. QED
      BY <1>2, <1>3, <3>1 DEF Cells
  <2>2. t = [j \in 0 .. N - 1 |-> t[j]]
    BY <1>1 DEF Wound
  <2>3. QED
    BY <2>1, <2>2
<1>5. \A g, m, e : Ring!Ends(c, g, m, e) = Rec(N, f, t, g, m, e)
  BY <1>1, EndsAre
<1>6. ASSUME v > N
      PROVE  Becomes(Ring!Ends(c, Plus(N, f, v - N), last, N), N, Back(r, N))
  <2>1. PICK h, u : h = Wr(N, v - N) /\ u = Back(r, N)
    OBVIOUS
  <2>2. PICK g : g = Plus(N, f, v - N)
    OBVIOUS
  <2>3. /\ h \in 0 .. N - 1 /\ g = Plus(N, f, h)
        /\ \A q \in 0 .. N - 1 : Plus(N, h, q) = IF v - N + q < N THEN v - N + q ELSE v - N + q - N
    BY <1>2, <1>6, <2>1, <2>2 DEF Plus, Wr
  <2>4. last = g /\ g = Plus(N, g, N)
    BY <1>1, <1>2, <1>6, <2>2 DEF Plus
  <2>5. u \in Seq(Values) /\ Len(u) = N
    <3>1. N \in 0 .. Len(r)
      BY <1>2, <1>6
    <3>2. QED
      BY <2>1, <3>1, Lists
  <2>6. ASSUME NEW q \in 0 .. N - 1 PROVE t[Plus(N, h, q)] = u[q + 1]
    <3>1. u[q + 1] = r[v - N + (q + 1)]
      BY <1>2, <2>1 DEF Back
    <3>2. PICK j : j = Plus(N, h, q)
      OBVIOUS
    <3>a. j = IF v - N + q < N THEN v - N + q ELSE v - N + q - N
      BY <2>3, <3>2
    <3>3. /\ j \in 0 .. N - 1
          /\ j + N < v => j + N + 1 = v - N + (q + 1)
          /\ ~(j + N < v) => j < v /\ j + 1 = v - N + (q + 1)
      BY <1>2, <1>6, <3>a
    <3>4. QED
      BY <1>3, <3>1, <3>2, <3>3
  <2>7. Turns(N, f, t, h, g, u)
    <3>1. \A q \in 0 .. N - 1 : t[Plus(N, h, q)] = IF q < Len(u) THEN u[q + 1] ELSE Raw
      BY <2>5, <2>6
    <3>2. QED
      BY <1>4, <2>3, <2>5, <3>1 DEF Turns
  <2>8. Rec(N, f, t, g, Plus(N, g, Len(u)), Len(u)) = At(N, g, u) /\ Fits(N, g, u)
    BY <2>7, Turned
  <2>9. QED
    BY <1>5, <2>1, <2>2, <2>4, <2>5, <2>8 DEF Becomes
<1>7. ASSUME ~(v > N)
      PROVE  Becomes(Ring!Ends(c, f, last, v), N, r)
  <2>1. /\ last = Plus(N, f, v) /\ 0 \in 0 .. N - 1 /\ f = Plus(N, f, 0)
        /\ \A q \in 0 .. N - 1 : Plus(N, 0, q) = q /\ ~(q + N < v)
    BY <1>1, <1>2, <1>7 DEF Plus
  <2>2. \A q \in 0 .. N - 1 : t[Plus(N, 0, q)] = IF q < Len(r) THEN r[q + 1] ELSE Raw
    BY <1>2, <1>3, <2>1
  <2>3. Turns(N, f, t, 0, f, r)
    BY <1>2, <1>4, <1>7, <2>1, <2>2 DEF Turns
  <2>4. Rec(N, f, t, f, Plus(N, f, Len(r)), Len(r)) = At(N, f, r) /\ Fits(N, f, r)
    BY <2>3, Turned
  <2>5. QED
    BY <1>2, <1>5, <2>1, <2>4 DEF Becomes
<1>8. QED
  BY <1>1, <1>6, <1>7

\* The sequence r written backwards from the last item of z, round the slots and over
\* itself, so that it begins n before the first position.
Unwound(N, r, n) ==
    [j \in 0 .. N - 1 |-> IF j >= N - n THEN r[j - N + n + 1]
                          ELSE IF j + n < Len(r) THEN r[j + n + 1] ELSE Raw]

LEMMA UnwoundIs ==
    ASSUME NEW N \in Nat \ {0}, NEW f \in 0 .. N - 1, NEW r \in Seq(Values), NEW z \in 0 .. N,
           NEW n \in 0 .. N, Len(r) = z + n, NEW c, NEW l, NEW y, NEW a,
           c = Rec(N, f, Unwound(N, r, n), a, l, y)
    PROVE  /\ z + n > N => Becomes(Ring!Ends(c, Minus(N, f, n), Minus(N, Plus(N, f, z), z + n - N), N), N, Front(r, N))
           /\ ~(z + n > N) => Becomes(Ring!Ends(c, Minus(N, f, n), Plus(N, f, z), z + n), N, r)
<1>1. PICK t, v, g, h : /\ t = Unwound(N, r, n) /\ v = z + n
                        /\ g = Minus(N, f, n) /\ h = Wr(N, N - n)
  OBVIOUS
<1>2. v \in Nat /\ v <= N + N /\ n <= v /\ Len(r) = v /\ \A i \in 1 .. v : r[i] \in Values
  BY <1>1
<1>3. \A j \in 0 .. N - 1 : t[j] = IF j >= N - n THEN r[j - N + n + 1]
                                   ELSE IF j + n < v THEN r[j + n + 1] ELSE Raw
  BY <1>1, <1>2 DEF Unwound
<1>4. t \in [0 .. N - 1 -> Cells]
  <2>1. ASSUME NEW j \in 0 .. N - 1 PROVE t[j] \in Cells
    <3>1. /\ j >= N - n => j - N + n + 1 \in 1 .. v
          /\ j + n < v => j + n + 1 \in 1 .. v
      BY <1>2
    <3>2. QED
      BY <1>2, <1>3, <3>1 DEF Cells
  <2>2. t = [j \in 0 .. N - 1 |-> t[j]]
    BY <1>1 DEF Unwound
  <2>3. QED
    BY <2>1, <2>2
<1>5. \A p, m, e : Ring!Ends(c, p, m, e) = Rec(N, f, t, p, m, e)
  BY <1>1, EndsAre
<1>6. /\ h \in 0 .. N - 1 /\ g = Plus(N, f, h) /\ g \in 0 .. N - 1
      /\ \A q \in 0 .. N - 1 : Plus(N, h, q) = IF N - n + q < N THEN N - n + q ELSE q - n
  BY <1>1 DEF Plus, Minus, Wr
<1>7. ASSUME NEW q \in 0 .. N - 1 PROVE t[Plus(N, h, q)] = IF q < v THEN r[q + 1] ELSE Raw
  <2>1. PICK j : j = Plus(N, h, q)
    OBVIOUS
  <2>a. j = IF N - n + q < N THEN N - n + q ELSE q - n
    BY <1>6, <2>1
  <2>2. /\ j \in 0 .. N - 1
        /\ j >= N - n => j - N + n + 1 = q + 1 /\ q < v
        /\ ~(j >= N - n) => j + n + 1 = q + 1 /\ j + n = q
    BY <1>2, <2>a
  <2>3. QED
    BY <1>2, <1>3, <2>1, <2>2
<1>8. ASSUME v > N
      PROVE  Becomes(Ring!Ends(c, g, Minus(N, Plus(N, f, z), v - N), N), N, Front(r, N))
  <2>1. PICK u : u = Front(r, N)
    OBVIOUS
  <2>2. Minus(N, Plus(N, f, z), v - N) = g /\ g = Plus(N, g, N)
    <3>1. v - N \in 0 .. N /\ v - N <= z /\ z - (v - N) = N - n
      BY <1>1, <1>2, <1>8
    <3>2. Minus(N, Plus(N, f, z), v - N) = Plus(N, f, Wr(N, z - (v - N)))
      BY <3>1, Rounds
    <3>3. g = Plus(N, g, N)
      BY <1>6 DEF Plus
    <3>4. QED
      BY <1>1, <1>6, <3>1, <3>2, <3>3
  <2>3. u \in Seq(Values) /\ Len(u) = N
    <3>1. N \in 0 .. Len(r)
      BY <1>2, <1>8
    <3>2. QED
      BY <2>1, <3>1, Lists
  <2>4. ASSUME NEW q \in 0 .. N - 1 PROVE t[Plus(N, h, q)] = IF q < Len(u) THEN u[q + 1] ELSE Raw
    BY <1>2, <1>7, <1>8, <2>1, <2>3 DEF Front
  <2>5. Turns(N, f, t, h, g, u)
    BY <1>4, <1>6, <2>3, <2>4 DEF Turns
  <2>6. Rec(N, f, t, g, Plus(N, g, Len(u)), Len(u)) = At(N, g, u) /\ Fits(N, g, u)
    BY <2>5, Turned
  <2>7. QED
    BY <1>5, <2>1, <2>2, <2>3, <2>6 DEF Becomes
<1>9. ASSUME ~(v > N)
      PROVE  Becomes(Ring!Ends(c, g, Plus(N, f, z), v), N, r)
  <2>1. Plus(N, f, z) = Plus(N, g, v)
    BY <1>1, <1>2, <1>9 DEF Plus, Minus
  <2>2. Turns(N, f, t, h, g, r)
    BY <1>2, <1>4, <1>6, <1>7, <1>9 DEF Turns
  <2>3. Rec(N, f, t, g, Plus(N, g, Len(r)), Len(r)) = At(N, g, r) /\ Fits(N, g, r)
    BY <2>2, Turned
  <2>4. QED
    BY <1>2, <1>5, <2>1, <2>3 DEF Becomes
<1>10. QED
  BY <1>1, <1>8, <1>9

----------------------------------------------------------------------------
(* Loops that write to positions *)

\* Step i of n writes V[i] to the position J[i].
Plan(N, f, t, n, J, V) ==
    /\ N \in Nat /\ (N # 0 => f \in 0 .. N - 1) /\ t \in [0 .. N - 1 -> Cells] /\ n \in Nat
    /\ \A i \in 1 .. n : J[i] \in 0 .. N - 1 /\ V[i] \in Values
    /\ \A i, p \in 1 .. n : J[i] = J[p] => i = p

\* The slots after i steps.
Written(N, t, J, V, i) ==
    [j \in 0 .. N - 1 |->
        IF \E p \in 1 .. i : J[p] = j THEN V[CHOOSE p \in 1 .. i : J[p] = j] ELSE t[j]]

LEMMA WrittenIs ==
    ASSUME NEW N, NEW f, NEW t, NEW n, NEW J, NEW V, Plan(N, f, t, n, J, V), NEW i \in 0 .. n
    PROVE  /\ Written(N, t, J, V, i) \in [0 .. N - 1 -> Cells]
           /\ \A p \in 1 .. i : Written(N, t, J, V, i)[J[p]] = V[p]
           /\ \A j \in 0 .. N - 1 :
                (\A p \in 1 .. i : J[p] # j) => Written(N, t, J, V, i)[j] = t[j]
<1>1. /\ N \in Nat /\ t \in [0 .. N - 1 -> Cells] /\ n \in Nat
      /\ \A p \in 1 .. i : p \in 1 .. n
  BY DEF Plan
<1>2. ASSUME NEW j \in 0 .. N - 1, \A p \in 1 .. i : J[p] # j
      PROVE  Written(N, t, J, V, i)[j] = t[j]
  BY <1>2 DEF Written
<1>3. ASSUME NEW p \in 1 .. i PROVE Written(N, t, J, V, i)[J[p]] = V[p]
  <2>1. J[p] \in 0 .. N - 1 /\ p \in 1 .. n
    BY <1>1 DEF Plan
  <2>2. PICK j : j = J[p]
    OBVIOUS
  <2>3. PICK q : q = CHOOSE o \in 1 .. i : J[o] = j
    OBVIOUS
  <2>4. q \in 1 .. i /\ J[q] = j
    BY <2>2, <2>3
  <2>5. q = p
    BY <1>1, <2>1, <2>2, <2>4 DEF Plan
  <2>6. QED
    BY <2>1, <2>2, <2>3, <2>5 DEF Written
<1>4. Written(N, t, J, V, i) \in [0 .. N - 1 -> Cells]
  <2>1. ASSUME NEW j \in 0 .. N - 1 PROVE Written(N, t, J, V, i)[j] \in Cells
    <3>1. CASE \E p \in 1 .. i : J[p] = j
      <4>1. PICK p \in 1 .. i : J[p] = j
        BY <3>1
      <4>2. V[p] \in Values
        BY <1>1 DEF Plan
      <4>3. QED
        BY <1>3, <4>1, <4>2 DEF Cells
    <3>2. CASE \A p \in 1 .. i : J[p] # j
      BY <1>1, <1>2, <3>2
    <3>3. QED
      BY <3>1, <3>2
  <2>2. Written(N, t, J, V, i) = [j \in 0 .. N - 1 |-> Written(N, t, J, V, i)[j]]
    BY DEF Written
  <2>3. QED
    BY <2>1, <2>2
<1>5. QED
  BY <1>2, <1>3, <1>4

LEMMA WrittenNothing ==
    ASSUME NEW N, NEW f, NEW t, NEW n, NEW J, NEW V, Plan(N, f, t, n, J, V)
    PROVE  Written(N, t, J, V, 0) = t
<1>1. t \in [0 .. N - 1 -> Cells]
  BY DEF Plan
<1>2. \A j \in 0 .. N - 1 : Written(N, t, J, V, 0)[j] = t[j]
  BY DEF Written
<1>3. Written(N, t, J, V, 0) = [j \in 0 .. N - 1 |-> Written(N, t, J, V, 0)[j]]
  BY DEF Written
<1>4. QED
  BY <1>1, <1>2, <1>3

LEMMA WrittenNext ==
    ASSUME NEW N, NEW f, NEW t, NEW n, NEW J, NEW V, Plan(N, f, t, n, J, V), NEW i \in 1 .. n
    PROVE  /\ Put(Written(N, t, J, V, i - 1), J[i], V[i]) = Written(N, t, J, V, i)
           /\ Written(N, t, J, V, i - 1)[J[i]] = t[J[i]]
<1>1. PICK o \in 0 .. n : o = i - 1
  BY DEF Plan
<1>2. PICK u, w : u = Written(N, t, J, V, o) /\ w = Written(N, t, J, V, i)
  OBVIOUS
<1>w. /\ u \in [0 .. N - 1 -> Cells]
      /\ \A p \in 1 .. o : u[J[p]] = V[p]
      /\ \A j \in 0 .. N - 1 : (\A p \in 1 .. o : J[p] # j) => u[j] = t[j]
  BY <1>2, WrittenIs
<1>v. /\ w \in [0 .. N - 1 -> Cells]
      /\ \A p \in 1 .. i : w[J[p]] = V[p]
      /\ \A j \in 0 .. N - 1 : (\A p \in 1 .. i : J[p] # j) => w[j] = t[j]
  <2>1. i \in 0 .. n
    BY DEF Plan
  <2>2. QED
    BY <1>2, <2>1, WrittenIs
<1>3. i \in 0 .. n /\ J[i] \in 0 .. N - 1 /\ n \in Nat
  BY DEF Plan
<1>4. ASSUME NEW p \in 1 .. o PROVE J[p] # J[i] /\ p \in 1 .. i
  BY <1>1, <1>3 DEF Plan
<1>5. u[J[i]] = t[J[i]]
  BY <1>w, <1>3, <1>4
<1>6. ASSUME NEW j \in 0 .. N - 1 PROVE w[j] = IF j = J[i] THEN V[i] ELSE u[j]
  <2>1. CASE j = J[i]
    <3>1. i \in 1 .. i
      BY <1>3
    <3>2. QED
      BY <1>v, <2>1, <3>1
  <2>2. CASE j # J[i] /\ \E p \in 1 .. o : J[p] = j
    <3>1. PICK p \in 1 .. o : J[p] = j
      BY <2>2
    <3>2. p \in 1 .. i
      BY <1>4
    <3>3. u[j] = V[p]
      BY <1>w, <3>1
    <3>4. w[j] = V[p]
      BY <1>v, <3>1, <3>2
    <3>5. QED
      BY <2>2, <3>3, <3>4
  <2>3. CASE j # J[i] /\ \A p \in 1 .. o : J[p] # j
    <3>1. \A p \in 1 .. i : p = i \/ p \in 1 .. o
      BY <1>1, <1>3
    <3>2. \A p \in 1 .. i : J[p] # j
      BY <2>3, <3>1
    <3>3. u[j] = t[j]
      BY <1>w, <2>3
    <3>4. w[j] = t[j]
      BY <1>v, <3>2
    <3>5. QED
      BY <2>3, <3>3, <3>4
  <2>4. QED
    BY <2>1, <2>2, <2>3
<1>7. Put(u, J[i], V[i]) = w
  <2>1. PICK j, x : j = J[i] /\ x = V[i]
    OBVIOUS
  <2>2. ASSUME NEW q \in 0 .. N - 1 PROVE Put(u, j, x)[q] = w[q]
    BY <1>w, <1>3, <1>6, <2>1 DEF Put
  <2>3. Put(u, j, x) = [q \in 0 .. N - 1 |-> Put(u, j, x)[q]]
    BY <1>w DEF Put
  <2>4. w = [q \in 0 .. N - 1 |-> w[q]]
    BY <1>v
  <2>5. QED
    BY <2>1, <2>2, <2>3, <2>4
<1>8. QED
  BY <1>1, <1>2, <1>5, <1>7

\* Step i: it makes an object when its position is free at the beginning, and it
\* reads what was there at the beginning in a position without a step before.
LEMMA StepWrites ==
    ASSUME NEW N, NEW f, NEW t, NEW n, NEW J, NEW V, Plan(N, f, t, n, J, V), NEW i \in 1 .. n,
           NEW a, NEW l, NEW z, NEW d, d = Rec(N, f, Written(N, t, J, V, i - 1), a, l, z),
           NEW p, p = Plus(N, f, J[i])
    PROVE  /\ t[J[i]] = Raw => Ring!construct(d, p, V[i]) = Rec(N, f, Written(N, t, J, V, i), a, l, z)
           /\ t[J[i]] # Raw => Ring!replace(d, p, V[i]) = Rec(N, f, Written(N, t, J, V, i), a, l, z)
           /\ \A new : (new <=> t[J[i]] = Raw) =>
                Ring!construct_or_replace(d, new, p, V[i]) = Rec(N, f, Written(N, t, J, V, i), a, l, z)
<1>1. i - 1 \in 0 .. n /\ V[i] \in Values /\ J[i] \in 0 .. N - 1 /\ f \in 0 .. N - 1
  BY DEF Plan
<1>2. PICK u, j, x : u = Written(N, t, J, V, i - 1) /\ j = J[i] /\ x = V[i]
  OBVIOUS
<1>3. IsSlot(p, j, d, N, f, u, a, l, z) /\ x \in Values
  BY <1>1, <1>2, WrittenIs DEF IsSlot, Plan
<1>4. u[j] = t[j] /\ Put(u, j, x) = Written(N, t, J, V, i)
  BY <1>2, WrittenNext
<1>5. QED
  BY <1>2, <1>3, <1>4, Writes

LEMMA StepReads ==
    ASSUME NEW N, NEW f, NEW t, NEW n, NEW J, NEW V, Plan(N, f, t, n, J, V), NEW i \in 1 .. n,
           NEW l, NEW z, NEW d, d = Rec(N, f, Written(N, t, J, V, i - 1), f, l, z),
           NEW m \in 0 .. N - 1, \A q \in 1 .. i - 1 : J[q] # m, NEW p, p = Plus(N, f, m)
    PROVE  Ring!Get(d, p) = t[m]
<1>1. i - 1 \in 0 .. n /\ f \in 0 .. N - 1
  BY DEF Plan
<1>2. PICK u : u = Written(N, t, J, V, i - 1)
  OBVIOUS
<1>3. IsSlot(p, m, d, N, f, u, f, l, z) /\ u[m] = t[m]
  <2>1. PICK o \in 0 .. n : o = i - 1
    BY <1>1
  <2>2. /\ u \in [0 .. N - 1 -> Cells]
        /\ \A j \in 0 .. N - 1 : (\A q \in 1 .. o : J[q] # j) => u[j] = t[j]
    BY <1>2, <2>1, WrittenIs
  <2>3. QED
    BY <1>1, <1>2, <2>1, <2>2 DEF IsSlot, Plan
<1>4. Raw \in Cells
  BY DEF Cells
<1>5. QED
  BY <1>3, <1>4, SetIs

\* There is room for n items x at the position k of the z items s, when those behind it
\* are kept, or when those before it are.
RoomBehind(N, s, z, k, n, x) ==
    /\ N \in Nat \ {0} /\ s \in Seq(Values) /\ z \in 0 .. N /\ z = Len(s)
    /\ k \in 0 .. z /\ n \in 0 .. N - (z - k) /\ x \in Values
RoomBefore(N, s, z, k, n, x) ==
    /\ N \in Nat \ {0} /\ s \in Seq(Values) /\ z \in 0 .. N /\ z = Len(s)
    /\ k \in 0 .. z /\ n \in 0 .. N - k /\ x \in Values

\* Which positions are others than those that s was in, and what is in them: with n items
\* x before the position k, those from k on.
LEMMA WoundInserted ==
    ASSUME NEW N, NEW s, NEW z, NEW k, NEW n, NEW x, RoomBehind(N, s, z, k, n, x)
    PROVE  /\ \A v \in k .. z + n - 1 :
                /\ Wr(N, v) \in 0 .. N - 1
                /\ Wound(N, Inserted(s, k, n, x))[Wr(N, v)] = IF v < k + n THEN x ELSE s[v - n + 1]
           /\ \A v, w \in k .. z + n - 1 : Wr(N, v) = Wr(N, w) => v = w
           /\ \A j \in 0 .. N - 1 : (\A v \in k .. z + n - 1 : Wr(N, v) # j) =>
                Wound(N, Inserted(s, k, n, x))[j] = Content(N, s)[j]
<1>0. /\ N \in Nat \ {0} /\ s \in Seq(Values) /\ z \in 0 .. N /\ z = Len(s)
      /\ k \in 0 .. z /\ n \in 0 .. N - (z - k) /\ x \in Values
  BY DEF RoomBehind
<1>1. PICK r, t : r = Inserted(s, k, n, x) /\ t = Wound(N, r)
  OBVIOUS
<1>2. Len(r) = z + n /\ n \in Nat
  BY <1>0, <1>1, Lists
<1>3. \A i \in 1 .. z + n : r[i] = IF i <= k THEN s[i] ELSE IF i <= k + n THEN x ELSE s[i - n]
  BY <1>0, <1>1 DEF Inserted
<1>4. \A j \in 0 .. N - 1 :
        t[j] = IF j + N < z + n THEN r[j + N + 1] ELSE IF j < z + n THEN r[j + 1] ELSE Raw
  BY <1>0, <1>1, <1>2 DEF Wound
<1>5. ASSUME NEW v \in k .. z + n - 1
      PROVE  Wr(N, v) \in 0 .. N - 1 /\ t[Wr(N, v)] = IF v < k + n THEN x ELSE s[v - n + 1]
  <2>1. PICK j : j = Wr(N, v)
    OBVIOUS
  <2>2. /\ j \in 0 .. N - 1
        /\ v < N => j = v /\ ~(j + N < z + n) /\ j < z + n
        /\ ~(v < N) => j + N = v /\ j + N < z + n
        /\ v + 1 \in 1 .. z + n /\ ~(v + 1 <= k) /\ (v < k + n <=> v + 1 <= k + n)
        /\ v - n + 1 = v + 1 - n
    BY <1>0, <1>2, <2>1 DEF Wr
  <2>3. t[j] = r[v + 1]
    BY <1>4, <2>2
  <2>4. r[v + 1] = IF v < k + n THEN x ELSE s[v + 1 - n]
    <3>1. PICK i : i = v + 1
      OBVIOUS
    <3>2. i \in 1 .. z + n /\ ~(i <= k) /\ (v < k + n <=> i <= k + n)
      BY <2>2, <3>1
    <3>3. r[i] = IF i <= k + n THEN x ELSE s[i - n]
      BY <1>3, <3>2
    <3>4. (IF i <= k + n THEN x ELSE s[i - n]) = IF v < k + n THEN x ELSE s[i - n]
      BY <3>2
    <3>5. QED
      BY <1>0, <1>2, <2>2, <3>1, <3>3, <3>4
  <2>5. v - n + 1 = v + 1 - n /\ j \in 0 .. N - 1
    BY <2>2
  <2>6. QED
    BY <2>1, <2>3, <2>4, <2>5
<1>6. ASSUME NEW v \in k .. z + n - 1, NEW w \in k .. z + n - 1, Wr(N, v) = Wr(N, w)
      PROVE  v = w
  BY <1>0, <1>2, <1>6 DEF Wr
<1>7. ASSUME NEW j \in 0 .. N - 1, \A v \in k .. z + n - 1 : Wr(N, v) # j
      PROVE  t[j] = Content(N, s)[j]
  <2>1. ~(j + N < z + n)
    <3>1. SUFFICES ASSUME j + N < z + n PROVE FALSE
      OBVIOUS
    <3>2. j + N \in k .. z + n - 1 /\ Wr(N, j + N) = j
      BY <1>0, <1>2, <3>1 DEF Wr
    <3>3. QED
      BY <1>0, <1>7, <3>2
  <2>2. j < k \/ j >= z + n
    <3>1. SUFFICES ASSUME j \in k .. z + n - 1 PROVE FALSE
      BY <1>0, <1>2
    <3>2. Wr(N, j) = j
      BY <1>0 DEF Wr
    <3>3. QED
      BY <1>0, <1>7, <3>1, <3>2
  <2>3. Content(N, s)[j] = IF j < z THEN s[j + 1] ELSE Raw
    BY <1>0 DEF Content
  <2>4. CASE j < k
    <3>1. j < z /\ j < z + n /\ j + 1 \in 1 .. z + n /\ j + 1 <= k
      BY <1>0, <1>2, <2>4
    <3>2. QED
      BY <1>0, <1>3, <1>4, <2>1, <2>3, <3>1
  <2>5. CASE j >= z + n
    <3>1. ~(j < z) /\ ~(j < z + n)
      BY <1>0, <1>2, <2>5
    <3>2. QED
      BY <1>0, <1>4, <2>1, <2>3, <3>1
  <2>6. QED
    BY <1>0, <2>2, <2>4, <2>5
<1>8. QED
  BY <1>0, <1>1, <1>5, <1>6, <1>7

\* With n items x behind the position k, those before k.
LEMMA UnwoundInserted ==
    ASSUME NEW N, NEW s, NEW z, NEW k, NEW n, NEW x, RoomBefore(N, s, z, k, n, x)
    PROVE  /\ \A v \in 0 .. k + n - 1 :
                /\ Wr(N, N - n + v) \in 0 .. N - 1
                /\ Unwound(N, Inserted(s, k, n, x), n)[Wr(N, N - n + v)] = IF v < k THEN s[v + 1] ELSE x
           /\ \A v, w \in 0 .. k + n - 1 : Wr(N, N - n + v) = Wr(N, N - n + w) => v = w
           /\ \A j \in 0 .. N - 1 : (\A v \in 0 .. k + n - 1 : Wr(N, N - n + v) # j) =>
                Unwound(N, Inserted(s, k, n, x), n)[j] = Content(N, s)[j]
<1>0. /\ N \in Nat \ {0} /\ s \in Seq(Values) /\ z \in 0 .. N /\ z = Len(s)
      /\ k \in 0 .. z /\ n \in 0 .. N - k /\ x \in Values
  BY DEF RoomBefore
<1>1. PICK r, t : r = Inserted(s, k, n, x) /\ t = Unwound(N, r, n)
  OBVIOUS
<1>2. Len(r) = z + n /\ n \in Nat
  BY <1>0, <1>1, Lists
<1>3. \A i \in 1 .. z + n : r[i] = IF i <= k THEN s[i] ELSE IF i <= k + n THEN x ELSE s[i - n]
  BY <1>0, <1>1 DEF Inserted
<1>4. \A j \in 0 .. N - 1 :
        t[j] = IF j >= N - n THEN r[j - N + n + 1] ELSE IF j + n < z + n THEN r[j + n + 1] ELSE Raw
  BY <1>0, <1>1, <1>2 DEF Unwound
<1>5. ASSUME NEW v \in 0 .. k + n - 1
      PROVE  Wr(N, N - n + v) \in 0 .. N - 1 /\ t[Wr(N, N - n + v)] = IF v < k THEN s[v + 1] ELSE x
  <2>1. PICK j : j = Wr(N, N - n + v)
    OBVIOUS
  <2>2. /\ j \in 0 .. N - 1
        /\ v < n => j >= N - n /\ j - N + n + 1 = v + 1
        /\ ~(v < n) => ~(j >= N - n) /\ j + n + 1 = v + 1 /\ j + n < z + n
        /\ v + 1 \in 1 .. z + n /\ v + 1 <= k + n /\ (v < k <=> v + 1 <= k)
    BY <1>0, <1>2, <2>1 DEF Wr
  <2>3. t[j] = r[v + 1]
    BY <1>4, <2>2
  <2>4. QED
    BY <1>3, <2>1, <2>2, <2>3
<1>6. ASSUME NEW v \in 0 .. k + n - 1, NEW w \in 0 .. k + n - 1, Wr(N, N - n + v) = Wr(N, N - n + w)
      PROVE  v = w
  BY <1>0, <1>2, <1>6 DEF Wr
<1>7. ASSUME NEW j \in 0 .. N - 1, \A v \in 0 .. k + n - 1 : Wr(N, N - n + v) # j
      PROVE  t[j] = Content(N, s)[j]
  <2>1. ~(j >= N - n)
    <3>1. SUFFICES ASSUME j >= N - n PROVE FALSE
      OBVIOUS
    <3>2. j - N + n \in 0 .. k + n - 1 /\ N - n + (j - N + n) = j /\ Wr(N, j) = j
      BY <1>0, <1>2, <3>1 DEF Wr
    <3>3. QED
      BY <1>0, <1>7, <3>2
  <2>2. j >= k
    <3>1. SUFFICES ASSUME ~(j >= k) PROVE FALSE
      OBVIOUS
    <3>2. j + n \in 0 .. k + n - 1 /\ N - n + (j + n) = N + j /\ Wr(N, N + j) = j
      BY <1>0, <1>2, <3>1 DEF Wr
    <3>3. QED
      BY <1>0, <1>7, <3>2
  <2>3. Content(N, s)[j] = IF j < z THEN s[j + 1] ELSE Raw
    BY <1>0 DEF Content
  <2>4. /\ j < z <=> j + n < z + n
        /\ j < z => j + n + 1 \in 1 .. z + n
        /\ ~(j + n + 1 <= k) /\ ~(j + n + 1 <= k + n) /\ j + n + 1 - n = j + 1
    BY <1>0, <1>2, <2>2
  <2>5. QED
    BY <1>0, <1>3, <1>4, <2>1, <2>3, <2>4
<1>8. QED
  BY <1>0, <1>1, <1>5, <1>6, <1>7

----------------------------------------------------------------------------
(* insert() of one item *)

\* What is left to do when the item is in its slot.
LEMMA ItemIsIn ==
    ASSUME NEW N, NEW f, NEW s, Fits(N, f, s), N # 0, NEW k \in 0 .. Len(s), NEW x \in Values,
           NEW l, l = Plus(N, f, Len(s)), NEW z, z = Len(s), NEW put,
           put = Rec(N, f, Wound(N, Inserted(s, k, 1, x)), f, l, z),
           NEW c, \/ z = N /\ c = Ring!Ends(put, Plus(N, l, 1), Plus(N, l, 1), z)
                  \/ z # N /\ c = Ring!Ends(put, f, Plus(N, l, 1), z + 1)
    PROVE  /\ z = N => Becomes(c, N, Back(Inserted(s, k, 1, x), N))
           /\ z # N => Becomes(c, N, Inserted(s, k, 1, x))
<1>1. N \in Nat \ {0} /\ f \in 0 .. N - 1 /\ z \in 0 .. N /\ s \in Seq(Values) /\ 1 \in 0 .. N
  BY DEF Fits
<1>2. PICK r : r = Inserted(s, k, 1, x)
  OBVIOUS
<1>3. r \in Seq(Values) /\ Len(r) = z + 1
  BY <1>1, <1>2, Lists
<1>4. PICK last : last = Plus(N, l, 1)
  OBVIOUS
<1>5. PICK n : n = 1
  OBVIOUS
<1>6. /\ z + n > N => Becomes(Ring!Ends(put, Plus(N, f, z + n - N), last, N), N, Back(r, N))
      /\ ~(z + n > N) => Becomes(Ring!Ends(put, f, last, z + n), N, r)
  <2>1. Len(r) = z + n /\ n \in 0 .. N /\ last = Plus(N, Plus(N, f, z), n)
    BY <1>1, <1>3, <1>4, <1>5
  <2>2. put = Rec(N, f, Wound(N, r), f, l, z)
    BY <1>2
  <2>3. QED
    BY <1>1, <1>3, <2>1, <2>2, WoundIs
<1>7. z = N => z + n > N /\ Plus(N, f, z + n - N) = last
  BY <1>1, <1>4, <1>5 DEF Plus
<1>8. z # N => ~(z + n > N)
  BY <1>1, <1>5
<1>9. QED
  BY <1>2, <1>4, <1>5, <1>6, <1>7, <1>8

\* The item is put behind the others.
LEMMA AppendItemIs ==
    ASSUME NEW N, NEW f, NEW s, Fits(N, f, s), N # 0, NEW x \in Values
    PROVE  /\ Len(s) = N => Becomes(Ring!insert_item(At(N, f, s), Len(s), x), N,
                                    Back(Inserted(s, Len(s), 1, x), N))
           /\ Len(s) # N => Becomes(Ring!insert_item(At(N, f, s), Len(s), x), N,
                                    Inserted(s, Len(s), 1, x))
<1>1. PICK z \in Nat : z = Len(s)
  BY DEF Fits
<1>2. PICK c, l, t, w :
        c = At(N, f, s) /\ l = c.last /\ t = Content(N, s) /\ w = Wound(N, Inserted(s, z, 1, x))
  OBVIOUS
<1>3. /\ N \in Nat \ {0} /\ f \in 0 .. N - 1 /\ s \in Seq(Values) /\ z \in 0 .. N
      /\ l = Plus(N, f, z) /\ l \in 0 .. N - 1
      /\ c = Rec(N, f, t, f, l, z) /\ t \in [0 .. N - 1 -> Cells]
  BY <1>1, <1>2, AtIs DEF Fits
<1>4. /\ c.first = f /\ c.last = l /\ c.size = z /\ (Ring!full(c) <=> z = N)
      /\ Ring!increment(c, l) = Plus(N, l, 1)
  BY <1>3, Pointers DEF IsRec
<1>5. PICK j : j = Wr(N, z)
  OBVIOUS
<1>6. /\ j \in 0 .. N - 1 /\ l = Plus(N, f, j)
      /\ t[j] = Raw <=> z # N
  <2>1. j \in 0 .. N - 1 /\ l = Plus(N, f, j) /\ (j < z <=> z = N)
    BY <1>3, <1>5 DEF Wr, Plus
  <2>2. QED
    BY <1>1, <1>2, <1>3, <2>1, ContentIs
<1>7. PICK put : put = Ring!construct_or_replace(c, ~Ring!full(c), l, x)
  OBVIOUS
<1>8. put = Rec(N, f, Put(t, j, x), f, l, z)
  <2>1. IsSlot(l, j, c, N, f, t, f, l, z)
    BY <1>3, <1>6 DEF IsSlot
  <2>2. put = IF z = N THEN Ring!replace(c, l, x) ELSE Ring!construct(c, l, x)
    BY <1>4, <1>7 DEF Ring!construct_or_replace
  <2>3. QED
    BY <1>6, <2>1, <2>2, Writes
<1>9. Put(t, j, x) = w
  <2>1. PICK n, r : n = 1 /\ r = Inserted(s, z, n, x)
    OBVIOUS
  <2>2. /\ \A v \in z .. z + n - 1 :
             Wr(N, v) \in 0 .. N - 1 /\ w[Wr(N, v)] = IF v < z + n THEN x ELSE s[v - n + 1]
        /\ \A q \in 0 .. N - 1 : (\A v \in z .. z + n - 1 : Wr(N, v) # q) => w[q] = t[q]
    <3>1. n \in 0 .. N - (z - z) /\ z \in 0 .. z
      BY <1>3, <2>1
    <3>2. w = Wound(N, Inserted(s, z, n, x)) /\ t = Content(N, s)
      BY <1>2, <2>1
    <3>3. RoomBehind(N, s, z, z, n, x)
      BY <1>1, <1>3, <3>1 DEF RoomBehind
    <3>4. \A v \in z .. z + n - 1 :
             Wr(N, v) \in 0 .. N - 1 /\ w[Wr(N, v)] = IF v < z + n THEN x ELSE s[v - n + 1]
      BY <3>2, <3>3, WoundInserted
    <3>5. \A q \in 0 .. N - 1 : (\A v \in z .. z + n - 1 : Wr(N, v) # q) => w[q] = t[q]
      BY <3>2, <3>3, WoundInserted
    <3>6. QED
      BY <3>4, <3>5
  <2>3. z \in z .. z + n - 1 /\ z < z + n /\ \A v \in z .. z + n - 1 : v = z
    BY <1>3, <2>1
  <2>4. w[j] = x /\ \A q \in 0 .. N - 1 : q # j => w[q] = t[q]
    BY <1>5, <2>2, <2>3
  <2>5. \A q \in 0 .. N - 1 : Put(t, j, x)[q] = w[q]
    BY <1>3, <2>4 DEF Put
  <2>6. Put(t, j, x) = [q \in 0 .. N - 1 |-> Put(t, j, x)[q]]
    BY <1>3 DEF Put
  <2>7. w = [q \in 0 .. N - 1 |-> w[q]]
    BY <1>2 DEF Wound
  <2>8. QED
    BY <2>5, <2>6, <2>7
<1>10. PICK e : e = Ring!insert_item(c, z, x)
  OBVIOUS
<1>11. \/ z = N /\ e = Ring!Ends(put, Plus(N, l, 1), Plus(N, l, 1), z)
       \/ z # N /\ e = Ring!Ends(put, f, Plus(N, l, 1), z + 1)
  BY <1>4, <1>7, <1>10 DEF Ring!insert_item
<1>12. z \in 0 .. Len(s)
  BY <1>1
<1>13. put = Rec(N, f, Wound(N, Inserted(s, z, 1, x)), f, l, z)
  BY <1>2, <1>8, <1>9
<1>14. /\ z = N => Becomes(e, N, Back(Inserted(s, z, 1, x), N))
       /\ z # N => Becomes(e, N, Inserted(s, z, 1, x))
  BY <1>1, <1>3, <1>11, <1>12, <1>13, ItemIsIn
<1>15. QED
  BY <1>1, <1>2, <1>10, <1>14

\* The items from its position on make room for it.
LEMMA InsertItemIs ==
    ASSUME NEW N, NEW f, NEW s, Fits(N, f, s), N # 0, NEW k \in 0 .. Len(s) - 1, NEW x \in Values,
           ~(Len(s) = N /\ k = 0)
    PROVE  /\ Len(s) = N => Becomes(Ring!insert_item(At(N, f, s), k, x), N,
                                    Back(Inserted(s, k, 1, x), N))
           /\ Len(s) # N => Becomes(Ring!insert_item(At(N, f, s), k, x), N,
                                    Inserted(s, k, 1, x))
<1>1. PICK z \in Nat : z = Len(s)
  BY DEF Fits
<1>2. PICK c, l, t, w :
        c = At(N, f, s) /\ l = c.last /\ t = Content(N, s) /\ w = Wound(N, Inserted(s, k, 1, x))
  OBVIOUS
<1>3. /\ N \in Nat \ {0} /\ f \in 0 .. N - 1 /\ s \in Seq(Values) /\ z \in 0 .. N
      /\ l = Plus(N, f, z) /\ l \in 0 .. N - 1
      /\ c = Rec(N, f, t, f, l, z) /\ t \in [0 .. N - 1 -> Cells]
      /\ k \in 0 .. z - 1 /\ k \in Nat /\ ~(z = N /\ k = 0)
  BY <1>1, <1>2, AtIs DEF Fits
<1>4. /\ c.first = f /\ c.last = l /\ c.size = z /\ (Ring!full(c) <=> z = N)
      /\ \A p, i : Ring!add(c, p, i) = Plus(N, p, i) /\ Ring!sub(c, p, i) = Minus(N, p, i)
      /\ Ring!increment(c, l) = Plus(N, l, 1)
  BY <1>3, Pointers DEF IsRec
<1>5. \A j \in 0 .. N - 1 :
        /\ j < z => t[j] = s[j + 1] /\ s[j + 1] \in Values /\ s[j + 1] # Raw
        /\ ~(j < z) => t[j] = Raw
  BY <1>1, <1>2, <1>3, ContentIs
<1>6. /\ \A v \in k .. z : Wr(N, v) \in 0 .. N - 1 /\ w[Wr(N, v)] = IF v < k + 1 THEN x ELSE s[v]
      /\ \A v, u \in k .. z : Wr(N, v) = Wr(N, u) => v = u
      /\ \A q \in 0 .. N - 1 : (\A v \in k .. z : Wr(N, v) # q) => w[q] = t[q]
  <2>1. PICK n : n = 1
    OBVIOUS
  <2>2. n \in 0 .. N - (z - k) /\ k \in 0 .. z
    BY <1>3, <2>1
  <2>3. /\ \A v \in k .. z + n - 1 :
             Wr(N, v) \in 0 .. N - 1 /\ w[Wr(N, v)] = IF v < k + n THEN x ELSE s[v - n + 1]
        /\ \A v, u \in k .. z + n - 1 : Wr(N, v) = Wr(N, u) => v = u
        /\ \A q \in 0 .. N - 1 : (\A v \in k .. z + n - 1 : Wr(N, v) # q) => w[q] = t[q]
    <3>1. w = Wound(N, Inserted(s, k, n, x)) /\ t = Content(N, s)
      BY <1>2, <2>1
    <3>2. RoomBehind(N, s, z, k, n, x)
      BY <1>1, <1>3, <2>2 DEF RoomBehind
    <3>3. \A v \in k .. z + n - 1 :
             Wr(N, v) \in 0 .. N - 1 /\ w[Wr(N, v)] = IF v < k + n THEN x ELSE s[v - n + 1]
      BY <3>1, <3>2, WoundInserted
    <3>4. \A v, u \in k .. z + n - 1 : Wr(N, v) = Wr(N, u) => v = u
      BY <3>1, <3>2, WoundInserted
    <3>5. \A q \in 0 .. N - 1 : (\A v \in k .. z + n - 1 : Wr(N, v) # q) => w[q] = t[q]
      BY <3>1, <3>2, WoundInserted
    <3>6. QED
      BY <3>3, <3>4, <3>5
  <2>4. z + n - 1 = z /\ \A v \in k .. z : v - n + 1 = v
    BY <1>3, <2>1
  <2>5. QED
    BY <2>1, <2>3, <2>4
<1> DEFINE n == c.size - k
<1>n. n = z - k /\ n \in Nat
  BY <1>3, <1>4
<1>7. PICK J : J = [i \in 1 .. n |-> Wr(N, z - i + 1)]
  OBVIOUS
<1>8. PICK V : V = [i \in 1 .. n |-> s[z - i + 1]]
  OBVIOUS
<1>9. \A i \in 1 .. n : /\ z - i + 1 \in k + 1 .. z /\ z - i + 1 \in 1 .. z
                        /\ J[i] = Wr(N, z - i + 1) /\ V[i] = s[z - i + 1]
  <2> HIDE DEF n
  <2>1. \A i \in 1 .. n : z - i + 1 \in k + 1 .. z /\ z - i + 1 \in 1 .. z
    BY <1>3, <1>n
  <2>2. QED
    BY <1>7, <1>8, <2>1
<1>10. Plan(N, f, t, n, J, V)
  <2> HIDE DEF n
  <2>1. ASSUME NEW i \in 1 .. n PROVE J[i] \in 0 .. N - 1 /\ V[i] \in Values
    <3>1. z - i + 1 \in k .. z /\ s[z - i + 1] \in Values
      BY <1>1, <1>3, <1>9
    <3>2. QED
      BY <1>6, <1>9, <3>1
  <2>2. ASSUME NEW i \in 1 .. n, NEW p \in 1 .. n, J[i] = J[p] PROVE i = p
    <3>1. z - i + 1 \in k .. z /\ z - p + 1 \in k .. z
      BY <1>3, <1>9
    <3>2. z - i + 1 = z - p + 1
      BY <1>6, <1>9, <2>2, <3>1
    <3>3. QED
      BY <1>3, <1>n, <3>2
  <2>3. QED
    BY <1>3, <1>n, <2>1, <2>2 DEF Plan
<1> DEFINE start == c
           Body(d, i) == Ring!construct_or_replace(d, ~Ring!full(c) /\ i = 1, Ring!sub(c, c.last, i - 1),
                                                   Ring!Get(d, Ring!sub(c, c.last, i)))
           Closed(i) == Rec(N, f, Written(N, t, J, V, i), f, l, z)
           F(h) == [i \in 0 .. n |-> IF i = 0 THEN start ELSE Body(h[i - 1], i)]
           loop == CHOOSE h : h = F(h)
<1> HIDE DEF n
<1>11. start = Closed(0)
  BY <1>3, <1>10, WrittenNothing
<1>12. ASSUME NEW i \in 1 .. n PROVE Closed(i) = Body(Closed(i - 1), i)
  <2>1. PICK d, to, from, new : /\ d = Closed(i - 1) /\ to = Ring!sub(c, c.last, i - 1)
                                /\ from = Ring!sub(c, c.last, i)
                                /\ new <=> (~Ring!full(c) /\ i = 1)
    OBVIOUS
  <2>2. PICK m : m = z - i
    OBVIOUS
  <2>3. /\ m \in 0 .. N - 1 /\ m < z /\ z - i + 1 = m + 1 /\ z - (i - 1) = m + 1
        /\ i \in 0 .. N /\ i <= z /\ i - 1 \in 0 .. N /\ i - 1 <= z
    BY <1>3, <1>n, <2>2
  <2>4. J[i] = Wr(N, m + 1) /\ V[i] = s[m + 1]
    BY <1>9, <2>3
  <2>5. to = Plus(N, f, J[i]) /\ from = Plus(N, f, m)
    <3>1. to = Minus(N, Plus(N, f, z), i - 1) /\ from = Minus(N, Plus(N, f, z), i)
      BY <1>3, <1>4, <2>1
    <3>a. to = Plus(N, f, Wr(N, z - (i - 1)))
      BY <1>3, <2>3, <3>1, Rounds
    <3>b. from = Plus(N, f, Wr(N, z - i))
      BY <1>3, <2>3, <3>1, Rounds
    <3>2. to = Plus(N, f, Wr(N, z - (i - 1))) /\ from = Plus(N, f, Wr(N, z - i))
      BY <3>a, <3>b
    <3>3. Wr(N, m) = m
      BY <1>3, <2>3 DEF Wr
    <3>4. QED
      BY <2>2, <2>3, <2>4, <3>2, <3>3
  <2>6. new <=> t[J[i]] = Raw
    <3>1. J[i] \in 0 .. N - 1 /\ (~(J[i] < z) <=> (z # N /\ i = 1))
      BY <1>3, <2>2, <2>3, <2>4 DEF Wr
    <3>2. PICK j \in 0 .. N - 1 : j = J[i]
      BY <3>1
    <3>3. t[j] = Raw <=> ~(j < z)
      BY <1>5
    <3>4. new <=> (z # N /\ i = 1)
      BY <1>4, <2>1
    <3>5. QED
      BY <3>1, <3>2, <3>3, <3>4
  <2>7. Ring!Get(d, from) = V[i]
    <3>1. ASSUME NEW q \in 1 .. i - 1 PROVE J[q] # m
      <4>1. q \in 1 .. n /\ m \in k .. z /\ z - q + 1 \in k .. z /\ z - q + 1 # m /\ Wr(N, m) = m
        BY <1>3, <1>n, <2>2, <2>3 DEF Wr
      <4>2. J[q] = Wr(N, z - q + 1)
        BY <1>9, <4>1
      <4>3. QED
        BY <1>6, <4>1, <4>2
    <3>2. d = Rec(N, f, Written(N, t, J, V, i - 1), f, l, z)
      BY <2>1
    <3>3. Ring!Get(d, from) = t[m]
      BY <1>10, <2>3, <2>5, <3>1, <3>2, StepReads
    <3>4. QED
      BY <1>5, <2>3, <2>4, <3>3
  <2>8. Ring!construct_or_replace(d, new, to, V[i]) = Closed(i)
    BY <1>10, <2>1, <2>5, <2>6, StepWrites
  <2>9. QED
    <3> HIDE DEF Closed
    <3>1. Body(d, i) = Ring!construct_or_replace(d, new, to, V[i])
      BY <2>1, <2>7 DEF Ring!construct_or_replace
    <3> HIDE DEF Body
    <3>2. QED
      BY <2>1, <2>8, <3>1
<1>13. loop[n] = Closed(n)
  <2> DEFINE g == [i \in 0 .. n |-> Closed(i)]
  <2> HIDE DEF Body, Closed
  <2>1. \A i \in 0 .. n : g[i] = IF i = 0 THEN start ELSE Body(g[i - 1], i)
    <3>1. ASSUME NEW i \in 0 .. n PROVE g[i] = IF i = 0 THEN start ELSE Body(g[i - 1], i)
      <4>1. CASE i = 0
        BY <1>11, <4>1
      <4>2. CASE i # 0
        <5>1. i \in 1 .. n /\ i - 1 \in 0 .. n
          BY <1>n, <4>2
        <5>2. g[i - 1] = Closed(i - 1) /\ g[i] = Closed(i)
          BY <5>1
        <5>3. QED
          BY <1>12, <4>2, <5>1, <5>2
      <4>3. QED
        BY <4>1, <4>2
    <3>2. QED
      BY <3>1
  <2>2. g = F(g)
    <3>1. g = [i \in 0 .. n |-> g[i]]
      OBVIOUS
    <3> HIDE DEF g
    <3>2. QED
      BY <2>1, <3>1
  <2>3. loop = F(loop)
    <3> HIDE DEF F, g
    <3>1. QED
      BY <2>2
  <2> HIDE DEF loop
  <2>4. \A i \in 0 .. n : loop[i] = IF i = 0 THEN start ELSE Body(loop[i - 1], i)
    BY <2>3
  <2>5. GoAlike(loop, g, n)
    <3>1. 0 \in 0 .. n /\ \A i \in 1 .. n : i # 0 /\ i \in 0 .. n
      BY <1>n
    <3> HIDE DEF g, F
    <3>2. QED
      BY <2>1, <2>4, <3>1 DEF GoAlike
  <2>6. loop[n] = g[n] /\ g[n] = Closed(n)
    <3>1. n \in 0 .. n
      BY <1>n
    <3>2. QED
      BY <1>n, <2>5, <3>1, SameLoop
  <2>7. QED
    BY <2>6
<1>14. PICK put : put = Ring!replace(loop[n], Ring!add(c, c.first, k), x)
  OBVIOUS
<1>15. PICK e : e = Ring!insert_item(c, k, x)
  OBVIOUS
<1>16. \/ z = N /\ e = Ring!Ends(put, Plus(N, l, 1), Plus(N, l, 1), z)
       \/ z # N /\ e = Ring!Ends(put, f, Plus(N, l, 1), z + 1)
  <2>1. e = Ring!insert_item(c, k, x) /\ k # c.size
    BY <1>3, <1>4, <1>15
  <2>2. e = IF Ring!full(c) THEN Ring!Ends(put, Ring!increment(c, c.last), Ring!increment(c, c.last), c.size)
            ELSE Ring!Ends(put, c.first, Ring!increment(c, c.last), c.size + 1)
    BY <1>14, <2>1 DEF Ring!insert_item, Ring!Repeat, n
  <2>3. QED
    BY <1>4, <2>2
<1>17. put = Rec(N, f, w, f, l, z)
  <2>1. PICK u, p : u = Written(N, t, J, V, n) /\ p = Plus(N, f, k)
    OBVIOUS
  <2>2. /\ \A i \in 1 .. n : u[J[i]] = V[i]
        /\ \A j \in 0 .. N - 1 : (\A i \in 1 .. n : J[i] # j) => u[j] = t[j]
        /\ u \in [0 .. N - 1 -> Cells]
    <3>1. n \in 0 .. n
      BY <1>n
    <3>2. QED
      BY <1>10, <2>1, <3>1, WrittenIs
  <2>3. k \in 0 .. N - 1 /\ k < z /\ Wr(N, k) = k /\ k \in k .. z
    BY <1>3 DEF Wr
  <2>4. u[k] = t[k]
    <3>1. ASSUME NEW i \in 1 .. n PROVE J[i] # k
      <4>1. z - i + 1 \in k .. z /\ z - i + 1 # k
        BY <1>3, <1>9
      <4>2. QED
        BY <1>6, <1>9, <2>3, <4>1
    <3>2. QED
      BY <2>2, <2>3, <3>1
  <2>5. put = Rec(N, f, Put(u, k, x), f, l, z)
    <3>1. IsSlot(p, k, loop[n], N, f, u, f, l, z)
      BY <1>3, <1>13, <2>1, <2>2, <2>3 DEF IsSlot
    <3>2. u[k] # Raw
      BY <1>5, <2>3, <2>4
    <3>3. Ring!add(c, c.first, k) = p
      BY <1>4, <2>1
    <3> HIDE DEF loop
    <3>4. QED
      BY <1>14, <3>1, <3>2, <3>3, Writes
  <2>6. ASSUME NEW j \in 0 .. N - 1 PROVE Put(u, k, x)[j] = w[j]
    <3>1. Put(u, k, x)[j] = IF j = k THEN x ELSE u[j]
      BY <2>2, <2>3 DEF Put
    <3>2. CASE j = k
      <4>1. w[k] = x
        BY <1>3, <1>6, <2>3
      <4>2. QED
        BY <3>1, <3>2, <4>1
    <3>3. CASE j # k /\ \E i \in 1 .. n : J[i] = j
      <4>1. PICK i \in 1 .. n : J[i] = j
        BY <3>3
      <4>2. z - i + 1 \in k .. z /\ ~(z - i + 1 < k + 1)
        BY <1>3, <1>9
      <4>3. w[j] = s[z - i + 1] /\ u[j] = s[z - i + 1]
        BY <1>6, <1>9, <2>2, <4>1, <4>2
      <4>4. QED
        BY <3>1, <3>3, <4>3
    <3>4. CASE j # k /\ \A i \in 1 .. n : J[i] # j
      <4>1. ASSUME NEW v \in k .. z PROVE Wr(N, v) # j
        <5>1. CASE v = k
          BY <2>3, <3>4, <5>1
        <5>2. CASE v # k
          <6>1. z - v + 1 \in 1 .. n /\ z - (z - v + 1) + 1 = v
            BY <1>3, <1>n, <5>2
          <6>2. QED
            BY <1>9, <3>4, <6>1
        <5>3. QED
          BY <5>1, <5>2
      <4>2. w[j] = t[j]
        BY <1>6, <4>1
      <4>3. QED
        BY <2>2, <3>1, <3>4, <4>2
    <3>5. QED
      BY <3>2, <3>3, <3>4
  <2>7. Put(u, k, x) = [q \in 0 .. N - 1 |-> Put(u, k, x)[q]]
    BY <2>2 DEF Put
  <2>8. w = [q \in 0 .. N - 1 |-> w[q]]
    BY <1>2 DEF Wound
  <2>9. QED
    BY <2>5, <2>6, <2>7, <2>8
<1>18. /\ z = N => Becomes(e, N, Back(Inserted(s, k, 1, x), N))
       /\ z # N => Becomes(e, N, Inserted(s, k, 1, x))
  <2>1. k \in 0 .. Len(s) /\ put = Rec(N, f, Wound(N, Inserted(s, k, 1, x)), f, l, z)
    BY <1>1, <1>2, <1>3, <1>17
  <2>2. QED
    BY <1>1, <1>3, <1>16, <2>1, ItemIsIn
<1>19. QED
  BY <1>1, <1>2, <1>15, <1>18

----------------------------------------------------------------------------
(* rinsert() of one item *)

LEMMA ItemIsInFront ==
    ASSUME NEW N, NEW f, NEW s, Fits(N, f, s), N # 0, NEW k \in 0 .. Len(s), NEW x \in Values,
           NEW l, l = Plus(N, f, Len(s)), NEW z, z = Len(s), NEW put,
           put = Rec(N, f, Unwound(N, Inserted(s, k, 1, x), 1), f, l, z),
           NEW first, first = Minus(N, f, 1),
           NEW c, \/ z = N /\ c = Ring!Ends(put, first, first, z)
                  \/ z # N /\ c = Ring!Ends(put, first, l, z + 1)
    PROVE  /\ z = N => Becomes(c, N, Front(Inserted(s, k, 1, x), N))
           /\ z # N => Becomes(c, N, Inserted(s, k, 1, x))
<1>1. N \in Nat \ {0} /\ f \in 0 .. N - 1 /\ z \in 0 .. N /\ s \in Seq(Values) /\ 1 \in 0 .. N
  BY DEF Fits
<1>2. PICK r : r = Inserted(s, k, 1, x)
  OBVIOUS
<1>3. r \in Seq(Values) /\ Len(r) = z + 1
  BY <1>1, <1>2, Lists
<1>4. PICK n : n = 1
  OBVIOUS
<1>5. /\ z + n > N => Becomes(Ring!Ends(put, Minus(N, f, n), Minus(N, Plus(N, f, z), z + n - N), N), N, Front(r, N))
      /\ ~(z + n > N) => Becomes(Ring!Ends(put, Minus(N, f, n), Plus(N, f, z), z + n), N, r)
  <2>1. Len(r) = z + n /\ n \in 0 .. N
    BY <1>1, <1>3, <1>4
  <2>2. put = Rec(N, f, Unwound(N, r, n), f, l, z)
    BY <1>2, <1>4
  <2>3. QED
    BY <1>1, <1>3, <2>1, <2>2, UnwoundIs
<1>6. z = N => z + n > N /\ Minus(N, Plus(N, f, z), z + n - N) = first
  <2>1. z = N => z + n > N /\ z + n - N = 1 /\ Plus(N, f, z) = f
    BY <1>1, <1>4 DEF Plus
  <2>2. QED
    BY <2>1
<1>7. z # N => ~(z + n > N)
  BY <1>1, <1>4
<1>8. QED
  BY <1>2, <1>4, <1>5, <1>6, <1>7

\* The item is put before the others.
LEMMA PrependItemIs ==
    ASSUME NEW N, NEW f, NEW s, Fits(N, f, s), N # 0, NEW x \in Values
    PROVE  /\ Len(s) = N => Becomes(Ring!rinsert_impl(At(N, f, s), 0, x), N,
                                    Front(Inserted(s, 0, 1, x), N))
           /\ Len(s) # N => Becomes(Ring!rinsert_impl(At(N, f, s), 0, x), N,
                                    Inserted(s, 0, 1, x))
<1>1. PICK z \in Nat : z = Len(s)
  BY DEF Fits
<1>2. PICK c, l, t, w, first :
        /\ c = At(N, f, s) /\ l = c.last /\ t = Content(N, s)
        /\ w = Unwound(N, Inserted(s, 0, 1, x), 1) /\ first = Minus(N, f, 1)
  OBVIOUS
<1>3. /\ N \in Nat \ {0} /\ f \in 0 .. N - 1 /\ s \in Seq(Values) /\ z \in 0 .. N
      /\ l = Plus(N, f, z) /\ l \in 0 .. N - 1
      /\ c = Rec(N, f, t, f, l, z) /\ t \in [0 .. N - 1 -> Cells]
  BY <1>1, <1>2, AtIs DEF Fits
<1>4. /\ c.first = f /\ c.last = l /\ c.size = z /\ (Ring!full(c) <=> z = N)
      /\ Ring!decrement(c, f) = first
  BY <1>2, <1>3, Pointers DEF IsRec
<1>5. PICK j : j = N - 1
  OBVIOUS
<1>6. /\ j \in 0 .. N - 1 /\ first = Plus(N, f, j)
      /\ t[j] = Raw <=> z # N
  <2>1. j \in 0 .. N - 1 /\ first = Plus(N, f, j) /\ (j < z <=> z = N)
    BY <1>2, <1>3, <1>5 DEF Plus, Minus
  <2>2. QED
    BY <1>1, <1>2, <1>3, <2>1, ContentIs
<1>7. PICK put : put = Ring!construct_or_replace(c, ~Ring!full(c), first, x)
  OBVIOUS
<1>8. put = Rec(N, f, Put(t, j, x), f, l, z)
  <2>1. IsSlot(first, j, c, N, f, t, f, l, z)
    BY <1>3, <1>6 DEF IsSlot
  <2>2. put = IF z = N THEN Ring!replace(c, first, x) ELSE Ring!construct(c, first, x)
    BY <1>4, <1>7 DEF Ring!construct_or_replace
  <2>3. QED
    BY <1>6, <2>1, <2>2, Writes
<1>9. Put(t, j, x) = w
  <2>1. PICK n, k : n = 1 /\ k = 0
    OBVIOUS
  <2>2. /\ \A v \in 0 .. k + n - 1 :
             Wr(N, N - n + v) \in 0 .. N - 1 /\ w[Wr(N, N - n + v)] = IF v < k THEN s[v + 1] ELSE x
        /\ \A q \in 0 .. N - 1 : (\A v \in 0 .. k + n - 1 : Wr(N, N - n + v) # q) => w[q] = t[q]
    <3>1. w = Unwound(N, Inserted(s, k, n, x), n) /\ t = Content(N, s)
      BY <1>2, <2>1
    <3>2. RoomBefore(N, s, z, k, n, x)
      BY <1>1, <1>3, <2>1 DEF RoomBefore
    <3>3. \A v \in 0 .. k + n - 1 :
             Wr(N, N - n + v) \in 0 .. N - 1 /\ w[Wr(N, N - n + v)] = IF v < k THEN s[v + 1] ELSE x
      BY <3>1, <3>2, UnwoundInserted
    <3>4. \A q \in 0 .. N - 1 : (\A v \in 0 .. k + n - 1 : Wr(N, N - n + v) # q) => w[q] = t[q]
      BY <3>1, <3>2, UnwoundInserted
    <3>5. QED
      BY <3>3, <3>4
  <2>3. /\ 0 \in 0 .. k + n - 1 /\ ~(0 < k) /\ \A v \in 0 .. k + n - 1 : v = 0
        /\ Wr(N, N - n + 0) = j
    BY <1>3, <1>5, <2>1 DEF Wr
  <2>4. w[j] = x /\ \A q \in 0 .. N - 1 : q # j => w[q] = t[q]
    BY <2>2, <2>3
  <2>5. \A q \in 0 .. N - 1 : Put(t, j, x)[q] = w[q]
    BY <1>3, <2>4 DEF Put
  <2>6. Put(t, j, x) = [q \in 0 .. N - 1 |-> Put(t, j, x)[q]]
    BY <1>3 DEF Put
  <2>7. w = [q \in 0 .. N - 1 |-> w[q]]
    BY <1>2 DEF Unwound
  <2>8. QED
    BY <2>5, <2>6, <2>7
<1>10. PICK e : e = Ring!rinsert_impl(c, 0, x)
  OBVIOUS
<1>11. \/ z = N /\ e = Ring!Ends(put, first, first, z)
       \/ z # N /\ e = Ring!Ends(put, first, l, z + 1)
  <2>1. ~(Ring!full(c) /\ 0 = c.size)
    BY <1>3, <1>4
  <2>2. e = IF Ring!full(c) THEN Ring!Ends(put, first, first, c.size)
            ELSE Ring!Ends(put, first, c.last, c.size + 1)
    BY <1>4, <1>7, <1>10, <2>1 DEF Ring!rinsert_impl
  <2>3. QED
    BY <1>4, <2>2
<1>12. 0 \in 0 .. Len(s)
  BY <1>1, <1>3
<1>13. put = Rec(N, f, Unwound(N, Inserted(s, 0, 1, x), 1), f, l, z)
  BY <1>2, <1>8, <1>9
<1>14. /\ z = N => Becomes(e, N, Front(Inserted(s, 0, 1, x), N))
       /\ z # N => Becomes(e, N, Inserted(s, 0, 1, x))
  BY <1>1, <1>2, <1>3, <1>11, <1>12, <1>13, ItemIsInFront
<1>15. QED
  BY <1>1, <1>2, <1>10, <1>14

\* The items before its position make room for it.
LEMMA RinsertItemIs ==
    ASSUME NEW N, NEW f, NEW s, Fits(N, f, s), N # 0, NEW k \in 1 .. Len(s), NEW x \in Values,
           ~(Len(s) = N /\ k = Len(s))
    PROVE  /\ Len(s) = N => Becomes(Ring!rinsert_impl(At(N, f, s), k, x), N,
                                    Front(Inserted(s, k, 1, x), N))
           /\ Len(s) # N => Becomes(Ring!rinsert_impl(At(N, f, s), k, x), N,
                                    Inserted(s, k, 1, x))
<1>1. PICK z \in Nat : z = Len(s)
  BY DEF Fits
<1>2. PICK c, l, t, w, first :
        /\ c = At(N, f, s) /\ l = c.last /\ t = Content(N, s)
        /\ w = Unwound(N, Inserted(s, k, 1, x), 1) /\ first = Minus(N, f, 1)
  OBVIOUS
<1>3. /\ N \in Nat \ {0} /\ f \in 0 .. N - 1 /\ s \in Seq(Values) /\ z \in 0 .. N
      /\ l = Plus(N, f, z) /\ l \in 0 .. N - 1
      /\ c = Rec(N, f, t, f, l, z) /\ t \in [0 .. N - 1 -> Cells]
      /\ k \in 1 .. z /\ k \in Nat /\ ~(z = N /\ k = z) /\ k < N
  BY <1>1, <1>2, AtIs DEF Fits
<1>4. /\ c.first = f /\ c.last = l /\ c.size = z /\ (Ring!full(c) <=> z = N)
      /\ \A p, i : Ring!add(c, p, i) = Plus(N, p, i) /\ Ring!sub(c, p, i) = Minus(N, p, i)
      /\ Ring!decrement(c, f) = first
  BY <1>2, <1>3, Pointers DEF IsRec
<1>5. \A j \in 0 .. N - 1 :
        /\ j < z => t[j] = s[j + 1] /\ s[j + 1] \in Values /\ s[j + 1] # Raw
        /\ ~(j < z) => t[j] = Raw
  BY <1>1, <1>2, <1>3, ContentIs
<1>6. /\ \A v \in 0 .. k : Wr(N, N - 1 + v) \in 0 .. N - 1
                           /\ w[Wr(N, N - 1 + v)] = IF v < k THEN s[v + 1] ELSE x
      /\ \A v, u \in 0 .. k : Wr(N, N - 1 + v) = Wr(N, N - 1 + u) => v = u
      /\ \A q \in 0 .. N - 1 : (\A v \in 0 .. k : Wr(N, N - 1 + v) # q) => w[q] = t[q]
  <2>1. PICK n : n = 1
    OBVIOUS
  <2>2. RoomBefore(N, s, z, k, n, x)
    BY <1>1, <1>3, <2>1 DEF RoomBefore
  <2>3. w = Unwound(N, Inserted(s, k, n, x), n) /\ t = Content(N, s)
    BY <1>2, <2>1
  <2>4. \A v \in 0 .. k + n - 1 :
           Wr(N, N - n + v) \in 0 .. N - 1 /\ w[Wr(N, N - n + v)] = IF v < k THEN s[v + 1] ELSE x
    BY <2>2, <2>3, UnwoundInserted
  <2>5. \A v, u \in 0 .. k + n - 1 : Wr(N, N - n + v) = Wr(N, N - n + u) => v = u
    BY <2>2, <2>3, UnwoundInserted
  <2>6. \A q \in 0 .. N - 1 : (\A v \in 0 .. k + n - 1 : Wr(N, N - n + v) # q) => w[q] = t[q]
    BY <2>2, <2>3, UnwoundInserted
  <2>7. k + n - 1 = k
    BY <1>3, <2>1
  <2>8. QED
    BY <2>1, <2>4, <2>5, <2>6, <2>7
<1> DEFINE n == k
<1>n. n \in Nat
  BY <1>3
<1>7. PICK J : J = [i \in 1 .. n |-> Wr(N, N - 1 + (i - 1))]
  OBVIOUS
<1>8. PICK V : V = [i \in 1 .. n |-> s[i]]
  OBVIOUS
<1>9. \A i \in 1 .. n : /\ i - 1 \in 0 .. k /\ i \in 0 .. k /\ i - 1 < k /\ i \in 1 .. z
                        /\ J[i] = Wr(N, N - 1 + (i - 1)) /\ V[i] = s[i]
  BY <1>3, <1>7, <1>8
<1>10. Plan(N, f, t, n, J, V)
  <2>1. ASSUME NEW i \in 1 .. n PROVE J[i] \in 0 .. N - 1 /\ V[i] \in Values
    <3>1. s[i] \in Values
      BY <1>1, <1>3, <1>9
    <3>2. QED
      BY <1>6, <1>9, <3>1
  <2>2. ASSUME NEW i \in 1 .. n, NEW p \in 1 .. n, J[i] = J[p] PROVE i = p
    <3>1. PICK a, b : a = i - 1 /\ b = p - 1
      OBVIOUS
    <3>2. a \in 0 .. k /\ b \in 0 .. k /\ J[i] = Wr(N, N - 1 + a) /\ J[p] = Wr(N, N - 1 + b)
      BY <1>9, <3>1
    <3>3. a = b
      BY <1>6, <2>2, <3>2
    <3>4. QED
      BY <3>1, <3>3
  <2>3. QED
    BY <1>3, <1>n, <2>1, <2>2 DEF Plan
<1> DEFINE start == c
           Body(d, i) == Ring!construct_or_replace(d, ~Ring!full(c) /\ i = 1,
                           Ring!add(c, Ring!decrement(c, c.first), i - 1),
                           Ring!Get(d, Ring!add(c, c.first, i - 1)))
           Closed(i) == Rec(N, f, Written(N, t, J, V, i), f, l, z)
           F(h) == [i \in 0 .. n |-> IF i = 0 THEN start ELSE Body(h[i - 1], i)]
           loop == CHOOSE h : h = F(h)
<1> HIDE DEF n
<1>11. start = Closed(0)
  BY <1>3, <1>10, WrittenNothing
<1>12. ASSUME NEW i \in 1 .. n PROVE Closed(i) = Body(Closed(i - 1), i)
  <2>1. PICK d, to, from, new : /\ d = Closed(i - 1) /\ to = Ring!add(c, first, i - 1)
                                /\ from = Ring!add(c, c.first, i - 1)
                                /\ new <=> (~Ring!full(c) /\ i = 1)
    OBVIOUS
  <2>2. PICK m : m = i - 1
    OBVIOUS
  <2>3. m \in 0 .. N - 1 /\ m < z /\ m + 1 = i /\ i \in 1 .. k /\ N - 1 + m < 2 * N
    BY <1>3, <1>9, <2>2 DEF n
  <2>4. J[i] = Wr(N, N - 1 + m) /\ V[i] = s[m + 1]
    BY <1>9, <2>2, <2>3
  <2>5. to = Plus(N, f, J[i]) /\ from = Plus(N, f, m)
    <3>1. to = Plus(N, first, m) /\ from = Plus(N, f, m)
      BY <1>4, <2>1, <2>2
    <3>2. first = Plus(N, f, N - 1)
      BY <1>2, <1>3 DEF Plus, Minus
    <3>3. N - 1 \in 0 .. N /\ m \in 0 .. N
      BY <1>3, <2>3
    <3>4. Plus(N, Plus(N, f, N - 1), m) = Plus(N, f, Wr(N, N - 1 + m))
      BY <1>3, <2>3, <3>3, Rounds
    <3>5. QED
      BY <2>4, <3>1, <3>2, <3>4
  <2>6. new <=> t[J[i]] = Raw
    <3>1. J[i] \in 0 .. N - 1 /\ (~(J[i] < z) <=> (z # N /\ i = 1))
      <4>1. z \in Nat /\ z <= N /\ m \in Int /\ m = i - 1 /\ i \in 1 .. k /\ N \in Nat
        BY <1>3, <2>2, <2>3
      <4>2. J[i] = IF m = 0 THEN N - 1 ELSE m - 1
        BY <1>3, <2>3, <2>4 DEF Wr
      <4>3. CASE m = 0
        BY <1>3, <4>1, <4>2, <4>3
      <4>4. CASE m # 0
        BY <1>3, <2>3, <4>1, <4>2, <4>4
      <4>5. QED
        BY <4>3, <4>4
    <3>2. PICK j \in 0 .. N - 1 : j = J[i]
      BY <3>1
    <3>3. t[j] = Raw <=> ~(j < z)
      BY <1>5
    <3>4. new <=> (z # N /\ i = 1)
      BY <1>4, <2>1
    <3>5. QED
      BY <3>1, <3>2, <3>3, <3>4
  <2>7. Ring!Get(d, from) = V[i]
    <3>1. ASSUME NEW q \in 1 .. i - 1 PROVE J[q] # m
      <4>1. q \in 1 .. n /\ q - 1 \in 0 .. k /\ q - 1 # i
        BY <1>3, <1>n, <2>2, <2>3 DEF n
      <4>2. J[q] = Wr(N, N - 1 + (q - 1))
        BY <1>9, <4>1
      <4>3. i \in 0 .. k /\ Wr(N, N - 1 + i) = m
        BY <1>3, <2>2, <2>3 DEF Wr
      <4>4. QED
        BY <1>6, <4>1, <4>2, <4>3
    <3>2. d = Rec(N, f, Written(N, t, J, V, i - 1), f, l, z)
      BY <2>1
    <3>3. Ring!Get(d, from) = t[m]
      BY <1>10, <2>3, <2>5, <3>1, <3>2, StepReads
    <3>4. QED
      BY <1>5, <2>3, <2>4, <3>3
  <2>8. Ring!construct_or_replace(d, new, to, V[i]) = Closed(i)
    BY <1>10, <2>1, <2>5, <2>6, StepWrites
  <2>9. QED
    <3> HIDE DEF Closed
    <3>1. Body(d, i) = Ring!construct_or_replace(d, new, to, V[i])
      BY <1>4, <2>1, <2>7 DEF Ring!construct_or_replace
    <3> HIDE DEF Body
    <3>2. QED
      BY <2>1, <2>8, <3>1
<1>13. loop[n] = Closed(n)
  <2> DEFINE g == [i \in 0 .. n |-> Closed(i)]
  <2> HIDE DEF Body, Closed
  <2>1. \A i \in 0 .. n : g[i] = IF i = 0 THEN start ELSE Body(g[i - 1], i)
    <3>1. ASSUME NEW i \in 0 .. n PROVE g[i] = IF i = 0 THEN start ELSE Body(g[i - 1], i)
      <4>1. CASE i = 0
        BY <1>11, <4>1
      <4>2. CASE i # 0
        <5>1. i \in 1 .. n /\ i - 1 \in 0 .. n
          BY <1>n, <4>2
        <5>2. g[i - 1] = Closed(i - 1) /\ g[i] = Closed(i)
          BY <5>1
        <5>3. QED
          BY <1>12, <4>2, <5>1, <5>2
      <4>3. QED
        BY <4>1, <4>2
    <3>2. QED
      BY <3>1
  <2>2. g = F(g)
    <3>1. g = [i \in 0 .. n |-> g[i]]
      OBVIOUS
    <3> HIDE DEF g
    <3>2. QED
      BY <2>1, <3>1
  <2>3. loop = F(loop)
    <3> HIDE DEF F, g
    <3>1. QED
      BY <2>2
  <2> HIDE DEF loop
  <2>4. \A i \in 0 .. n : loop[i] = IF i = 0 THEN start ELSE Body(loop[i - 1], i)
    BY <2>3
  <2>5. GoAlike(loop, g, n)
    <3>1. 0 \in 0 .. n /\ \A i \in 1 .. n : i # 0 /\ i \in 0 .. n
      BY <1>n
    <3> HIDE DEF g, F
    <3>2. QED
      BY <2>1, <2>4, <3>1 DEF GoAlike
  <2>6. loop[n] = g[n] /\ g[n] = Closed(n)
    <3>1. n \in 0 .. n
      BY <1>n
    <3>2. QED
      BY <1>n, <2>5, <3>1, SameLoop
  <2>7. QED
    BY <2>6
<1>14. PICK put : put = Ring!replace(loop[n], Ring!add(c, Ring!decrement(c, c.first), k), x)
  OBVIOUS
<1>15. PICK e : e = Ring!rinsert_impl(c, k, x)
  OBVIOUS
<1>16. \/ z = N /\ e = Ring!Ends(put, first, first, z)
       \/ z # N /\ e = Ring!Ends(put, first, l, z + 1)
  <2>1. k # 0 /\ ~(Ring!full(c) /\ k = c.size)
    BY <1>3, <1>4
  <2>2. e = IF Ring!full(c) THEN Ring!Ends(put, Ring!decrement(c, c.first), Ring!decrement(c, c.first), c.size)
            ELSE Ring!Ends(put, Ring!decrement(c, c.first), c.last, c.size + 1)
    BY <1>14, <1>15, <2>1 DEF Ring!rinsert_impl, Ring!Repeat, n
  <2>3. QED
    BY <1>4, <2>2
<1>17. put = Rec(N, f, w, f, l, z)
  <2>1. PICK u, j, p : u = Written(N, t, J, V, n) /\ j = Wr(N, N - 1 + k) /\ p = Plus(N, f, j)
    OBVIOUS
  <2>2. /\ \A i \in 1 .. n : u[J[i]] = V[i]
        /\ \A q \in 0 .. N - 1 : (\A i \in 1 .. n : J[i] # q) => u[q] = t[q]
        /\ u \in [0 .. N - 1 -> Cells]
    <3>1. n \in 0 .. n
      BY <1>n
    <3>2. QED
      BY <1>10, <2>1, <3>1, WrittenIs
  <2>3. j \in 0 .. N - 1 /\ j < z /\ k \in 0 .. k /\ j = k - 1
    BY <1>3, <2>1 DEF Wr
  <2>4. u[j] = t[j]
    <3>1. ASSUME NEW i \in 1 .. n PROVE J[i] # j
      <4>1. i - 1 \in 0 .. k /\ i - 1 # k
        BY <1>3, <1>9
      <4>2. QED
        BY <1>6, <1>9, <2>1, <2>3, <4>1
    <3>2. QED
      BY <2>2, <2>3, <3>1
  <2>5. Ring!add(c, Ring!decrement(c, c.first), k) = p
    <3>1. first = Plus(N, f, N - 1)
      BY <1>2, <1>3 DEF Plus, Minus
    <3>2. N - 1 \in 0 .. N /\ k \in 0 .. N /\ N - 1 + k < 2 * N
      BY <1>3
    <3>3. Plus(N, Plus(N, f, N - 1), k) = Plus(N, f, Wr(N, N - 1 + k))
      BY <1>3, <3>2, Rounds
    <3>4. QED
      BY <1>4, <2>1, <3>1, <3>3
  <2>6. put = Rec(N, f, Put(u, j, x), f, l, z)
    <3>1. IsSlot(p, j, loop[n], N, f, u, f, l, z)
      BY <1>3, <1>13, <2>1, <2>2, <2>3 DEF IsSlot
    <3>2. u[j] # Raw
      BY <1>5, <2>3, <2>4
    <3> HIDE DEF loop
    <3>3. QED
      BY <1>14, <2>5, <3>1, <3>2, Writes
  <2>7. ASSUME NEW q \in 0 .. N - 1 PROVE Put(u, j, x)[q] = w[q]
    <3>1. Put(u, j, x)[q] = IF q = j THEN x ELSE u[q]
      BY <2>2, <2>3 DEF Put
    <3>2. CASE q = j
      <4>1. w[j] = x
        BY <1>3, <1>6, <2>1, <2>3
      <4>2. QED
        BY <3>1, <3>2, <4>1
    <3>3. CASE q # j /\ \E i \in 1 .. n : J[i] = q
      <4>1. PICK i \in 1 .. n : J[i] = q
        BY <3>3
      <4>2. i - 1 \in 0 .. k /\ i - 1 < k /\ i - 1 + 1 = i
        BY <1>3, <1>9
      <4>3. w[q] = s[i] /\ u[q] = s[i]
        BY <1>6, <1>9, <2>2, <4>1, <4>2
      <4>4. QED
        BY <3>1, <3>3, <4>3
    <3>4. CASE q # j /\ \A i \in 1 .. n : J[i] # q
      <4>1. ASSUME NEW v \in 0 .. k PROVE Wr(N, N - 1 + v) # q
        <5>1. CASE v = k
          BY <2>1, <3>4, <5>1
        <5>2. CASE v # k
          <6>1. v + 1 \in 1 .. n /\ v + 1 - 1 = v
            BY <1>3, <1>n, <5>2 DEF n
          <6>2. QED
            BY <1>9, <3>4, <6>1
        <5>3. QED
          BY <5>1, <5>2
      <4>2. w[q] = t[q]
        BY <1>6, <4>1
      <4>3. QED
        BY <2>2, <3>1, <3>4, <4>2
    <3>5. QED
      BY <3>2, <3>3, <3>4
  <2>8. Put(u, j, x) = [q \in 0 .. N - 1 |-> Put(u, j, x)[q]]
    BY <2>2 DEF Put
  <2>9. w = [q \in 0 .. N - 1 |-> w[q]]
    BY <1>2 DEF Unwound
  <2>10. QED
    BY <2>6, <2>7, <2>8, <2>9
<1>18. /\ z = N => Becomes(e, N, Front(Inserted(s, k, 1, x), N))
       /\ z # N => Becomes(e, N, Inserted(s, k, 1, x))
  <2>1. k \in 0 .. Len(s) /\ put = Rec(N, f, Unwound(N, Inserted(s, k, 1, x), 1), f, l, z)
    BY <1>1, <1>2, <1>3, <1>17
  <2>2. QED
    BY <1>1, <1>2, <1>3, <1>16, <2>1, ItemIsInFront
<1>19. QED
  BY <1>1, <1>2, <1>15, <1>18

----------------------------------------------------------------------------
(* insert() of n items *)

LEMMA LeastIs == ASSUME NEW a, NEW b PROVE Ring!Least(a, b) = IF a < b THEN a ELSE b
BY DEF Ring!Least

\* Where the code looks whether a slot is free, and what it finds when the first one is
\* the first of the storage, or the items go round.
LEMMA FreeIs ==
    ASSUME NEW N \in Nat, NEW f \in 0 .. N - 1, NEW z \in 1 .. N, NEW l, l = Plus(N, f, z),
           NEW c, c.first = f, c.last = l, f = 0 \/ f >= l,
           NEW j \in 0 .. N - 1, NEW p, p = Plus(N, f, j)
    PROVE  Ring!is_uninitialized(c, p) <=> ~(j < z)
<1>1. (p >= l /\ (f < l \/ p < f)) <=> ~(j < z)
  BY DEF Plus
<1>2. QED
  BY <1>1 DEF Ring!is_uninitialized

\* Before m_first are none of the slots that are not past the last one.
LEMMA FreeBehindIs ==
    ASSUME NEW N \in Nat, NEW f \in 0 .. N - 1, NEW z \in 1 .. N, NEW m \in Nat \ {0}, f + z + m <= N,
           NEW l, l = Plus(N, f, z), NEW c, c.first = f, c.last = l,
           NEW v \in Nat, v < z + m, NEW p, p = Plus(N, f, Wr(N, v))
    PROVE  /\ Ring!is_uninitialized(c, p) <=> ~(Wr(N, v) < z)
           /\ Wr(N, v) \in 0 .. N - 1
<1>1. l = f + z /\ Wr(N, v) = v /\ p = f + v
  BY DEF Plus, Wr
<1>2. (p >= l /\ (f < l \/ p < f)) <=> ~(v < z)
  BY <1>1
<1>3. QED
  BY <1>1, <1>2 DEF Ring!is_uninitialized

LEMMA Backwards ==
    ASSUME NEW N \in Nat, NEW f \in 0 .. N - 1, NEW e \in Nat, e < N + N, NEW i \in 0 .. N, i <= e
    PROVE  Minus(N, Plus(N, f, Wr(N, e)), i) = Plus(N, f, Wr(N, e - i)) /\ Wr(N, e - i) \in 0 .. N - 1
<1>1. PICK a : a = Wr(N, e)
  OBVIOUS
<1>2. a \in 0 .. N /\ Wr(N, e - i) \in 0 .. N - 1
  BY <1>1 DEF Wr
<1>3. CASE i <= a
  <2>1. Minus(N, Plus(N, f, a), i) = Plus(N, f, Wr(N, a - i))
    BY <1>2, <1>3, Rounds
  <2>2. Wr(N, a - i) = Wr(N, e - i)
    BY <1>1, <1>3 DEF Wr
  <2>3. QED
    BY <1>1, <1>2, <2>1, <2>2
<1>4. CASE ~(i <= a)
  <2>1. a < i /\ N + a - i = Wr(N, e - i)
    BY <1>1, <1>4 DEF Wr
  <2>2. Minus(N, Plus(N, f, a), i) = Plus(N, f, N + a - i)
    BY <1>2, <2>1, Rounds
  <2>3. QED
    BY <1>1, <1>2, <2>1, <2>2
<1>5. QED
  BY <1>3, <1>4

LEMMA Forwards ==
    ASSUME NEW N \in Nat, NEW f \in 0 .. N - 1, NEW a \in 0 .. N, NEW i \in 0 .. N, a + i < N + N
    PROVE  Plus(N, Plus(N, f, a), i) = Plus(N, f, Wr(N, a + i)) /\ Wr(N, a + i) \in 0 .. N - 1
BY DEF Plus, Wr

\* What is left to do when the items are in their slots.
LEMMA ItemsAreIn ==
    ASSUME NEW N, NEW f, NEW s, Fits(N, f, s), N # 0, NEW k, NEW m, NEW x,
           RoomBehind(N, s, Len(s), k, m, x),
           NEW l, l = Plus(N, f, Len(s)), NEW z, z = Len(s), NEW put,
           put = Rec(N, f, Wound(N, Inserted(s, k, m, x)), f, l, z),
           NEW new, new = Ring!Least(N - z, m),
           NEW c, c = Ring!Ends(put, Plus(N, f, m - new), Plus(N, l, m), z + new)
    PROVE  /\ z + m > N => Becomes(c, N, Back(Inserted(s, k, m, x), N))
           /\ ~(z + m > N) => Becomes(c, N, Inserted(s, k, m, x))
<1>1. /\ N \in Nat \ {0} /\ f \in 0 .. N - 1 /\ z \in 0 .. N /\ s \in Seq(Values) /\ m \in 0 .. N
      /\ k \in 0 .. Len(s) /\ x \in Values
  BY DEF Fits, RoomBehind
<1>2. PICK r, last : r = Inserted(s, k, m, x) /\ last = Plus(N, l, m)
  OBVIOUS
<1>3. r \in Seq(Values) /\ Len(r) = z + m
  BY <1>1, <1>2, Lists
<1>4. /\ z + m > N => Becomes(Ring!Ends(put, Plus(N, f, z + m - N), last, N), N, Back(r, N))
      /\ ~(z + m > N) => Becomes(Ring!Ends(put, f, last, z + m), N, r)
  <2>1. put = Rec(N, f, Wound(N, r), f, l, z) /\ last = Plus(N, Plus(N, f, z), m)
    BY <1>2
  <2>2. QED
    BY <1>1, <1>3, <2>1, WoundIs
<1>i. new = IF N - z < m THEN N - z ELSE m
  BY LeastIs
<1>5. z + m > N => m - new = z + m - N /\ z + new = N
  BY <1>1, <1>i
<1>6. ~(z + m > N) => Plus(N, f, m - new) = f /\ z + new = z + m
  BY <1>1, <1>i DEF Plus
<1>7. QED
  BY <1>2, <1>4, <1>5, <1>6

\* The items are put behind the others.
LEMMA AppendItemsAre ==
    ASSUME NEW N, NEW f, NEW s, Fits(N, f, s), NEW x \in Values, NEW wanted \in Nat,
           NEW m, m = Ring!Least(wanted, N), m # 0
    PROVE  /\ Len(s) + m > N => Becomes(Ring!insert_n(At(N, f, s), Len(s), wanted, x), N,
                                        Back(Inserted(s, Len(s), m, x), N))
           /\ ~(Len(s) + m > N) => Becomes(Ring!insert_n(At(N, f, s), Len(s), wanted, x), N,
                                           Inserted(s, Len(s), m, x))
<1>1. PICK z \in Nat : z = Len(s)
  BY DEF Fits
<1>2. PICK c, l, t, w :
        c = At(N, f, s) /\ l = c.last /\ t = Content(N, s) /\ w = Wound(N, Inserted(s, z, m, x))
  OBVIOUS
<1>a. N \in Nat \ {0} /\ m \in 1 .. N
  <2>1. m = IF wanted < N THEN wanted ELSE N
    BY LeastIs
  <2>2. N \in Nat
    BY DEF Fits
  <2>3. QED
    BY <2>1, <2>2
<1>b. f \in 0 .. N - 1 /\ s \in Seq(Values) /\ z \in 0 .. N /\ N # 0
  BY <1>1, <1>a DEF Fits
<1>3. /\ N \in Nat \ {0} /\ f \in 0 .. N - 1 /\ s \in Seq(Values) /\ z \in 0 .. N
      /\ l = Plus(N, f, z) /\ l \in 0 .. N - 1
      /\ c = Rec(N, f, t, f, l, z) /\ t \in [0 .. N - 1 -> Cells]
  <2>1. /\ c.last = Plus(N, f, Len(s)) /\ c.last \in 0 .. N - 1
        /\ Content(N, s) \in [0 .. N - 1 -> Cells]
        /\ c = Rec(N, f, Content(N, s), f, c.last, Len(s))
    BY <1>2, <1>b, AtIs
  <2>2. QED
    BY <1>1, <1>2, <1>a, <1>b, <2>1
<1>4. /\ c.first = f /\ c.last = l /\ c.size = z /\ Ring!capacity(c) = N /\ Ring!reserve(c) = N - z
      /\ \A p, i : Ring!add(c, p, i) = Plus(N, p, i) /\ Ring!sub(c, p, i) = Minus(N, p, i)
  BY <1>3, Pointers DEF IsRec
<1>5. \A j \in 0 .. N - 1 :
        /\ j < z => t[j] = s[j + 1] /\ s[j + 1] \in Values /\ s[j + 1] # Raw
        /\ ~(j < z) => t[j] = Raw
  BY <1>1, <1>2, <1>3, ContentIs
<1>r. RoomBehind(N, s, z, z, m, x)
  BY <1>1, <1>3, <1>a DEF RoomBehind
<1>6. /\ \A v \in z .. z + m - 1 : Wr(N, v) \in 0 .. N - 1 /\ w[Wr(N, v)] = x
      /\ \A v, u \in z .. z + m - 1 : Wr(N, v) = Wr(N, u) => v = u
      /\ \A q \in 0 .. N - 1 : (\A v \in z .. z + m - 1 : Wr(N, v) # q) => w[q] = t[q]
  <2>1. \A v \in z .. z + m - 1 :
           Wr(N, v) \in 0 .. N - 1 /\ w[Wr(N, v)] = IF v < z + m THEN x ELSE s[v - m + 1]
    BY <1>2, <1>r, WoundInserted
  <2>2. \A v, u \in z .. z + m - 1 : Wr(N, v) = Wr(N, u) => v = u
    BY <1>r, WoundInserted
  <2>3. \A q \in 0 .. N - 1 : (\A v \in z .. z + m - 1 : Wr(N, v) # q) => w[q] = t[q]
    BY <1>2, <1>r, WoundInserted
  <2>4. \A v \in z .. z + m - 1 : v < z + m
    BY <1>3, <1>a
  <2>5. QED
    BY <2>1, <2>2, <2>3, <2>4
<1> DEFINE n == Ring!Least(wanted, Ring!capacity(c) - (c.size - z))
<1>n. n = m /\ n \in Nat /\ n \in 1 .. N
  BY <1>3, <1>4, <1>a
<1>7. PICK J, V : J = [i \in 1 .. m |-> Wr(N, z + i - 1)] /\ V = [i \in 1 .. m |-> x]
  OBVIOUS
<1> DEFINE start == c
           Body(d, i) == Ring!construct_or_replace(d, i <= Ring!Least(Ring!reserve(c), n),
                                                   Ring!add(c, c.last, i - 1), x)
           Closed(i) == Rec(N, f, Written(N, t, J, V, i), f, l, z)
           F(h) == [i \in 0 .. n |-> IF i = 0 THEN start ELSE Body(h[i - 1], i)]
           loop == CHOOSE h : h = F(h)
<1> HIDE DEF n
<1>8. \A i \in 1 .. n : /\ z + i - 1 \in z .. z + m - 1 /\ J[i] = Wr(N, z + i - 1) /\ V[i] = x
                        /\ J[i] \in 0 .. N - 1
  <2>1. \A i \in 1 .. n : z + i - 1 \in z .. z + m - 1
    BY <1>3, <1>n
  <2>2. QED
    BY <1>6, <1>7, <1>n, <2>1
<1>9. Plan(N, f, t, n, J, V)
  <2>1. ASSUME NEW i \in 1 .. n, NEW p \in 1 .. n, J[i] = J[p] PROVE i = p
    <3>1. PICK a, b : a = z + i - 1 /\ b = z + p - 1
      OBVIOUS
    <3>2. /\ a \in z .. z + m - 1 /\ b \in z .. z + m - 1
          /\ J[i] = Wr(N, a) /\ J[p] = Wr(N, b)
      BY <1>8, <3>1
    <3>3. a = b
      BY <1>6, <2>1, <3>2
    <3>4. QED
      BY <1>3, <1>n, <3>1, <3>3
  <2>2. QED
    BY <1>3, <1>8, <1>n, <2>1 DEF Plan
<1>11. start = Closed(0)
  BY <1>3, <1>9, WrittenNothing
<1>12. ASSUME NEW i \in 1 .. n PROVE Closed(i) = Body(Closed(i - 1), i)
  <2>1. PICK d, to, new : /\ d = Closed(i - 1) /\ to = Ring!add(c, c.last, i - 1)
                          /\ new <=> i <= Ring!Least(N - z, m)
    OBVIOUS
  <2>2. to = Plus(N, f, J[i])
    <3>1. i - 1 \in 0 .. N /\ z + (i - 1) < N + N /\ z + (i - 1) = z + i - 1
      BY <1>3, <1>n
    <3>2. Plus(N, Plus(N, f, z), i - 1) = Plus(N, f, Wr(N, z + (i - 1)))
      BY <1>3, <3>1, Forwards
    <3>3. QED
      BY <1>3, <1>4, <1>8, <2>1, <3>1, <3>2
  <2>3. new <=> t[J[i]] = Raw
    <3>1. J[i] \in 0 .. N - 1 /\ (~(J[i] < z) <=> new)
      <4>1. Ring!Least(N - z, m) = IF N - z < m THEN N - z ELSE m
        BY LeastIs
      <4>2. J[i] = IF z + i - 1 < N THEN z + i - 1 ELSE (z + i - 1) - N
        <5>1. J[i] = Wr(N, z + i - 1)
          BY <1>8
        <5>2. QED
          BY <5>1 DEF Wr
      <4>3. QED
        BY <1>3, <1>8, <1>n, <2>1, <4>1, <4>2
    <3>2. QED
      BY <1>5, <3>1
  <2>4. Ring!construct_or_replace(d, new, to, V[i]) = Closed(i)
    BY <1>9, <2>1, <2>2, <2>3, StepWrites
  <2>5. QED
    <3> HIDE DEF Closed
    <3>1. Body(d, i) = Ring!construct_or_replace(d, new, to, V[i])
      BY <1>4, <1>8, <1>n, <2>1 DEF Ring!construct_or_replace
    <3> HIDE DEF Body
    <3>2. QED
      BY <2>1, <2>4, <3>1
<1>13. loop[n] = Closed(n)
  <2> DEFINE g == [i \in 0 .. n |-> Closed(i)]
  <2> HIDE DEF Body, Closed
  <2>1. \A i \in 0 .. n : g[i] = IF i = 0 THEN start ELSE Body(g[i - 1], i)
    <3>1. ASSUME NEW i \in 0 .. n PROVE g[i] = IF i = 0 THEN start ELSE Body(g[i - 1], i)
      <4>1. CASE i = 0
        BY <1>11, <4>1
      <4>2. CASE i # 0
        <5>1. i \in 1 .. n /\ i - 1 \in 0 .. n
          BY <1>n, <4>2
        <5>2. g[i - 1] = Closed(i - 1) /\ g[i] = Closed(i)
          BY <5>1
        <5>3. QED
          BY <1>12, <4>2, <5>1, <5>2
      <4>3. QED
        BY <4>1, <4>2
    <3>2. QED
      BY <3>1
  <2>2. g = F(g)
    <3>1. g = [i \in 0 .. n |-> g[i]]
      OBVIOUS
    <3> HIDE DEF g
    <3>2. QED
      BY <2>1, <3>1
  <2>3. loop = F(loop)
    <3> HIDE DEF F, g
    <3>1. QED
      BY <2>2
  <2> HIDE DEF loop
  <2>4. \A i \in 0 .. n : loop[i] = IF i = 0 THEN start ELSE Body(loop[i - 1], i)
    BY <2>3
  <2>5. GoAlike(loop, g, n)
    <3>1. 0 \in 0 .. n /\ \A i \in 1 .. n : i # 0 /\ i \in 0 .. n
      BY <1>n
    <3> HIDE DEF g, F
    <3>2. QED
      BY <2>1, <2>4, <3>1 DEF GoAlike
  <2>6. loop[n] = g[n] /\ g[n] = Closed(n)
    <3>1. n \in 0 .. n
      BY <1>n
    <3>2. QED
      BY <1>n, <2>5, <3>1, SameLoop
  <2>7. QED
    BY <2>6
<1>14. PICK e, new, put : /\ e = Ring!insert_n(c, z, wanted, x) /\ new = Ring!Least(N - z, m)
                          /\ put = loop[n]
  OBVIOUS
<1>15. e = Ring!Ends(put, Plus(N, f, m - new), Plus(N, l, m), z + new)
  <2>1. n # 0 /\ z = c.size /\ Ring!Least(Ring!reserve(c), n) = new
    BY <1>4, <1>14, <1>n
  <2>2. e = Ring!Ends(put, Ring!add(c, c.first, n - Ring!Least(Ring!reserve(c), n)), Ring!add(c, c.last, n),
                      c.size + Ring!Least(Ring!reserve(c), n))
    BY <1>14, <2>1 DEF Ring!insert_n, Ring!Repeat, n
  <2>3. QED
    BY <1>4, <1>n, <2>1, <2>2
<1>16. put = Rec(N, f, w, f, l, z)
  <2>1. PICK u : u = Written(N, t, J, V, n)
    OBVIOUS
  <2>2. /\ \A i \in 1 .. n : u[J[i]] = V[i]
        /\ \A q \in 0 .. N - 1 : (\A i \in 1 .. n : J[i] # q) => u[q] = t[q]
        /\ u \in [0 .. N - 1 -> Cells]
    <3>1. n \in 0 .. n
      BY <1>n
    <3>2. QED
      BY <1>9, <2>1, <3>1, WrittenIs
  <2>3. ASSUME NEW q \in 0 .. N - 1 PROVE u[q] = w[q]
    <3>1. CASE \E i \in 1 .. n : J[i] = q
      BY <1>6, <1>8, <2>2, <3>1
    <3>2. CASE \A i \in 1 .. n : J[i] # q
      <4>1. ASSUME NEW v \in z .. z + m - 1 PROVE Wr(N, v) # q
        <5>1. v - z + 1 \in 1 .. n /\ z + (v - z + 1) - 1 = v
          BY <1>3, <1>n
        <5>2. QED
          BY <1>8, <3>2, <5>1
      <4>2. QED
        BY <1>6, <2>2, <3>2, <4>1
    <3>3. QED
      BY <3>1, <3>2
  <2>4. w = [q \in 0 .. N - 1 |-> w[q]]
    BY <1>2 DEF Wound
  <2>5. u = w
    BY <2>2, <2>3, <2>4
  <2>6. QED
    BY <1>13, <1>14, <2>1, <2>5
<1>17. /\ z + m > N => Becomes(e, N, Back(Inserted(s, z, m, x), N))
       /\ ~(z + m > N) => Becomes(e, N, Inserted(s, z, m, x))
  <2>1. put = Rec(N, f, Wound(N, Inserted(s, z, m, x)), f, l, z) /\ RoomBehind(N, s, Len(s), z, m, x)
    BY <1>1, <1>2, <1>16, <1>r
  <2>2. QED
    BY <1>1, <1>3, <1>14, <1>15, <2>1, ItemsAreIn
<1>18. QED
  BY <1>1, <1>2, <1>14, <1>17

\* The items from their position on make room for them.
Between(N, f, s, k, x, wanted, m) ==
    /\ Fits(N, f, s) /\ N # 0 /\ k \in 0 .. Len(s) - 1 /\ x \in Values
    /\ f = 0 \/ f >= Plus(N, f, Len(s)) \/ f + Len(s) + m <= N
    /\ wanted \in Nat /\ m = Ring!Least(wanted, N - (Len(s) - k)) /\ m # 0

LEMMA InsertItemsAre ==
    ASSUME NEW N, NEW f, NEW s, NEW k, NEW x, NEW wanted, NEW m, Between(N, f, s, k, x, wanted, m)
    PROVE  /\ Len(s) + m > N => Becomes(Ring!insert_n(At(N, f, s), k, wanted, x), N,
                                        Back(Inserted(s, k, m, x), N))
           /\ ~(Len(s) + m > N) => Becomes(Ring!insert_n(At(N, f, s), k, wanted, x), N,
                                           Inserted(s, k, m, x))
<1>1. PICK z \in Nat : z = Len(s)
  BY DEF Fits, Between
<1>2. PICK c, l, t, w :
        c = At(N, f, s) /\ l = c.last /\ t = Content(N, s) /\ w = Wound(N, Inserted(s, k, m, x))
  OBVIOUS
<1>b. /\ N \in Nat \ {0} /\ f \in 0 .. N - 1 /\ s \in Seq(Values) /\ z \in 1 .. N
      /\ k \in 0 .. z - 1 /\ x \in Values /\ Fits(N, f, s)
  BY <1>1 DEF Fits, Between
<1>a. m \in 1 .. N - (z - k)
  <2>1. m = IF wanted < N - (z - k) THEN wanted ELSE N - (z - k)
    BY <1>1, LeastIs DEF Between
  <2>2. wanted \in Nat /\ m # 0
    BY DEF Between
  <2>3. QED
    BY <1>b, <2>1, <2>2
<1>t. /\ N \in Nat /\ z \in Nat /\ k \in Nat /\ m \in Nat /\ 1 <= m /\ k < z /\ z <= N /\ m <= N
      /\ m + z <= N + k
  BY <1>a, <1>b
<1>3. /\ l = Plus(N, f, z) /\ l \in 0 .. N - 1
      /\ c = Rec(N, f, t, f, l, z) /\ t \in [0 .. N - 1 -> Cells]
  <2>1. /\ c.last = Plus(N, f, Len(s)) /\ c.last \in 0 .. N - 1
        /\ Content(N, s) \in [0 .. N - 1 -> Cells]
        /\ c = Rec(N, f, Content(N, s), f, c.last, Len(s))
    BY <1>2, <1>b, AtIs
  <2>2. QED
    BY <1>1, <1>2, <1>b, <2>1
<1>4. /\ c.first = f /\ c.last = l /\ c.size = z /\ Ring!capacity(c) = N /\ Ring!reserve(c) = N - z
      /\ \A p, i : Ring!add(c, p, i) = Plus(N, p, i) /\ Ring!sub(c, p, i) = Minus(N, p, i)
  BY <1>3, <1>b, Pointers DEF IsRec
<1>5. \A j \in 0 .. N - 1 :
        /\ j < z => t[j] = s[j + 1] /\ s[j + 1] \in Values /\ s[j + 1] # Raw
        /\ ~(j < z) => t[j] = Raw
  BY <1>1, <1>2, <1>b, ContentIs
<1>r. RoomBehind(N, s, z, k, m, x)
  BY <1>1, <1>a, <1>b DEF RoomBehind
<1>6. /\ \A v \in k .. z + m - 1 :
           Wr(N, v) \in 0 .. N - 1 /\ w[Wr(N, v)] = IF v < k + m THEN x ELSE s[v - m + 1]
      /\ \A v, u \in k .. z + m - 1 : Wr(N, v) = Wr(N, u) => v = u
      /\ \A q \in 0 .. N - 1 : (\A v \in k .. z + m - 1 : Wr(N, v) # q) => w[q] = t[q]
  <2>1. \A v \in k .. z + m - 1 :
           Wr(N, v) \in 0 .. N - 1 /\ w[Wr(N, v)] = IF v < k + m THEN x ELSE s[v - m + 1]
    BY <1>2, <1>r, WoundInserted
  <2>2. \A v, u \in k .. z + m - 1 : Wr(N, v) = Wr(N, u) => v = u
    BY <1>r, WoundInserted
  <2>3. \A q \in 0 .. N - 1 : (\A v \in k .. z + m - 1 : Wr(N, v) # q) => w[q] = t[q]
    BY <1>2, <1>r, WoundInserted
  <2>4. QED
    BY <2>1, <2>2, <2>3
\* Whether a slot is free is what the code finds.
<1>f. \A v \in k .. z + m - 1 : Ring!is_uninitialized(c, Plus(N, f, Wr(N, v))) <=> t[Wr(N, v)] = Raw
  <2>1. ASSUME NEW v \in k .. z + m - 1
        PROVE  Ring!is_uninitialized(c, Plus(N, f, Wr(N, v))) <=> ~(Wr(N, v) < z)
    <3>1. f = 0 \/ f >= l \/ f + z + m <= N
      BY <1>1, <1>3 DEF Between
    <3>2. Wr(N, v) \in 0 .. N - 1
      BY <1>6
    <3>3. CASE f = 0 \/ f >= l
      BY <1>3, <1>4, <1>b, <3>2, <3>3, FreeIs
    <3>4. CASE f + z + m <= N
      <4>1. v \in Nat /\ v < z + m /\ m \in Nat \ {0}
        BY <1>t
      <4>2. N \in Nat /\ f \in 0 .. N - 1 /\ z \in 1 .. N /\ l = Plus(N, f, z)
        BY <1>3, <1>b
      <4>3. c.first = f /\ c.last = l
        BY <1>4
      <4>4. PICK p : p = Plus(N, f, Wr(N, v))
        OBVIOUS
      <4>5. Ring!is_uninitialized(c, p) <=> ~(Wr(N, v) < z)
        BY <3>4, <4>1, <4>2, <4>3, <4>4, FreeBehindIs
      <4>6. QED
        BY <4>4, <4>5
    <3>5. QED
      BY <3>1, <3>3, <3>4
  <2>2. \A j \in 0 .. N - 1 : (t[j] = Raw) <=> ~(j < z)
    BY <1>5
  <2>3. \A v \in k .. z + m - 1 : Wr(N, v) \in 0 .. N - 1
    BY <1>6
  <2>4. QED
    BY <2>1, <2>2, <2>3
<1> DEFINE n == c.size - k
           n2 == Ring!Least(wanted, Ring!capacity(c) - (c.size - k))
<1>n. n = z - k /\ n \in Nat /\ n \in 1 .. N /\ n <= z
  BY <1>4, <1>t
<1>n2. n2 = m /\ n2 \in Nat /\ n2 \in 1 .. N /\ n2 <= N - (z - k)
  <2>1. n2 = m
    BY <1>1, <1>4 DEF Between
  <2>2. QED
    BY <1>t, <2>1
<1>7. PICK J, V : J = [i \in 1 .. z - k |-> Wr(N, z + m - i)] /\ V = [i \in 1 .. z - k |-> s[z - i + 1]]
  OBVIOUS
<1> DEFINE start == c
           Body(d, i) == Ring!construct_or_replace(d,
                           Ring!is_uninitialized(c, Ring!sub(c, Ring!add(c, c.last, n2 - 1), i - 1)),
                           Ring!sub(c, Ring!add(c, c.last, n2 - 1), i - 1),
                           Ring!Get(d, Ring!sub(c, c.last, i)))
           Closed(i) == Rec(N, f, Written(N, t, J, V, i), f, l, z)
           F(h) == [i \in 0 .. n |-> IF i = 0 THEN start ELSE Body(h[i - 1], i)]
           loop == CHOOSE h : h = F(h)
<1> HIDE DEF n, n2
<1>8. \A i \in 1 .. n : /\ z + m - i \in k .. z + m - 1 /\ ~(z + m - i < k + m)
                        /\ z - i + 1 \in 1 .. z /\ (z + m - i) - m + 1 = z - i + 1
                        /\ J[i] = Wr(N, z + m - i) /\ V[i] = s[z - i + 1] /\ V[i] \in Values
                        /\ J[i] \in 0 .. N - 1
  <2>1. \A i \in 1 .. n : /\ z + m - i \in k .. z + m - 1 /\ ~(z + m - i < k + m)
                          /\ z - i + 1 \in 1 .. z /\ (z + m - i) - m + 1 = z - i + 1
    BY <1>t, <1>n
  <2>2. \A i \in 1 .. n : J[i] = Wr(N, z + m - i) /\ V[i] = s[z - i + 1]
    BY <1>7, <1>n
  <2>3. \A i \in 1 .. z : s[i] \in Values
    BY <1>1, <1>b
  <2>4. QED
    BY <1>6, <2>1, <2>2, <2>3
<1>9. Plan(N, f, t, n, J, V)
  <2>1. ASSUME NEW i \in 1 .. n, NEW p \in 1 .. n, J[i] = J[p] PROVE i = p
    <3>1. PICK a, b : a = z + m - i /\ b = z + m - p
      OBVIOUS
    <3>2. /\ a \in k .. z + m - 1 /\ b \in k .. z + m - 1
          /\ J[i] = Wr(N, a) /\ J[p] = Wr(N, b)
      BY <1>8, <3>1
    <3>3. a = b
      BY <1>6, <2>1, <3>2
    <3>4. QED
      BY <1>t, <1>n, <3>1, <3>3
  <2>2. QED
    BY <1>3, <1>8, <1>b, <1>n, <2>1 DEF Plan
<1>11. start = Closed(0)
  BY <1>3, <1>9, WrittenNothing
<1>12. ASSUME NEW i \in 1 .. n PROVE Closed(i) = Body(Closed(i - 1), i)
  <2>1. PICK d, to, from, new :
          /\ d = Closed(i - 1) /\ to = Ring!sub(c, Ring!add(c, c.last, n2 - 1), i - 1)
          /\ from = Ring!sub(c, c.last, i)
          /\ new <=> Ring!is_uninitialized(c, to)
    OBVIOUS
  <2>2. PICK y : y = z - i
    OBVIOUS
  <2>3. y \in 0 .. N - 1 /\ y < z /\ z - i + 1 = y + 1 /\ i \in 0 .. N /\ i <= z /\ y \in k .. z + m - 1
    BY <1>t, <1>n, <2>2
  <2>4. to = Plus(N, f, J[i])
    <3>1. /\ n2 - 1 \in 0 .. N /\ z \in 0 .. N /\ z + (n2 - 1) < N + N /\ i - 1 \in 0 .. N
          /\ i - 1 <= z + (n2 - 1) /\ z + (n2 - 1) \in Nat /\ z + (n2 - 1) - (i - 1) = z + m - i
      <4>1. i \in Int /\ 1 <= i /\ i <= z - k
        BY <1>n
      <4>2. n2 - 1 \in 0 .. N /\ z \in 0 .. N /\ i - 1 \in 0 .. N
        BY <1>t, <1>n, <1>n2
      <4>3. z + (n2 - 1) < N + N /\ z + (n2 - 1) \in Nat
        BY <1>t, <1>n2
      <4>4. i - 1 <= z + (n2 - 1)
        BY <1>t, <1>n2, <4>1
      <4>5. z + (n2 - 1) - (i - 1) = z + m - i
        BY <1>t, <1>n2, <4>1
      <4>6. QED
        BY <4>2, <4>3, <4>4, <4>5
    <3>2. Plus(N, Plus(N, f, z), n2 - 1) = Plus(N, f, Wr(N, z + (n2 - 1)))
      BY <1>b, <3>1, Forwards
    <3>3. Minus(N, Plus(N, f, Wr(N, z + (n2 - 1))), i - 1) = Plus(N, f, Wr(N, z + (n2 - 1) - (i - 1)))
      BY <1>b, <3>1, Backwards
    <3>4. to = Minus(N, Plus(N, Plus(N, f, z), n2 - 1), i - 1)
      BY <1>3, <1>4, <2>1
    <3>5. QED
      BY <1>8, <3>1, <3>2, <3>3, <3>4
  <2>5. from = Plus(N, f, y)
    <3>1. from = Minus(N, Plus(N, f, z), i) /\ z \in 0 .. N
      BY <1>3, <1>4, <1>b, <2>1
    <3>2. from = Plus(N, f, Wr(N, z - i))
      BY <1>b, <2>3, <3>1, Rounds
    <3>3. Wr(N, y) = y
      BY <1>b, <2>3 DEF Wr
    <3>4. QED
      BY <2>2, <3>2, <3>3
  <2>6. new <=> t[J[i]] = Raw
    BY <1>8, <1>f, <2>1, <2>4
  <2>7. Ring!Get(d, from) = V[i]
    <3>1. ASSUME NEW q \in 1 .. i - 1 PROVE J[q] # y
      <4>1. PICK v : v = z + m - q
        OBVIOUS
      <4>a. q \in Int /\ i \in Int /\ q < i /\ 1 <= q /\ q <= n
        BY <1>n
      <4>b. v # y
        BY <1>t, <2>2, <4>1, <4>a
      <4>2. q \in 1 .. n /\ v # y /\ Wr(N, y) = y
        BY <1>t, <1>n, <2>3, <4>a, <4>b DEF Wr
      <4>3. J[q] = Wr(N, v) /\ v \in k .. z + m - 1
        BY <1>8, <4>1, <4>2
      <4>4. QED
        BY <1>6, <2>3, <4>2, <4>3
    <3>2. d = Rec(N, f, Written(N, t, J, V, i - 1), f, l, z)
      BY <2>1
    <3>3. Ring!Get(d, from) = t[y]
      BY <1>9, <2>3, <2>5, <3>1, <3>2, StepReads
    <3>4. QED
      BY <1>5, <1>8, <2>3, <3>3
  <2>8. Ring!construct_or_replace(d, new, to, V[i]) = Closed(i)
    BY <1>9, <2>1, <2>4, <2>6, StepWrites
  <2>9. QED
    <3> HIDE DEF Closed
    <3>1. Body(d, i) = Ring!construct_or_replace(d, new, to, V[i])
      BY <2>1, <2>7 DEF Ring!construct_or_replace
    <3> HIDE DEF Body
    <3>2. QED
      BY <2>1, <2>8, <3>1
<1>13. loop[n] = Closed(n)
  <2> DEFINE g == [i \in 0 .. n |-> Closed(i)]
  <2> HIDE DEF Body, Closed
  <2>1. \A i \in 0 .. n : g[i] = IF i = 0 THEN start ELSE Body(g[i - 1], i)
    <3>1. ASSUME NEW i \in 0 .. n PROVE g[i] = IF i = 0 THEN start ELSE Body(g[i - 1], i)
      <4>1. CASE i = 0
        BY <1>11, <4>1
      <4>2. CASE i # 0
        <5>1. i \in 1 .. n /\ i - 1 \in 0 .. n
          BY <1>n, <4>2
        <5>2. g[i - 1] = Closed(i - 1) /\ g[i] = Closed(i)
          BY <5>1
        <5>3. QED
          BY <1>12, <4>2, <5>1, <5>2
      <4>3. QED
        BY <4>1, <4>2
    <3>2. QED
      BY <3>1
  <2>2. g = F(g)
    <3>1. g = [i \in 0 .. n |-> g[i]]
      OBVIOUS
    <3> HIDE DEF g
    <3>2. QED
      BY <2>1, <3>1
  <2>3. loop = F(loop)
    <3> HIDE DEF F, g
    <3>1. QED
      BY <2>2
  <2> HIDE DEF loop
  <2>4. \A i \in 0 .. n : loop[i] = IF i = 0 THEN start ELSE Body(loop[i - 1], i)
    BY <2>3
  <2>5. GoAlike(loop, g, n)
    <3>1. 0 \in 0 .. n /\ \A i \in 1 .. n : i # 0 /\ i \in 0 .. n
      BY <1>n
    <3> HIDE DEF g, F
    <3>2. QED
      BY <2>1, <2>4, <3>1 DEF GoAlike
  <2>6. loop[n] = g[n] /\ g[n] = Closed(n)
    <3>1. n \in 0 .. n
      BY <1>n
    <3>2. QED
      BY <1>n, <2>5, <3>1, SameLoop
  <2>7. QED
    BY <2>6
<1>14. PICK a, u, J2, V2 : /\ a = loop[n] /\ u = Written(N, t, J, V, n)
                            /\ J2 = [i \in 1 .. m |-> Wr(N, k + i - 1)] /\ V2 = [i \in 1 .. m |-> x]
  OBVIOUS
<1>15. /\ a = Rec(N, f, u, f, l, z)
       /\ \A i \in 1 .. n : u[J[i]] = V[i]
       /\ \A j \in 0 .. N - 1 : (\A i \in 1 .. n : J[i] # j) => u[j] = t[j]
       /\ u \in [0 .. N - 1 -> Cells]
  <2>1. n \in 0 .. n
    BY <1>n
  <2>2. QED
    BY <1>9, <1>13, <1>14, <2>1, WrittenIs
<1> DEFINE start2 == loop[n]
           Body2(d, i) == Ring!construct_or_replace(d,
                            Ring!is_uninitialized(c, Ring!add(c, Ring!add(c, c.first, k), i - 1)),
                            Ring!add(c, Ring!add(c, c.first, k), i - 1), x)
           Closed2(i) == Rec(N, f, Written(N, u, J2, V2, i), f, l, z)
           F2(h) == [i \in 0 .. n2 |-> IF i = 0 THEN start2 ELSE Body2(h[i - 1], i)]
           loop2 == CHOOSE h : h = F2(h)
<1> HIDE DEF loop
<1>16. \A i \in 1 .. n2 : /\ k + i - 1 \in k .. z + m - 1 /\ k + i - 1 < k + m
                          /\ J2[i] = Wr(N, k + i - 1) /\ V2[i] = x /\ J2[i] \in 0 .. N - 1
  <2>1. \A i \in 1 .. n2 : k + i - 1 \in k .. z + m - 1 /\ k + i - 1 < k + m
    BY <1>t, <1>n2
  <2>2. \A i \in 1 .. n2 : J2[i] = Wr(N, k + i - 1) /\ V2[i] = x
    BY <1>14, <1>n2
  <2>3. QED
    BY <1>6, <2>1, <2>2
<1>17. Plan(N, f, u, n2, J2, V2)
  <2>1. ASSUME NEW i \in 1 .. n2, NEW p \in 1 .. n2, J2[i] = J2[p] PROVE i = p
    <3>1. PICK e, b : e = k + i - 1 /\ b = k + p - 1
      OBVIOUS
    <3>2. /\ e \in k .. z + m - 1 /\ b \in k .. z + m - 1
          /\ J2[i] = Wr(N, e) /\ J2[p] = Wr(N, b)
      BY <1>16, <3>1
    <3>3. e = b
      BY <1>6, <2>1, <3>2
    <3>4. QED
      BY <1>t, <1>n2, <3>1, <3>3
  <2>2. QED
    BY <1>15, <1>16, <1>b, <1>n2, <2>1 DEF Plan
<1>18. start2 = Closed2(0)
  BY <1>14, <1>15, <1>17, WrittenNothing
\* No item is put in a slot that another was moved to.
<1>o. ASSUME NEW i \in 1 .. n2, NEW p \in 1 .. n PROVE J[p] # J2[i]
  <2>1. PICK e, b : e = k + i - 1 /\ b = z + m - p
    OBVIOUS
  <2>2. /\ e \in k .. z + m - 1 /\ b \in k .. z + m - 1 /\ e < k + m /\ ~(b < k + m)
        /\ J2[i] = Wr(N, e) /\ J[p] = Wr(N, b)
    BY <1>8, <1>16, <2>1
  <2>3. QED
    BY <1>6, <2>2
<1>19. ASSUME NEW i \in 1 .. n2 PROVE Closed2(i) = Body2(Closed2(i - 1), i)
  <2>1. PICK d, to, new :
          /\ d = Closed2(i - 1) /\ to = Ring!add(c, Ring!add(c, c.first, k), i - 1)
          /\ new <=> Ring!is_uninitialized(c, to)
    OBVIOUS
  <2>2. to = Plus(N, f, J2[i])
    <3>1. k \in 0 .. N /\ i - 1 \in 0 .. N /\ k + (i - 1) < N + N /\ k + (i - 1) = k + i - 1
      BY <1>t, <1>n2
    <3>2. Plus(N, Plus(N, f, k), i - 1) = Plus(N, f, Wr(N, k + (i - 1)))
      BY <1>b, <3>1, Forwards
    <3>3. QED
      BY <1>4, <1>16, <2>1, <3>1, <3>2
  <2>3. new <=> u[J2[i]] = Raw
    <3>1. J2[i] \in 0 .. N - 1 /\ u[J2[i]] = t[J2[i]]
      BY <1>15, <1>16, <1>o
    <3>2. QED
      BY <1>16, <1>f, <2>1, <2>2, <3>1
  <2>4. Ring!construct_or_replace(d, new, to, V2[i]) = Closed2(i)
    BY <1>17, <2>1, <2>2, <2>3, StepWrites
  <2>5. QED
    <3> HIDE DEF Closed2
    <3>1. Body2(d, i) = Ring!construct_or_replace(d, new, to, V2[i])
      BY <1>16, <2>1 DEF Ring!construct_or_replace
    <3> HIDE DEF Body2
    <3>2. QED
      BY <2>1, <2>4, <3>1
<1>20. loop2[n2] = Closed2(n2)
  <2> DEFINE g == [i \in 0 .. n2 |-> Closed2(i)]
  <2> HIDE DEF Body2, Closed2
  <2>1. \A i \in 0 .. n2 : g[i] = IF i = 0 THEN start2 ELSE Body2(g[i - 1], i)
    <3>1. ASSUME NEW i \in 0 .. n2 PROVE g[i] = IF i = 0 THEN start2 ELSE Body2(g[i - 1], i)
      <4>1. CASE i = 0
        BY <1>18, <4>1
      <4>2. CASE i # 0
        <5>1. i \in 1 .. n2 /\ i - 1 \in 0 .. n2
          BY <1>n2, <4>2
        <5>2. g[i - 1] = Closed2(i - 1) /\ g[i] = Closed2(i)
          BY <5>1
        <5>3. QED
          BY <1>19, <4>2, <5>1, <5>2
      <4>3. QED
        BY <4>1, <4>2
    <3>2. QED
      BY <3>1
  <2>2. g = F2(g)
    <3>1. g = [i \in 0 .. n2 |-> g[i]]
      OBVIOUS
    <3> HIDE DEF g
    <3>2. QED
      BY <2>1, <3>1
  <2>3. loop2 = F2(loop2)
    <3> HIDE DEF F2, g
    <3>1. QED
      BY <2>2
  <2> HIDE DEF loop2
  <2>4. \A i \in 0 .. n2 : loop2[i] = IF i = 0 THEN start2 ELSE Body2(loop2[i - 1], i)
    BY <2>3
  <2>5. GoAlike(loop2, g, n2)
    <3>1. 0 \in 0 .. n2 /\ \A i \in 1 .. n2 : i # 0 /\ i \in 0 .. n2
      BY <1>n2
    <3> HIDE DEF g, F2
    <3>2. QED
      BY <2>1, <2>4, <3>1 DEF GoAlike
  <2>6. loop2[n2] = g[n2] /\ g[n2] = Closed2(n2)
    <3>1. n2 \in 0 .. n2
      BY <1>n2
    <3>2. QED
      BY <1>n2, <2>5, <3>1, SameLoop
  <2>7. QED
    BY <2>6
<1>21. PICK e, new, put : /\ e = Ring!insert_n(c, k, wanted, x) /\ new = Ring!Least(N - z, m)
                          /\ put = loop2[n2]
  OBVIOUS
<1>22. e = Ring!Ends(put, Plus(N, f, m - new), Plus(N, l, m), z + new)
  <2>1. n2 # 0 /\ k # c.size /\ Ring!Least(Ring!reserve(c), n2) = new
    BY <1>4, <1>21, <1>b, <1>n2
  <2>2. e = Ring!Ends(put, Ring!add(c, c.first, n2 - Ring!Least(Ring!reserve(c), n2)), Ring!add(c, c.last, n2),
                      c.size + Ring!Least(Ring!reserve(c), n2))
    BY <1>21, <2>1 DEF Ring!insert_n, Ring!Repeat, n, n2, loop
  <2>3. QED
    BY <1>4, <1>n2, <2>1, <2>2
<1>23. put = Rec(N, f, w, f, l, z)
  <2>1. PICK y : y = Written(N, u, J2, V2, n2)
    OBVIOUS
  <2>2. /\ \A i \in 1 .. n2 : y[J2[i]] = V2[i]
        /\ \A q \in 0 .. N - 1 : (\A i \in 1 .. n2 : J2[i] # q) => y[q] = u[q]
        /\ y \in [0 .. N - 1 -> Cells]
    <3>1. n2 \in 0 .. n2
      BY <1>n2
    <3>2. QED
      BY <1>17, <2>1, <3>1, WrittenIs
  <2>3. ASSUME NEW q \in 0 .. N - 1 PROVE y[q] = w[q]
    <3>1. CASE \E i \in 1 .. n2 : J2[i] = q
      BY <1>6, <1>16, <2>2, <3>1
    <3>2. CASE (\A i \in 1 .. n2 : J2[i] # q) /\ \E i \in 1 .. n : J[i] = q
      <4>1. PICK i \in 1 .. n : J[i] = q
        BY <3>2
      <4>2. PICK v : v = z + m - i
        OBVIOUS
      <4>3. /\ v \in k .. z + m - 1 /\ ~(v < k + m) /\ v - m + 1 = z - i + 1
            /\ J[i] = Wr(N, v) /\ V[i] = s[z - i + 1]
        BY <1>8, <4>2
      <4>4. y[q] = V[i]
        BY <1>15, <2>2, <3>2, <4>1
      <4>5. w[q] = s[v - m + 1]
        BY <1>6, <4>1, <4>3
      <4>6. QED
        BY <4>3, <4>4, <4>5
    <3>3. CASE (\A i \in 1 .. n2 : J2[i] # q) /\ \A i \in 1 .. n : J[i] # q
      <4>1. ASSUME NEW v \in k .. z + m - 1 PROVE Wr(N, v) # q
        <5>a. v \in Int /\ k <= v /\ v < z + m
          BY <1>t
        <5>1. CASE v < k + m
          <6>1. v - k + 1 \in 1 .. n2 /\ k + (v - k + 1) - 1 = v
            BY <1>t, <1>n2, <5>a, <5>1
          <6>2. QED
            BY <1>16, <3>3, <6>1
        <5>2. CASE ~(v < k + m)
          <6>1. PICK i : i = z + m - v
            OBVIOUS
          <6>2. i \in Int /\ 1 <= i /\ i <= z - k
            BY <1>t, <5>a, <5>2, <6>1
          <6>3. z + m - i = v
            BY <1>t, <5>a, <6>1
          <6>4. i \in 1 .. n
            BY <1>n, <6>2
          <6>5. QED
            BY <1>8, <3>3, <6>3, <6>4
        <5>3. QED
          BY <5>1, <5>2
      <4>2. w[q] = t[q]
        BY <1>6, <4>1
      <4>3. QED
        BY <1>15, <2>2, <3>3, <4>2
    <3>4. QED
      BY <3>1, <3>2, <3>3
  <2>4. w = [q \in 0 .. N - 1 |-> w[q]]
    BY <1>2 DEF Wound
  <2>5. y = w
    BY <2>2, <2>3, <2>4
  <2>6. QED
    BY <1>20, <1>21, <2>1, <2>5
<1>24. /\ z + m > N => Becomes(e, N, Back(Inserted(s, k, m, x), N))
       /\ ~(z + m > N) => Becomes(e, N, Inserted(s, k, m, x))
  <2>1. put = Rec(N, f, Wound(N, Inserted(s, k, m, x)), f, l, z) /\ RoomBehind(N, s, Len(s), k, m, x)
    BY <1>1, <1>2, <1>23, <1>r
  <2>2. QED
    BY <1>1, <1>3, <1>b, <1>21, <1>22, <2>1, ItemsAreIn
<1>25. QED
  BY <1>1, <1>2, <1>21, <1>24

----------------------------------------------------------------------------
(* rinsert() of n items *)

LEMMA Onwards ==
    ASSUME NEW N \in Nat, NEW f \in 0 .. N - 1, NEW e \in Nat, NEW i \in 0 .. N, e + i < N + N
    PROVE  Plus(N, Plus(N, f, Wr(N, e)), i) = Plus(N, f, Wr(N, e + i))
<1>1. PICK a : a = Wr(N, e)
  OBVIOUS
<1>2. a \in 0 .. N /\ a + i < N + N /\ Wr(N, a + i) = Wr(N, e + i)
  BY <1>1 DEF Wr
<1>3. Plus(N, Plus(N, f, a), i) = Plus(N, f, Wr(N, a + i))
  BY <1>2, Forwards
<1>4. QED
  BY <1>1, <1>2, <1>3

LEMMA ItemsAreInFront ==
    ASSUME NEW N, NEW f, NEW s, Fits(N, f, s), N # 0, NEW k, NEW m, NEW x,
           RoomBefore(N, s, Len(s), k, m, x),
           NEW l, l = Plus(N, f, Len(s)), NEW z, z = Len(s), NEW put,
           put = Rec(N, f, Unwound(N, Inserted(s, k, m, x), m), f, l, z),
           NEW new, new = Ring!Least(N - z, m),
           NEW c, c = Ring!Ends(put, Minus(N, f, m), Minus(N, l, m - new), z + new)
    PROVE  /\ z + m > N => Becomes(c, N, Front(Inserted(s, k, m, x), N))
           /\ ~(z + m > N) => Becomes(c, N, Inserted(s, k, m, x))
<1>1. /\ N \in Nat \ {0} /\ f \in 0 .. N - 1 /\ z \in 0 .. N /\ s \in Seq(Values) /\ m \in 0 .. N
      /\ k \in 0 .. Len(s) /\ x \in Values
  BY DEF Fits, RoomBefore
<1>2. PICK r : r = Inserted(s, k, m, x)
  OBVIOUS
<1>3. r \in Seq(Values) /\ Len(r) = z + m
  BY <1>1, <1>2, Lists
<1>4. /\ z + m > N => Becomes(Ring!Ends(put, Minus(N, f, m), Minus(N, Plus(N, f, z), z + m - N), N), N, Front(r, N))
      /\ ~(z + m > N) => Becomes(Ring!Ends(put, Minus(N, f, m), Plus(N, f, z), z + m), N, r)
  <2>1. put = Rec(N, f, Unwound(N, r, m), f, l, z)
    BY <1>2
  <2>2. QED
    BY <1>1, <1>3, <2>1, UnwoundIs
<1>i. new = IF N - z < m THEN N - z ELSE m
  BY LeastIs
<1>5. z + m > N => m - new = z + m - N /\ z + new = N
  BY <1>1, <1>i
<1>6. ~(z + m > N) => Minus(N, l, m - new) = l /\ z + new = z + m
  <2>1. l \in Nat
    BY <1>1 DEF Plus
  <2>2. ~(z + m > N) => m - new = 0 /\ new = m
    BY <1>1, <1>i
  <2>3. Minus(N, l, 0) = l
    BY <2>1 DEF Minus
  <2>4. QED
    BY <2>2, <2>3
<1>7. QED
  BY <1>2, <1>4, <1>5, <1>6

\* The items are put before the others.
Ahead(N, f, s, x, wanted, m) ==
    /\ Fits(N, f, s) /\ N # 0 /\ x \in Values
    /\ wanted \in Nat /\ m = Ring!Least(wanted, N) /\ m # 0

LEMMA PrependItemsAre ==
    ASSUME NEW N, NEW f, NEW s, NEW x, NEW wanted, NEW m, Ahead(N, f, s, x, wanted, m)
    PROVE  /\ Len(s) + m > N => Becomes(Ring!rinsert_n(At(N, f, s), 0, wanted, x), N,
                                        Front(Inserted(s, 0, m, x), N))
           /\ ~(Len(s) + m > N) => Becomes(Ring!rinsert_n(At(N, f, s), 0, wanted, x), N,
                                           Inserted(s, 0, m, x))
<1>1. PICK z \in Nat : z = Len(s)
  BY DEF Fits, Ahead
<1>2. PICK c, l, t, w, first :
        /\ c = At(N, f, s) /\ l = c.last /\ t = Content(N, s)
        /\ w = Unwound(N, Inserted(s, 0, m, x), m) /\ first = Minus(N, f, m)
  OBVIOUS
<1>b. /\ N \in Nat \ {0} /\ f \in 0 .. N - 1 /\ s \in Seq(Values) /\ z \in 0 .. N
      /\ x \in Values /\ Fits(N, f, s) /\ N # 0
  BY <1>1 DEF Fits, Ahead
<1>a. m \in 1 .. N
  <2>1. m = IF wanted < N THEN wanted ELSE N
    BY <1>1, LeastIs DEF Ahead
  <2>2. wanted \in Nat /\ m # 0
    BY DEF Ahead
  <2>3. QED
    BY <1>b, <2>1, <2>2
<1>t. N \in Nat /\ z \in Nat /\ m \in Nat /\ 1 <= m /\ z <= N /\ m <= N
  BY <1>a, <1>b
<1>3. /\ l = Plus(N, f, z) /\ l \in 0 .. N - 1
      /\ c = Rec(N, f, t, f, l, z) /\ t \in [0 .. N - 1 -> Cells]
  <2>1. /\ c.last = Plus(N, f, Len(s)) /\ c.last \in 0 .. N - 1
        /\ Content(N, s) \in [0 .. N - 1 -> Cells]
        /\ c = Rec(N, f, Content(N, s), f, c.last, Len(s))
    <3>1. c = At(N, f, s) /\ Fits(N, f, s) /\ N # 0
      BY <1>2, <1>b
    <3>2. QED
      BY <3>1, AtIs
  <2>2. QED
    BY <1>1, <1>2, <1>b, <2>1
<1>4. /\ c.first = f /\ c.last = l /\ c.size = z /\ Ring!capacity(c) = N /\ Ring!reserve(c) = N - z
      /\ \A p, i : Ring!add(c, p, i) = Plus(N, p, i) /\ Ring!sub(c, p, i) = Minus(N, p, i)
  BY <1>3, <1>b, Pointers DEF IsRec
<1>5. \A j \in 0 .. N - 1 :
        /\ j < z => t[j] = s[j + 1] /\ s[j + 1] \in Values /\ s[j + 1] # Raw
        /\ ~(j < z) => t[j] = Raw
  BY <1>1, <1>2, <1>b, ContentIs
<1>r. RoomBefore(N, s, z, 0, m, x)
  BY <1>1, <1>a, <1>b DEF RoomBefore
<1>6. /\ \A v \in 0 .. m - 1 : Wr(N, N - m + v) \in 0 .. N - 1 /\ w[Wr(N, N - m + v)] = x
      /\ \A v, u \in 0 .. m - 1 : Wr(N, N - m + v) = Wr(N, N - m + u) => v = u
      /\ \A q \in 0 .. N - 1 : (\A v \in 0 .. m - 1 : Wr(N, N - m + v) # q) => w[q] = t[q]
  <2>1. \A v \in 0 .. 0 + m - 1 :
           Wr(N, N - m + v) \in 0 .. N - 1 /\ w[Wr(N, N - m + v)] = IF v < 0 THEN s[v + 1] ELSE x
    BY <1>2, <1>r, UnwoundInserted
  <2>2. \A v, u \in 0 .. 0 + m - 1 : Wr(N, N - m + v) = Wr(N, N - m + u) => v = u
    BY <1>r, UnwoundInserted
  <2>3. \A q \in 0 .. N - 1 : (\A v \in 0 .. 0 + m - 1 : Wr(N, N - m + v) # q) => w[q] = t[q]
    BY <1>2, <1>r, UnwoundInserted
  <2>4. 0 + m - 1 = m - 1 /\ \A v \in 0 .. m - 1 : ~(v < 0)
    BY <1>t
  <2>5. QED
    BY <2>1, <2>2, <2>3, <2>4
<1> DEFINE n == Ring!Least(wanted, Ring!capacity(c) - 0)
<1>n. n = m /\ n \in Nat /\ n \in 1 .. N
  <2>1. n = m
    <3>1. Ring!capacity(c) - 0 = N
      BY <1>4, <1>t
    <3>2. QED
      BY <3>1 DEF Ahead
  <2>2. QED
    BY <1>a, <1>t, <2>1
<1>7. PICK J, V : J = [i \in 1 .. m |-> Wr(N, N - m + (i - 1))] /\ V = [i \in 1 .. m |-> x]
  OBVIOUS
<1> DEFINE start == c
           Body(d, i) == Ring!construct_or_replace(d, i > n - Ring!Least(Ring!reserve(c), n),
                                                   Ring!add(c, Ring!sub(c, c.first, n), i - 1), x)
           Closed(i) == Rec(N, f, Written(N, t, J, V, i), f, l, z)
           F(h) == [i \in 0 .. n |-> IF i = 0 THEN start ELSE Body(h[i - 1], i)]
           loop == CHOOSE h : h = F(h)
<1> HIDE DEF n
<1>8. \A i \in 1 .. n : /\ i - 1 \in 0 .. m - 1 /\ J[i] = Wr(N, N - m + (i - 1)) /\ V[i] = x
                        /\ J[i] \in 0 .. N - 1
  <2>1. \A i \in 1 .. n : i - 1 \in 0 .. m - 1 /\ J[i] = Wr(N, N - m + (i - 1)) /\ V[i] = x
    BY <1>7, <1>n, <1>t
  <2>2. QED
    BY <1>6, <2>1
<1>9. Plan(N, f, t, n, J, V)
  <2>1. ASSUME NEW i \in 1 .. n, NEW p \in 1 .. n, J[i] = J[p] PROVE i = p
    <3>1. PICK a, b : a = i - 1 /\ b = p - 1
      OBVIOUS
    <3>2. /\ a \in 0 .. m - 1 /\ b \in 0 .. m - 1
          /\ J[i] = Wr(N, N - m + a) /\ J[p] = Wr(N, N - m + b)
      BY <1>8, <3>1
    <3>3. a = b
      BY <1>6, <2>1, <3>2
    <3>4. QED
      BY <1>n, <3>1, <3>3
  <2>2. QED
    BY <1>3, <1>8, <1>b, <1>n, <2>1 DEF Plan
<1>11. start = Closed(0)
  BY <1>3, <1>9, WrittenNothing
<1>12. ASSUME NEW i \in 1 .. n PROVE Closed(i) = Body(Closed(i - 1), i)
  <2>1. PICK d, to, new : /\ d = Closed(i - 1) /\ to = Ring!add(c, first, i - 1)
                          /\ new <=> i > m - Ring!Least(N - z, m)
    OBVIOUS
  <2>2. to = Plus(N, f, J[i])
    <3>1. /\ i - 1 \in 0 .. N /\ N - m \in 0 .. N /\ N - m + (i - 1) < N + N
      BY <1>n, <1>t
    <3>2. first = Plus(N, f, N - m)
      BY <1>2, <1>b, <1>t DEF Plus, Minus
    <3>3. Plus(N, Plus(N, f, N - m), i - 1) = Plus(N, f, Wr(N, N - m + (i - 1)))
      BY <1>b, <3>1, Forwards
    <3>4. QED
      BY <1>4, <1>8, <2>1, <3>2, <3>3
  <2>3. new <=> t[J[i]] = Raw
    <3>1. J[i] \in 0 .. N - 1 /\ (~(J[i] < z) <=> new)
      <4>1. Ring!Least(N - z, m) = IF N - z < m THEN N - z ELSE m
        BY LeastIs
      <4>2. J[i] = Wr(N, N - m + (i - 1)) /\ J[i] \in 0 .. N - 1
        BY <1>8
      <4>3. J[i] = N - m + (i - 1)
        BY <1>n, <1>t, <4>2 DEF Wr
      <4>4. i \in Int /\ 1 <= i /\ i <= m
        BY <1>n
      <4>5. QED
        BY <1>t, <2>1, <4>1, <4>2, <4>3, <4>4
    <3>2. QED
      BY <1>5, <3>1
  <2>4. Ring!construct_or_replace(d, new, to, V[i]) = Closed(i)
    BY <1>9, <2>1, <2>2, <2>3, StepWrites
  <2>5. QED
    <3> HIDE DEF Closed
    <3>1. Body(d, i) = Ring!construct_or_replace(d, new, to, V[i])
      BY <1>2, <1>4, <1>8, <1>n, <2>1 DEF Ring!construct_or_replace
    <3> HIDE DEF Body
    <3>2. QED
      BY <2>1, <2>4, <3>1
<1>13. loop[n] = Closed(n)
  <2> DEFINE g == [i \in 0 .. n |-> Closed(i)]
  <2> HIDE DEF Body, Closed
  <2>1. \A i \in 0 .. n : g[i] = IF i = 0 THEN start ELSE Body(g[i - 1], i)
    <3>1. ASSUME NEW i \in 0 .. n PROVE g[i] = IF i = 0 THEN start ELSE Body(g[i - 1], i)
      <4>1. CASE i = 0
        BY <1>11, <4>1
      <4>2. CASE i # 0
        <5>1. i \in 1 .. n /\ i - 1 \in 0 .. n
          BY <1>n, <4>2
        <5>2. g[i - 1] = Closed(i - 1) /\ g[i] = Closed(i)
          BY <5>1
        <5>3. QED
          BY <1>12, <4>2, <5>1, <5>2
      <4>3. QED
        BY <4>1, <4>2
    <3>2. QED
      BY <3>1
  <2>2. g = F(g)
    <3>1. g = [i \in 0 .. n |-> g[i]]
      OBVIOUS
    <3> HIDE DEF g
    <3>2. QED
      BY <2>1, <3>1
  <2>3. loop = F(loop)
    <3> HIDE DEF F, g
    <3>1. QED
      BY <2>2
  <2> HIDE DEF loop
  <2>4. \A i \in 0 .. n : loop[i] = IF i = 0 THEN start ELSE Body(loop[i - 1], i)
    BY <2>3
  <2>5. GoAlike(loop, g, n)
    <3>1. 0 \in 0 .. n /\ \A i \in 1 .. n : i # 0 /\ i \in 0 .. n
      BY <1>n
    <3> HIDE DEF g, F
    <3>2. QED
      BY <2>1, <2>4, <3>1 DEF GoAlike
  <2>6. loop[n] = g[n] /\ g[n] = Closed(n)
    <3>1. n \in 0 .. n
      BY <1>n
    <3>2. QED
      BY <1>n, <2>5, <3>1, SameLoop
  <2>7. QED
    BY <2>6
<1>14. PICK e, new, put : /\ e = Ring!rinsert_n(c, 0, wanted, x) /\ new = Ring!Least(N - z, m)
                          /\ put = loop[n]
  OBVIOUS
<1>15. e = Ring!Ends(put, Minus(N, f, m), Minus(N, l, m - new), z + new)
  <2>1. n # 0 /\ Ring!Least(Ring!reserve(c), n) = new
    BY <1>4, <1>14, <1>n
  <2>2. e = Ring!Ends(put, Ring!sub(c, c.first, n), Ring!sub(c, c.last, n - Ring!Least(Ring!reserve(c), n)),
                      c.size + Ring!Least(Ring!reserve(c), n))
    BY <1>14, <2>1 DEF Ring!rinsert_n, Ring!Repeat, n
  <2>3. QED
    BY <1>4, <1>n, <2>1, <2>2
<1>16. put = Rec(N, f, w, f, l, z)
  <2>1. PICK u : u = Written(N, t, J, V, n)
    OBVIOUS
  <2>2. /\ \A i \in 1 .. n : u[J[i]] = V[i]
        /\ \A q \in 0 .. N - 1 : (\A i \in 1 .. n : J[i] # q) => u[q] = t[q]
        /\ u \in [0 .. N - 1 -> Cells]
    <3>1. n \in 0 .. n
      BY <1>n
    <3>2. QED
      BY <1>9, <2>1, <3>1, WrittenIs
  <2>3. ASSUME NEW q \in 0 .. N - 1 PROVE u[q] = w[q]
    <3>1. CASE \E i \in 1 .. n : J[i] = q
      BY <1>6, <1>8, <2>2, <3>1
    <3>2. CASE \A i \in 1 .. n : J[i] # q
      <4>1. ASSUME NEW v \in 0 .. m - 1 PROVE Wr(N, N - m + v) # q
        <5>1. v + 1 \in 1 .. n /\ v + 1 - 1 = v
          BY <1>n, <1>t
        <5>2. QED
          BY <1>8, <3>2, <5>1
      <4>2. QED
        BY <1>6, <2>2, <3>2, <4>1
    <3>3. QED
      BY <3>1, <3>2
  <2>4. w = [q \in 0 .. N - 1 |-> w[q]]
    BY <1>2 DEF Unwound
  <2>5. u = w
    BY <2>2, <2>3, <2>4
  <2>6. QED
    BY <1>13, <1>14, <2>1, <2>5
<1>17. /\ z + m > N => Becomes(e, N, Front(Inserted(s, 0, m, x), N))
       /\ ~(z + m > N) => Becomes(e, N, Inserted(s, 0, m, x))
  <2>1. put = Rec(N, f, Unwound(N, Inserted(s, 0, m, x), m), f, l, z) /\ RoomBefore(N, s, Len(s), 0, m, x)
    BY <1>1, <1>2, <1>16, <1>r
  <2>2. QED
    BY <1>1, <1>3, <1>b, <1>14, <1>15, <2>1, ItemsAreInFront
<1>18. QED
  BY <1>1, <1>2, <1>14, <1>17

\* The items before their position make room for them.
Before(N, f, s, k, x, wanted, m) ==
    /\ Fits(N, f, s) /\ N # 0 /\ k \in 1 .. Len(s) /\ x \in Values
    /\ f = 0 \/ f >= Plus(N, f, Len(s))
    /\ wanted \in Nat /\ m = Ring!Least(wanted, N - k) /\ m # 0

LEMMA RinsertItemsAre ==
    ASSUME NEW N, NEW f, NEW s, NEW k, NEW x, NEW wanted, NEW m, Before(N, f, s, k, x, wanted, m)
    PROVE  /\ Len(s) + m > N => Becomes(Ring!rinsert_n(At(N, f, s), k, wanted, x), N,
                                        Front(Inserted(s, k, m, x), N))
           /\ ~(Len(s) + m > N) => Becomes(Ring!rinsert_n(At(N, f, s), k, wanted, x), N,
                                           Inserted(s, k, m, x))
<1>1. PICK z \in Nat : z = Len(s)
  BY DEF Fits, Before
<1>2. PICK c, l, t, w, first :
        /\ c = At(N, f, s) /\ l = c.last /\ t = Content(N, s)
        /\ w = Unwound(N, Inserted(s, k, m, x), m) /\ first = Minus(N, f, m)
  OBVIOUS
<1>b. /\ N \in Nat \ {0} /\ f \in 0 .. N - 1 /\ s \in Seq(Values) /\ z \in 1 .. N
      /\ k \in 1 .. z /\ x \in Values /\ Fits(N, f, s)
  BY <1>1 DEF Fits, Before
<1>a. m \in 1 .. N - k
  <2>1. m = IF wanted < N - k THEN wanted ELSE N - k
    BY <1>1, LeastIs DEF Before
  <2>2. wanted \in Nat /\ m # 0
    BY DEF Before
  <2>3. QED
    BY <1>b, <2>1, <2>2
<1>t. /\ N \in Nat /\ z \in Nat /\ k \in Nat /\ m \in Nat /\ 1 <= m /\ 1 <= k /\ k <= z /\ z <= N
      /\ m + k <= N
  BY <1>a, <1>b
<1>3. /\ l = Plus(N, f, z) /\ l \in 0 .. N - 1
      /\ c = Rec(N, f, t, f, l, z) /\ t \in [0 .. N - 1 -> Cells]
  <2>1. /\ c.last = Plus(N, f, Len(s)) /\ c.last \in 0 .. N - 1
        /\ Content(N, s) \in [0 .. N - 1 -> Cells]
        /\ c = Rec(N, f, Content(N, s), f, c.last, Len(s))
    <3>1. c = At(N, f, s) /\ Fits(N, f, s) /\ N # 0
      BY <1>2, <1>b
    <3>2. QED
      BY <3>1, AtIs
  <2>2. QED
    BY <1>1, <1>2, <1>b, <2>1
<1>4. /\ c.first = f /\ c.last = l /\ c.size = z /\ Ring!capacity(c) = N /\ Ring!reserve(c) = N - z
      /\ \A p, i : Ring!add(c, p, i) = Plus(N, p, i) /\ Ring!sub(c, p, i) = Minus(N, p, i)
  BY <1>3, <1>b, Pointers DEF IsRec
<1>5. \A j \in 0 .. N - 1 :
        /\ j < z => t[j] = s[j + 1] /\ s[j + 1] \in Values /\ s[j + 1] # Raw
        /\ ~(j < z) => t[j] = Raw
  BY <1>1, <1>2, <1>b, ContentIs
<1>r. RoomBefore(N, s, z, k, m, x)
  BY <1>1, <1>a, <1>b DEF RoomBefore
<1>6. /\ \A v \in 0 .. k + m - 1 :
           Wr(N, N - m + v) \in 0 .. N - 1 /\ w[Wr(N, N - m + v)] = IF v < k THEN s[v + 1] ELSE x
      /\ \A v, u \in 0 .. k + m - 1 : Wr(N, N - m + v) = Wr(N, N - m + u) => v = u
      /\ \A q \in 0 .. N - 1 : (\A v \in 0 .. k + m - 1 : Wr(N, N - m + v) # q) => w[q] = t[q]
  <2>1. \A v \in 0 .. k + m - 1 :
           Wr(N, N - m + v) \in 0 .. N - 1 /\ w[Wr(N, N - m + v)] = IF v < k THEN s[v + 1] ELSE x
    BY <1>2, <1>r, UnwoundInserted
  <2>2. \A v, u \in 0 .. k + m - 1 : Wr(N, N - m + v) = Wr(N, N - m + u) => v = u
    BY <1>r, UnwoundInserted
  <2>3. \A q \in 0 .. N - 1 : (\A v \in 0 .. k + m - 1 : Wr(N, N - m + v) # q) => w[q] = t[q]
    BY <1>2, <1>r, UnwoundInserted
  <2>4. QED
    BY <2>1, <2>2, <2>3
\* Whether a slot is free is what the code finds.
<1>f. \A j \in 0 .. N - 1 : Ring!is_uninitialized(c, Plus(N, f, j)) <=> t[j] = Raw
  <2>1. ASSUME NEW j \in 0 .. N - 1
        PROVE  Ring!is_uninitialized(c, Plus(N, f, j)) <=> ~(j < z)
    <3>1. f = 0 \/ f >= l
      BY <1>1, <1>3 DEF Before
    <3>2. QED
      BY <1>3, <1>4, <1>b, <3>1, FreeIs
  <2>2. QED
    BY <1>5, <2>1
<1>g. first = Plus(N, f, Wr(N, N - m))
  BY <1>2, <1>b, <1>t DEF Plus, Minus, Wr
<1> DEFINE n == k
           n2 == Ring!Least(wanted, Ring!capacity(c) - k)
<1>n. n = k /\ n \in Nat /\ n \in 1 .. N /\ n <= z
  BY <1>t
<1>n2. n2 = m /\ n2 \in Nat /\ n2 \in 1 .. N /\ n2 <= N - k
  <2>1. n2 = m
    BY <1>1, <1>4 DEF Before
  <2>2. QED
    BY <1>t, <2>1
<1>7. PICK J, V : J = [i \in 1 .. k |-> Wr(N, N - m + (i - 1))] /\ V = [i \in 1 .. k |-> s[i]]
  OBVIOUS
<1> DEFINE start == c
           Body(d, i) == Ring!construct_or_replace(d,
                           Ring!is_uninitialized(c, Ring!add(c, Ring!sub(c, c.first, n2), i - 1)),
                           Ring!add(c, Ring!sub(c, c.first, n2), i - 1),
                           Ring!Get(d, Ring!add(c, c.first, i - 1)))
           Closed(i) == Rec(N, f, Written(N, t, J, V, i), f, l, z)
           F(h) == [i \in 0 .. n |-> IF i = 0 THEN start ELSE Body(h[i - 1], i)]
           loop == CHOOSE h : h = F(h)
<1> HIDE DEF n, n2
<1>8. \A i \in 1 .. n : /\ i - 1 \in 0 .. k + m - 1 /\ i - 1 < k /\ (i - 1) + 1 = i
                        /\ J[i] = Wr(N, N - m + (i - 1)) /\ V[i] = s[i] /\ V[i] \in Values
                        /\ J[i] \in 0 .. N - 1
  <2>1. \A i \in 1 .. n : i - 1 \in 0 .. k + m - 1 /\ i - 1 < k /\ (i - 1) + 1 = i /\ i \in 1 .. z
    BY <1>t, <1>n
  <2>2. \A i \in 1 .. n : J[i] = Wr(N, N - m + (i - 1)) /\ V[i] = s[i]
    BY <1>7, <1>n
  <2>3. \A i \in 1 .. z : s[i] \in Values
    BY <1>1, <1>b
  <2>4. QED
    BY <1>6, <2>1, <2>2, <2>3
<1>9. Plan(N, f, t, n, J, V)
  <2>1. ASSUME NEW i \in 1 .. n, NEW p \in 1 .. n, J[i] = J[p] PROVE i = p
    <3>1. PICK a, b : a = i - 1 /\ b = p - 1
      OBVIOUS
    <3>2. /\ a \in 0 .. k + m - 1 /\ b \in 0 .. k + m - 1
          /\ J[i] = Wr(N, N - m + a) /\ J[p] = Wr(N, N - m + b)
      BY <1>8, <3>1
    <3>3. a = b
      BY <1>6, <2>1, <3>2
    <3>4. QED
      BY <1>n, <3>1, <3>3
  <2>2. QED
    BY <1>3, <1>8, <1>b, <1>n, <2>1 DEF Plan
<1>11. start = Closed(0)
  BY <1>3, <1>9, WrittenNothing
<1>12. ASSUME NEW i \in 1 .. n PROVE Closed(i) = Body(Closed(i - 1), i)
  <2>1. PICK d, to, from, new :
          /\ d = Closed(i - 1) /\ to = Ring!add(c, Ring!sub(c, c.first, n2), i - 1)
          /\ from = Ring!add(c, c.first, i - 1)
          /\ new <=> Ring!is_uninitialized(c, to)
    OBVIOUS
  <2>2. PICK y : y = i - 1
    OBVIOUS
  <2>3. y \in 0 .. N - 1 /\ y < z /\ y + 1 = i /\ y \in 0 .. N
    BY <1>t, <1>n, <2>2
  <2>4. to = Plus(N, f, J[i])
    <3>1. N - m \in Nat /\ i - 1 \in 0 .. N /\ N - m + (i - 1) < N + N
      BY <1>t, <1>n
    <3>2. Plus(N, Plus(N, f, Wr(N, N - m)), i - 1) = Plus(N, f, Wr(N, N - m + (i - 1)))
      BY <1>b, <3>1, Onwards
    <3>3. to = Plus(N, first, i - 1)
      BY <1>2, <1>4, <1>n2, <2>1
    <3>4. QED
      BY <1>8, <1>g, <3>2, <3>3
  <2>5. from = Plus(N, f, y)
    BY <1>4, <2>1, <2>2
  <2>6. new <=> t[J[i]] = Raw
    BY <1>8, <1>f, <2>1, <2>4
  <2>7. Ring!Get(d, from) = V[i]
    <3>1. ASSUME NEW q \in 1 .. i - 1 PROVE J[q] # y
      <4>1. PICK v : v = q - 1
        OBVIOUS
      <4>a. q \in Int /\ i \in Int /\ q < i /\ 1 <= q /\ q <= n /\ i <= n
        BY <1>n
      <4>b. /\ v \in 0 .. k + m - 1 /\ J[q] = Wr(N, N - m + v)
        BY <1>8, <4>1, <4>a
      <4>2. J[q] = IF v < m THEN N - m + v ELSE v - m
        BY <1>t, <4>1, <4>a, <4>b DEF Wr
      <4>3. y < N - m + v /\ ~(y <= v - m)
        BY <1>t, <1>n, <2>2, <4>1, <4>a
      <4>4. QED
        BY <1>t, <2>2, <4>2, <4>3, <4>1, <4>a
    <3>2. d = Rec(N, f, Written(N, t, J, V, i - 1), f, l, z)
      BY <2>1
    <3>3. Ring!Get(d, from) = t[y]
      BY <1>9, <2>3, <2>5, <3>1, <3>2, StepReads
    <3>4. QED
      BY <1>5, <1>8, <2>3, <3>3
  <2>8. Ring!construct_or_replace(d, new, to, V[i]) = Closed(i)
    BY <1>9, <2>1, <2>4, <2>6, StepWrites
  <2>9. QED
    <3> HIDE DEF Closed
    <3>1. Body(d, i) = Ring!construct_or_replace(d, new, to, V[i])
      BY <2>1, <2>7 DEF Ring!construct_or_replace
    <3> HIDE DEF Body
    <3>2. QED
      BY <2>1, <2>8, <3>1
<1>13. loop[n] = Closed(n)
  <2> DEFINE g == [i \in 0 .. n |-> Closed(i)]
  <2> HIDE DEF Body, Closed
  <2>1. \A i \in 0 .. n : g[i] = IF i = 0 THEN start ELSE Body(g[i - 1], i)
    <3>1. ASSUME NEW i \in 0 .. n PROVE g[i] = IF i = 0 THEN start ELSE Body(g[i - 1], i)
      <4>1. CASE i = 0
        BY <1>11, <4>1
      <4>2. CASE i # 0
        <5>1. i \in 1 .. n /\ i - 1 \in 0 .. n
          BY <1>n, <4>2
        <5>2. g[i - 1] = Closed(i - 1) /\ g[i] = Closed(i)
          BY <5>1
        <5>3. QED
          BY <1>12, <4>2, <5>1, <5>2
      <4>3. QED
        BY <4>1, <4>2
    <3>2. QED
      BY <3>1
  <2>2. g = F(g)
    <3>1. g = [i \in 0 .. n |-> g[i]]
      OBVIOUS
    <3> HIDE DEF g
    <3>2. QED
      BY <2>1, <3>1
  <2>3. loop = F(loop)
    <3> HIDE DEF F, g
    <3>1. QED
      BY <2>2
  <2> HIDE DEF loop
  <2>4. \A i \in 0 .. n : loop[i] = IF i = 0 THEN start ELSE Body(loop[i - 1], i)
    BY <2>3
  <2>5. GoAlike(loop, g, n)
    <3>1. 0 \in 0 .. n /\ \A i \in 1 .. n : i # 0 /\ i \in 0 .. n
      BY <1>n
    <3> HIDE DEF g, F
    <3>2. QED
      BY <2>1, <2>4, <3>1 DEF GoAlike
  <2>6. loop[n] = g[n] /\ g[n] = Closed(n)
    <3>1. n \in 0 .. n
      BY <1>n
    <3>2. QED
      BY <1>n, <2>5, <3>1, SameLoop
  <2>7. QED
    BY <2>6
<1>14. PICK a, u, J2, V2 : /\ a = loop[n] /\ u = Written(N, t, J, V, n)
                            /\ J2 = [i \in 1 .. m |-> Wr(N, N - m + (k + i - 1))]
                            /\ V2 = [i \in 1 .. m |-> x]
  OBVIOUS
<1>15. /\ a = Rec(N, f, u, f, l, z)
       /\ \A i \in 1 .. n : u[J[i]] = V[i]
       /\ \A j \in 0 .. N - 1 : (\A i \in 1 .. n : J[i] # j) => u[j] = t[j]
       /\ u \in [0 .. N - 1 -> Cells]
  <2>1. n \in 0 .. n
    BY <1>n
  <2>2. QED
    BY <1>9, <1>13, <1>14, <2>1, WrittenIs
<1> DEFINE start2 == loop[n]
           Body2(d, i) == Ring!construct_or_replace(d,
                            Ring!is_uninitialized(c, Ring!add(c, Ring!add(c, Ring!sub(c, c.first, n2), k), i - 1)),
                            Ring!add(c, Ring!add(c, Ring!sub(c, c.first, n2), k), i - 1), x)
           Closed2(i) == Rec(N, f, Written(N, u, J2, V2, i), f, l, z)
           F2(h) == [i \in 0 .. n2 |-> IF i = 0 THEN start2 ELSE Body2(h[i - 1], i)]
           loop2 == CHOOSE h : h = F2(h)
<1> HIDE DEF loop
<1>16. \A i \in 1 .. n2 : /\ k + i - 1 \in 0 .. k + m - 1 /\ ~(k + i - 1 < k)
                          /\ J2[i] = Wr(N, N - m + (k + i - 1)) /\ V2[i] = x /\ J2[i] \in 0 .. N - 1
  <2>1. \A i \in 1 .. n2 : k + i - 1 \in 0 .. k + m - 1 /\ ~(k + i - 1 < k)
    BY <1>t, <1>n2
  <2>2. \A i \in 1 .. n2 : J2[i] = Wr(N, N - m + (k + i - 1)) /\ V2[i] = x
    BY <1>14, <1>n2
  <2>3. QED
    BY <1>6, <2>1, <2>2
<1>17. Plan(N, f, u, n2, J2, V2)
  <2>1. ASSUME NEW i \in 1 .. n2, NEW p \in 1 .. n2, J2[i] = J2[p] PROVE i = p
    <3>1. PICK e, b : e = k + i - 1 /\ b = k + p - 1
      OBVIOUS
    <3>2. /\ e \in 0 .. k + m - 1 /\ b \in 0 .. k + m - 1
          /\ J2[i] = Wr(N, N - m + e) /\ J2[p] = Wr(N, N - m + b)
      BY <1>16, <3>1
    <3>3. e = b
      BY <1>6, <2>1, <3>2
    <3>4. QED
      BY <1>t, <1>n2, <3>1, <3>3
  <2>2. QED
    BY <1>15, <1>16, <1>b, <1>n2, <2>1 DEF Plan
<1>18. start2 = Closed2(0)
  BY <1>14, <1>15, <1>17, WrittenNothing
\* No item is put in a slot that another was moved to.
<1>o. ASSUME NEW i \in 1 .. n2, NEW p \in 1 .. n PROVE J[p] # J2[i]
  <2>1. PICK e, b : e = k + i - 1 /\ b = p - 1
    OBVIOUS
  <2>2. /\ e \in 0 .. k + m - 1 /\ b \in 0 .. k + m - 1 /\ ~(e < k) /\ b < k
        /\ J2[i] = Wr(N, N - m + e) /\ J[p] = Wr(N, N - m + b)
    BY <1>8, <1>16, <2>1
  <2>3. QED
    BY <1>6, <2>2
<1>19. ASSUME NEW i \in 1 .. n2 PROVE Closed2(i) = Body2(Closed2(i - 1), i)
  <2>1. PICK d, to, new :
          /\ d = Closed2(i - 1) /\ to = Ring!add(c, Ring!add(c, Ring!sub(c, c.first, n2), k), i - 1)
          /\ new <=> Ring!is_uninitialized(c, to)
    OBVIOUS
  <2>2. to = Plus(N, f, J2[i])
    <3>1. /\ N - m \in Nat /\ k \in 0 .. N /\ i - 1 \in 0 .. N /\ N - m + k \in Nat
          /\ N - m + k < N + N /\ N - m + k + (i - 1) < N + N
          /\ N - m + k + (i - 1) = N - m + (k + i - 1)
      BY <1>t, <1>n2
    <3>2. Plus(N, Plus(N, f, Wr(N, N - m)), k) = Plus(N, f, Wr(N, N - m + k))
      BY <1>b, <3>1, Onwards
    <3>3. Plus(N, Plus(N, f, Wr(N, N - m + k)), i - 1) = Plus(N, f, Wr(N, N - m + k + (i - 1)))
      BY <1>b, <3>1, Onwards
    <3>4. to = Plus(N, Plus(N, first, k), i - 1)
      BY <1>2, <1>4, <1>n2, <2>1
    <3>5. QED
      BY <1>16, <1>g, <3>1, <3>2, <3>3, <3>4
  <2>3. new <=> u[J2[i]] = Raw
    <3>1. J2[i] \in 0 .. N - 1 /\ u[J2[i]] = t[J2[i]]
      BY <1>15, <1>16, <1>o
    <3>2. QED
      BY <1>f, <2>1, <2>2, <3>1
  <2>4. Ring!construct_or_replace(d, new, to, V2[i]) = Closed2(i)
    BY <1>17, <2>1, <2>2, <2>3, StepWrites
  <2>5. QED
    <3> HIDE DEF Closed2
    <3>1. Body2(d, i) = Ring!construct_or_replace(d, new, to, V2[i])
      BY <1>16, <2>1 DEF Ring!construct_or_replace
    <3> HIDE DEF Body2
    <3>2. QED
      BY <2>1, <2>4, <3>1
<1>20. loop2[n2] = Closed2(n2)
  <2> DEFINE g == [i \in 0 .. n2 |-> Closed2(i)]
  <2> HIDE DEF Body2, Closed2
  <2>1. \A i \in 0 .. n2 : g[i] = IF i = 0 THEN start2 ELSE Body2(g[i - 1], i)
    <3>1. ASSUME NEW i \in 0 .. n2 PROVE g[i] = IF i = 0 THEN start2 ELSE Body2(g[i - 1], i)
      <4>1. CASE i = 0
        BY <1>18, <4>1
      <4>2. CASE i # 0
        <5>1. i \in 1 .. n2 /\ i - 1 \in 0 .. n2
          BY <1>n2, <4>2
        <5>2. g[i - 1] = Closed2(i - 1) /\ g[i] = Closed2(i)
          BY <5>1
        <5>3. QED
          BY <1>19, <4>2, <5>1, <5>2
      <4>3. QED
        BY <4>1, <4>2
    <3>2. QED
      BY <3>1
  <2>2. g = F2(g)
    <3>1. g = [i \in 0 .. n2 |-> g[i]]
      OBVIOUS
    <3> HIDE DEF g
    <3>2. QED
      BY <2>1, <3>1
  <2>3. loop2 = F2(loop2)
    <3> HIDE DEF F2, g
    <3>1. QED
      BY <2>2
  <2> HIDE DEF loop2
  <2>4. \A i \in 0 .. n2 : loop2[i] = IF i = 0 THEN start2 ELSE Body2(loop2[i - 1], i)
    BY <2>3
  <2>5. GoAlike(loop2, g, n2)
    <3>1. 0 \in 0 .. n2 /\ \A i \in 1 .. n2 : i # 0 /\ i \in 0 .. n2
      BY <1>n2
    <3> HIDE DEF g, F2
    <3>2. QED
      BY <2>1, <2>4, <3>1 DEF GoAlike
  <2>6. loop2[n2] = g[n2] /\ g[n2] = Closed2(n2)
    <3>1. n2 \in 0 .. n2
      BY <1>n2
    <3>2. QED
      BY <1>n2, <2>5, <3>1, SameLoop
  <2>7. QED
    BY <2>6
<1>21. PICK e, new, put : /\ e = Ring!rinsert_n(c, k, wanted, x) /\ new = Ring!Least(N - z, m)
                          /\ put = loop2[n2]
  OBVIOUS
<1>22. e = Ring!Ends(put, Minus(N, f, m), Minus(N, l, m - new), z + new)
  <2>1. n2 # 0 /\ k # 0 /\ Ring!Least(Ring!reserve(c), n2) = new
    BY <1>4, <1>21, <1>b, <1>n2
  <2>2. e = Ring!Ends(put, Ring!sub(c, c.first, n2), Ring!sub(c, c.last, n2 - Ring!Least(Ring!reserve(c), n2)),
                      c.size + Ring!Least(Ring!reserve(c), n2))
    BY <1>21, <2>1 DEF Ring!rinsert_n, Ring!Repeat, n, n2, loop
  <2>3. QED
    BY <1>4, <1>n2, <2>1, <2>2
<1>23. put = Rec(N, f, w, f, l, z)
  <2>1. PICK y : y = Written(N, u, J2, V2, n2)
    OBVIOUS
  <2>2. /\ \A i \in 1 .. n2 : y[J2[i]] = V2[i]
        /\ \A q \in 0 .. N - 1 : (\A i \in 1 .. n2 : J2[i] # q) => y[q] = u[q]
        /\ y \in [0 .. N - 1 -> Cells]
    <3>1. n2 \in 0 .. n2
      BY <1>n2
    <3>2. QED
      BY <1>17, <2>1, <3>1, WrittenIs
  <2>3. ASSUME NEW q \in 0 .. N - 1 PROVE y[q] = w[q]
    <3>1. CASE \E i \in 1 .. n2 : J2[i] = q
      BY <1>6, <1>16, <2>2, <3>1
    <3>2. CASE (\A i \in 1 .. n2 : J2[i] # q) /\ \E i \in 1 .. n : J[i] = q
      <4>1. PICK i \in 1 .. n : J[i] = q
        BY <3>2
      <4>2. PICK v : v = i - 1
        OBVIOUS
      <4>3. /\ v \in 0 .. k + m - 1 /\ v < k /\ v + 1 = i
            /\ J[i] = Wr(N, N - m + v) /\ V[i] = s[i]
        BY <1>8, <4>2
      <4>4. y[q] = V[i]
        BY <1>15, <2>2, <3>2, <4>1
      <4>5. w[q] = s[v + 1]
        BY <1>6, <4>1, <4>3
      <4>6. QED
        BY <4>3, <4>4, <4>5
    <3>3. CASE (\A i \in 1 .. n2 : J2[i] # q) /\ \A i \in 1 .. n : J[i] # q
      <4>1. ASSUME NEW v \in 0 .. k + m - 1 PROVE Wr(N, N - m + v) # q
        <5>a. v \in Int /\ 0 <= v /\ v < k + m
          BY <1>t
        <5>1. CASE ~(v < k)
          <6>1. v - k + 1 \in 1 .. n2 /\ k + (v - k + 1) - 1 = v
            BY <1>t, <1>n2, <5>a, <5>1
          <6>2. QED
            BY <1>16, <3>3, <6>1
        <5>2. CASE v < k
          <6>1. v + 1 \in 1 .. n /\ (v + 1) - 1 = v
            BY <1>t, <1>n, <5>a, <5>2
          <6>2. QED
            BY <1>8, <3>3, <6>1
        <5>3. QED
          BY <5>1, <5>2
      <4>2. w[q] = t[q]
        BY <1>6, <4>1
      <4>3. QED
        BY <1>15, <2>2, <3>3, <4>2
    <3>4. QED
      BY <3>1, <3>2, <3>3
  <2>4. w = [q \in 0 .. N - 1 |-> w[q]]
    BY <1>2 DEF Unwound
  <2>5. y = w
    BY <2>2, <2>3, <2>4
  <2>6. QED
    BY <1>20, <1>21, <2>1, <2>5
<1>24. /\ z + m > N => Becomes(e, N, Front(Inserted(s, k, m, x), N))
       /\ ~(z + m > N) => Becomes(e, N, Inserted(s, k, m, x))
  <2>1. put = Rec(N, f, Unwound(N, Inserted(s, k, m, x), m), f, l, z) /\ RoomBefore(N, s, Len(s), k, m, x)
    BY <1>1, <1>2, <1>23, <1>r
  <2>2. QED
    BY <1>1, <1>3, <1>b, <1>21, <1>22, <2>1, ItemsAreInFront
<1>25. QED
  BY <1>1, <1>2, <1>21, <1>24

----------------------------------------------------------------------------
(* Removal of the items from position k up to position m *)

Span(s, k, m) == k \in 0 .. Len(s) /\ m \in 0 .. Len(s) /\ k <= m

LEMMA ItemsGoBehind ==
    ASSUME NEW N, NEW f, NEW s, Fits(N, f, s), NEW k, NEW m, Span(s, k, m)
    PROVE  Becomes(Ring!erase(At(N, f, s), k, m), N, Removed(s, k, m))
<1>1. PICK z, c, l, t, r :
        /\ z = Len(s) /\ c = At(N, f, s) /\ l = c.last /\ t = Content(N, s)
        /\ r = [i \in 1 .. z |-> IF k < i /\ i <= k + z - m THEN s[i + (m - k)] ELSE s[i]]
  OBVIOUS
<1>b. /\ N \in Nat /\ (N # 0 => f \in 0 .. N - 1) /\ s \in Seq(Values) /\ z \in 0 .. N
      /\ \A i \in 1 .. z : s[i] \in Values
  BY <1>1 DEF Fits
<1>t. /\ z \in Nat /\ k \in Nat /\ m \in Nat /\ k <= m /\ m <= z /\ z <= N
  BY <1>1, <1>b DEF Span
<1>3. /\ l = Plus(N, f, z) /\ c = Rec(N, f, t, f, l, z) /\ t \in [0 .. N - 1 -> Cells]
  BY <1>1, AtIs
<1>4. /\ c.first = f /\ c.size = z
      /\ \A p, i : Ring!add(c, p, i) = Plus(N, p, i) /\ Ring!sub(c, p, i) = Minus(N, p, i)
  BY <1>3, <1>b, Pointers DEF IsRec
<1>5. \A j \in 0 .. N - 1 : /\ j < z => t[j] = s[j + 1] /\ t[j] # Raw
                            /\ ~(j < z) => t[j] = Raw
  BY <1>1, <1>b, ContentIs
<1> DEFINE n == c.size - m
<1>n. n = z - m /\ n \in Nat
  BY <1>4, <1>t
<1>7. PICK J, V : J = [i \in 1 .. z - m |-> k + i - 1] /\ V = [i \in 1 .. z - m |-> s[m + i]]
  OBVIOUS
<1> DEFINE start == c
           Body(d, i) == Ring!replace(d, Ring!add(c, c.first, k + i - 1), Ring!Get(d, Ring!add(c, c.first, m + i - 1)))
           Closed(i) == Rec(N, f, Written(N, t, J, V, i), f, l, z)
           F(h) == [i \in 0 .. n |-> IF i = 0 THEN start ELSE Body(h[i - 1], i)]
           loop == CHOOSE h : h = F(h)
<1> HIDE DEF n
<1>8. \A i \in 1 .. n : /\ k + i - 1 \in 0 .. N - 1 /\ k + i - 1 < z /\ m + i \in 1 .. z
                        /\ m + i - 1 \in 0 .. N - 1 /\ m + i - 1 < z /\ (m + i - 1) + 1 = m + i
                        /\ J[i] = k + i - 1 /\ V[i] = s[m + i] /\ V[i] \in Values
                        /\ k + i - 1 + 1 \in 1 .. z /\ k < k + i - 1 + 1 /\ k + i - 1 + 1 <= k + z - m /\ (k + i - 1 + 1) + (m - k) = m + i
  <2>1. ASSUME NEW i \in 1 .. n
        PROVE  /\ k + i - 1 \in 0 .. N - 1 /\ k + i - 1 < z /\ m + i \in 1 .. z
               /\ m + i - 1 \in 0 .. N - 1 /\ m + i - 1 < z /\ (m + i - 1) + 1 = m + i
               /\ k + i - 1 + 1 \in 1 .. z /\ k < k + i - 1 + 1 /\ k + i - 1 + 1 <= k + z - m /\ (k + i - 1 + 1) + (m - k) = m + i
    <3>1. i \in Int /\ 1 <= i /\ i <= z - m
      BY <1>n
    <3>2. QED
      BY <1>t, <1>b, <3>1
  <2>2. \A i \in 1 .. n : J[i] = k + i - 1 /\ V[i] = s[m + i]
    BY <1>7, <1>n
  <2>3. QED
    BY <1>b, <2>1, <2>2
<1>9. Plan(N, f, t, n, J, V)
  <2>1. ASSUME NEW i \in 1 .. n, NEW p \in 1 .. n, J[i] = J[p] PROVE i = p
    <3>1. J[i] = k + i - 1 /\ J[p] = k + p - 1
      BY <1>8
    <3>2. i \in Int /\ p \in Int
      BY <1>n
    <3>3. k + i - 1 = k + p - 1
      BY <2>1, <3>1
    <3>4. QED
      BY <1>t, <3>2, <3>3
  <2>2. QED
    BY <1>3, <1>8, <1>b, <1>n, <2>1 DEF Plan
<1>11. start = Closed(0)
  BY <1>3, <1>9, WrittenNothing
<1>12. ASSUME NEW i \in 1 .. n PROVE Closed(i) = Body(Closed(i - 1), i)
  <2>1. PICK d, to, from, y : /\ d = Closed(i - 1) /\ to = Ring!add(c, c.first, k + i - 1)
                              /\ from = Ring!add(c, c.first, m + i - 1) /\ y = m + i - 1
    OBVIOUS
  <2>2. y \in 0 .. N - 1 /\ y < z /\ y + 1 = m + i
    BY <1>8, <2>1
  <2>3. to = Plus(N, f, J[i]) /\ from = Plus(N, f, y)
    BY <1>4, <1>8, <2>1
  <2>4. Ring!Get(d, from) = V[i]
    <3>1. ASSUME NEW q \in 1 .. i - 1 PROVE J[q] # y
      <4>1. q \in Int /\ i \in Int /\ q < i /\ 1 <= q /\ q <= n
        BY <1>n
      <4>2. J[q] = k + q - 1
        BY <1>8, <4>1
      <4>3. QED
        BY <1>t, <2>1, <4>1, <4>2
    <3>2. d = Rec(N, f, Written(N, t, J, V, i - 1), f, l, z)
      BY <2>1
    <3>3. Ring!Get(d, from) = t[y]
      BY <1>9, <2>2, <2>3, <3>1, <3>2, StepReads
    <3>4. QED
      BY <1>5, <1>8, <2>2, <3>3
  <2>5. Ring!replace(d, to, V[i]) = Closed(i)
    <3>1. t[J[i]] # Raw
      BY <1>5, <1>8
    <3>2. QED
      BY <1>9, <2>1, <2>3, <3>1, StepWrites
  <2>6. QED
    <3> HIDE DEF Closed
    <3>1. Body(d, i) = Ring!replace(d, to, V[i])
      BY <2>1, <2>4
    <3> HIDE DEF Body
    <3>2. QED
      BY <2>1, <2>5, <3>1
<1>13. loop[n] = Closed(n)
  <2> DEFINE g == [i \in 0 .. n |-> Closed(i)]
  <2> HIDE DEF Body, Closed
  <2>1. \A i \in 0 .. n : g[i] = IF i = 0 THEN start ELSE Body(g[i - 1], i)
    <3>1. ASSUME NEW i \in 0 .. n PROVE g[i] = IF i = 0 THEN start ELSE Body(g[i - 1], i)
      <4>1. CASE i = 0
        BY <1>11, <4>1
      <4>2. CASE i # 0
        <5>1. i \in 1 .. n /\ i - 1 \in 0 .. n
          BY <1>n, <4>2
        <5>2. g[i - 1] = Closed(i - 1) /\ g[i] = Closed(i)
          BY <5>1
        <5>3. QED
          BY <1>12, <4>2, <5>1, <5>2
      <4>3. QED
        BY <4>1, <4>2
    <3>2. QED
      BY <3>1
  <2>2. g = F(g)
    <3>1. g = [i \in 0 .. n |-> g[i]]
      OBVIOUS
    <3> HIDE DEF g
    <3>2. QED
      BY <2>1, <3>1
  <2>3. loop = F(loop)
    <3> HIDE DEF F, g
    <3>1. QED
      BY <2>2
  <2> HIDE DEF loop
  <2>4. \A i \in 0 .. n : loop[i] = IF i = 0 THEN start ELSE Body(loop[i - 1], i)
    BY <2>3
  <2>5. GoAlike(loop, g, n)
    <3>1. 0 \in 0 .. n /\ \A i \in 1 .. n : i # 0 /\ i \in 0 .. n
      BY <1>n
    <3> HIDE DEF g, F
    <3>2. QED
      BY <2>1, <2>4, <3>1 DEF GoAlike
  <2>6. loop[n] = g[n] /\ g[n] = Closed(n)
    <3>1. n \in 0 .. n
      BY <1>n
    <3>2. QED
      BY <1>n, <2>5, <3>1, SameLoop
  <2>7. QED
    BY <2>6
<1>14. PICK a, u : a = loop[n] /\ u = Written(N, t, J, V, n)
  OBVIOUS
<1>15. /\ a = Rec(N, f, u, f, l, z)
       /\ \A i \in 1 .. n : u[J[i]] = V[i]
       /\ \A j \in 0 .. N - 1 : (\A i \in 1 .. n : J[i] # j) => u[j] = t[j]
       /\ u \in [0 .. N - 1 -> Cells]
  <2>1. n \in 0 .. n
    BY <1>n
  <2>2. QED
    BY <1>9, <1>13, <1>14, <2>1, WrittenIs
<1>16. r \in Seq(Values) /\ Len(r) = z
  <2>1. ASSUME NEW i \in 1 .. z PROVE (IF k < i /\ i <= k + z - m THEN s[i + (m - k)] ELSE s[i]) \in Values
    <3>1. i \in Int /\ 1 <= i /\ i <= z
      BY <1>t
    <3>2. (k < i /\ i <= k + z - m) => i + (m - k) \in 1 .. z
      BY <1>t, <3>1
    <3>3. QED
      BY <1>b, <3>2
  <2>2. QED
    BY <1>1, <1>t, <2>1
<1>17. u = Content(N, r)
  <2>1. ASSUME NEW j \in 0 .. N - 1 PROVE u[j] = IF j < z THEN r[j + 1] ELSE Raw
    <3>a. j \in Int /\ 0 <= j /\ (j < z => j + 1 \in 1 .. z)
      BY <1>t, <1>b
    <3>1. CASE \E i \in 1 .. n : J[i] = j
      <4>1. PICK i \in 1 .. n : J[i] = j
        BY <3>1
      <4>2. PICK q : q = j + 1
        OBVIOUS
      <4>3. j < z /\ q \in 1 .. z /\ k < q /\ q <= k + z - m /\ q + (m - k) = m + i /\ u[j] = s[m + i]
        BY <1>8, <1>15, <4>1, <4>2
      <4>4. r[q] = s[q + (m - k)]
        BY <1>1, <4>3
      <4>5. QED
        BY <4>2, <4>3, <4>4
    <3>2. CASE \A i \in 1 .. n : J[i] # j
      <4>1. u[j] = t[j]
        BY <1>15, <3>2
      <4>2. PICK q : q = j + 1
        OBVIOUS
      <4>3. ~(k < q /\ q <= k + z - m)
        <5>1. SUFFICES ASSUME k < q /\ q <= k + z - m PROVE FALSE
          OBVIOUS
        <5>2. PICK i : i = q - k
          OBVIOUS
        <5>3. i \in Int /\ 1 <= i /\ i <= z - m /\ k + i - 1 = j
          BY <1>t, <3>a, <4>2, <5>1, <5>2
        <5>4. i \in 1 .. n
          BY <1>n, <5>3
        <5>5. QED
          BY <1>8, <3>2, <5>3, <5>4
      <4>4. j < z => r[q] = s[q]
        BY <1>1, <3>a, <4>2, <4>3
      <4>5. QED
        BY <1>5, <4>1, <4>2, <4>4
    <3>3. QED
      BY <3>1, <3>2
  <2>2. u = [j \in 0 .. N - 1 |-> u[j]]
    BY <1>15
  <2>3. QED
    BY <1>16, <2>1, <2>2 DEF Content
<1>18. a = At(N, f, r) /\ Fits(N, f, r)
  BY <1>15, <1>16, <1>17, <1>3, <1>b DEF At, Fits
<1>19. Ring!erase(c, k, m) = Ring!pop_backs(a, m - k)
  BY <1>14 DEF Ring!erase, Ring!Repeat, n, loop
<1>20. PICK b, x, e : b = m - k /\ x = Front(r, z - b) /\ e = f
  OBVIOUS
<1>21. Ring!pop_backs(a, b) = At(N, e, x) /\ Fits(N, e, x)
  <2>1. b \in 0 .. Len(r)
    BY <1>t, <1>16, <1>20
  <2>2. QED
    BY <1>16, <1>18, <1>20, <2>1, PopBacksIs
<1>22. x = Removed(s, k, m)
  <2>1. ASSUME NEW i \in 1 .. z - b PROVE x[i] = IF i <= k THEN s[i] ELSE s[i + b]
    <3>1. PICK q : q = i
      OBVIOUS
    <3>2. i \in Int /\ 1 <= i /\ i <= z - b /\ b \in Int
      BY <1>t, <1>20
    <3>3. x[i] = r[q]
      BY <1>16, <1>20, <3>1 DEF Front
    <3>4. q \in 1 .. z /\ ((k < q /\ q <= k + z - m) <=> ~(i <= k)) /\ q + (m - k) = i + b /\ q = i
      BY <1>t, <1>20, <3>1, <3>2
    <3>5. r[q] = IF k < q /\ q <= k + z - m THEN s[q + (m - k)] ELSE s[q]
      BY <1>1, <3>4
    <3>6. QED
      BY <3>3, <3>4, <3>5
  <2>2. x = [i \in 1 .. z - b |-> x[i]]
    BY <1>20 DEF Front
  <2>3. Removed(s, k, m) = [i \in 1 .. z - b |-> IF i <= k THEN s[i] ELSE s[i + b]]
    BY <1>1, <1>20 DEF Removed
  <2>4. QED
    BY <2>1, <2>2, <2>3
<1>23. QED
  BY <1>1, <1>19, <1>20, <1>21, <1>22 DEF Becomes

LEMMA ItemsGoBefore ==
    ASSUME NEW N, NEW f, NEW s, Fits(N, f, s), NEW k, NEW m, Span(s, k, m)
    PROVE  Becomes(Ring!rerase(At(N, f, s), k, m), N, Removed(s, k, m))
<1>1. PICK z, c, l, t, r :
        /\ z = Len(s) /\ c = At(N, f, s) /\ l = c.last /\ t = Content(N, s)
        /\ r = [i \in 1 .. z |-> IF m - k < i /\ i <= m THEN s[i - (m - k)] ELSE s[i]]
  OBVIOUS
<1>b. /\ N \in Nat /\ (N # 0 => f \in 0 .. N - 1) /\ s \in Seq(Values) /\ z \in 0 .. N
      /\ \A i \in 1 .. z : s[i] \in Values
  BY <1>1 DEF Fits
<1>t. /\ z \in Nat /\ k \in Nat /\ m \in Nat /\ k <= m /\ m <= z /\ z <= N
  BY <1>1, <1>b DEF Span
<1>3. /\ l = Plus(N, f, z) /\ c = Rec(N, f, t, f, l, z) /\ t \in [0 .. N - 1 -> Cells]
  BY <1>1, AtIs
<1>4. /\ c.first = f /\ c.size = z
      /\ \A p, i : Ring!add(c, p, i) = Plus(N, p, i) /\ Ring!sub(c, p, i) = Minus(N, p, i)
  BY <1>3, <1>b, Pointers DEF IsRec
<1>5. \A j \in 0 .. N - 1 : /\ j < z => t[j] = s[j + 1] /\ t[j] # Raw
                            /\ ~(j < z) => t[j] = Raw
  BY <1>1, <1>b, ContentIs
<1> DEFINE n == k
<1>n. n = k /\ n \in Nat
  BY <1>4, <1>t
<1>7. PICK J, V : J = [i \in 1 .. k |-> m - i] /\ V = [i \in 1 .. k |-> s[k - i + 1]]
  OBVIOUS
<1> DEFINE start == c
           Body(d, i) == Ring!replace(d, Ring!add(c, c.first, m - i), Ring!Get(d, Ring!add(c, c.first, k - i)))
           Closed(i) == Rec(N, f, Written(N, t, J, V, i), f, l, z)
           F(h) == [i \in 0 .. n |-> IF i = 0 THEN start ELSE Body(h[i - 1], i)]
           loop == CHOOSE h : h = F(h)
<1> HIDE DEF n
<1>8. \A i \in 1 .. n : /\ m - i \in 0 .. N - 1 /\ m - i < z /\ k - i + 1 \in 1 .. z
                        /\ k - i \in 0 .. N - 1 /\ k - i < z /\ (k - i) + 1 = k - i + 1
                        /\ J[i] = m - i /\ V[i] = s[k - i + 1] /\ V[i] \in Values
                        /\ m - i + 1 \in 1 .. z /\ m - k < m - i + 1 /\ m - i + 1 <= m /\ (m - i + 1) - (m - k) = k - i + 1
  <2>1. ASSUME NEW i \in 1 .. n
        PROVE  /\ m - i \in 0 .. N - 1 /\ m - i < z /\ k - i + 1 \in 1 .. z
               /\ k - i \in 0 .. N - 1 /\ k - i < z /\ (k - i) + 1 = k - i + 1
               /\ m - i + 1 \in 1 .. z /\ m - k < m - i + 1 /\ m - i + 1 <= m /\ (m - i + 1) - (m - k) = k - i + 1
    <3>1. i \in Int /\ 1 <= i /\ i <= k
      BY <1>n
    <3>2. QED
      BY <1>t, <1>b, <3>1
  <2>2. \A i \in 1 .. n : J[i] = m - i /\ V[i] = s[k - i + 1]
    BY <1>7, <1>n
  <2>3. QED
    BY <1>b, <2>1, <2>2
<1>9. Plan(N, f, t, n, J, V)
  <2>1. ASSUME NEW i \in 1 .. n, NEW p \in 1 .. n, J[i] = J[p] PROVE i = p
    <3>1. J[i] = m - i /\ J[p] = m - p
      BY <1>8
    <3>2. i \in Int /\ p \in Int
      BY <1>n
    <3>3. m - i = m - p
      BY <2>1, <3>1
    <3>4. QED
      BY <1>t, <3>2, <3>3
  <2>2. QED
    BY <1>3, <1>8, <1>b, <1>n, <2>1 DEF Plan
<1>11. start = Closed(0)
  BY <1>3, <1>9, WrittenNothing
<1>12. ASSUME NEW i \in 1 .. n PROVE Closed(i) = Body(Closed(i - 1), i)
  <2>1. PICK d, to, from, y : /\ d = Closed(i - 1) /\ to = Ring!add(c, c.first, m - i)
                              /\ from = Ring!add(c, c.first, k - i) /\ y = k - i
    OBVIOUS
  <2>2. y \in 0 .. N - 1 /\ y < z /\ y + 1 = k - i + 1
    BY <1>8, <2>1
  <2>3. to = Plus(N, f, J[i]) /\ from = Plus(N, f, y)
    BY <1>4, <1>8, <2>1
  <2>4. Ring!Get(d, from) = V[i]
    <3>1. ASSUME NEW q \in 1 .. i - 1 PROVE J[q] # y
      <4>1. q \in Int /\ i \in Int /\ q < i /\ 1 <= q /\ q <= n
        BY <1>n
      <4>2. J[q] = m - q
        BY <1>8, <4>1
      <4>3. QED
        BY <1>t, <2>1, <4>1, <4>2
    <3>2. d = Rec(N, f, Written(N, t, J, V, i - 1), f, l, z)
      BY <2>1
    <3>3. Ring!Get(d, from) = t[y]
      BY <1>9, <2>2, <2>3, <3>1, <3>2, StepReads
    <3>4. QED
      BY <1>5, <1>8, <2>2, <3>3
  <2>5. Ring!replace(d, to, V[i]) = Closed(i)
    <3>1. t[J[i]] # Raw
      BY <1>5, <1>8
    <3>2. QED
      BY <1>9, <2>1, <2>3, <3>1, StepWrites
  <2>6. QED
    <3> HIDE DEF Closed
    <3>1. Body(d, i) = Ring!replace(d, to, V[i])
      BY <2>1, <2>4
    <3> HIDE DEF Body
    <3>2. QED
      BY <2>1, <2>5, <3>1
<1>13. loop[n] = Closed(n)
  <2> DEFINE g == [i \in 0 .. n |-> Closed(i)]
  <2> HIDE DEF Body, Closed
  <2>1. \A i \in 0 .. n : g[i] = IF i = 0 THEN start ELSE Body(g[i - 1], i)
    <3>1. ASSUME NEW i \in 0 .. n PROVE g[i] = IF i = 0 THEN start ELSE Body(g[i - 1], i)
      <4>1. CASE i = 0
        BY <1>11, <4>1
      <4>2. CASE i # 0
        <5>1. i \in 1 .. n /\ i - 1 \in 0 .. n
          BY <1>n, <4>2
        <5>2. g[i - 1] = Closed(i - 1) /\ g[i] = Closed(i)
          BY <5>1
        <5>3. QED
          BY <1>12, <4>2, <5>1, <5>2
      <4>3. QED
        BY <4>1, <4>2
    <3>2. QED
      BY <3>1
  <2>2. g = F(g)
    <3>1. g = [i \in 0 .. n |-> g[i]]
      OBVIOUS
    <3> HIDE DEF g
    <3>2. QED
      BY <2>1, <3>1
  <2>3. loop = F(loop)
    <3> HIDE DEF F, g
    <3>1. QED
      BY <2>2
  <2> HIDE DEF loop
  <2>4. \A i \in 0 .. n : loop[i] = IF i = 0 THEN start ELSE Body(loop[i - 1], i)
    BY <2>3
  <2>5. GoAlike(loop, g, n)
    <3>1. 0 \in 0 .. n /\ \A i \in 1 .. n : i # 0 /\ i \in 0 .. n
      BY <1>n
    <3> HIDE DEF g, F
    <3>2. QED
      BY <2>1, <2>4, <3>1 DEF GoAlike
  <2>6. loop[n] = g[n] /\ g[n] = Closed(n)
    <3>1. n \in 0 .. n
      BY <1>n
    <3>2. QED
      BY <1>n, <2>5, <3>1, SameLoop
  <2>7. QED
    BY <2>6
<1>14. PICK a, u : a = loop[n] /\ u = Written(N, t, J, V, n)
  OBVIOUS
<1>15. /\ a = Rec(N, f, u, f, l, z)
       /\ \A i \in 1 .. n : u[J[i]] = V[i]
       /\ \A j \in 0 .. N - 1 : (\A i \in 1 .. n : J[i] # j) => u[j] = t[j]
       /\ u \in [0 .. N - 1 -> Cells]
  <2>1. n \in 0 .. n
    BY <1>n
  <2>2. QED
    BY <1>9, <1>13, <1>14, <2>1, WrittenIs
<1>16. r \in Seq(Values) /\ Len(r) = z
  <2>1. ASSUME NEW i \in 1 .. z PROVE (IF m - k < i /\ i <= m THEN s[i - (m - k)] ELSE s[i]) \in Values
    <3>1. i \in Int /\ 1 <= i /\ i <= z
      BY <1>t
    <3>2. (m - k < i /\ i <= m) => i - (m - k) \in 1 .. z
      BY <1>t, <3>1
    <3>3. QED
      BY <1>b, <3>2
  <2>2. QED
    BY <1>1, <1>t, <2>1
<1>17. u = Content(N, r)
  <2>1. ASSUME NEW j \in 0 .. N - 1 PROVE u[j] = IF j < z THEN r[j + 1] ELSE Raw
    <3>a. j \in Int /\ 0 <= j /\ (j < z => j + 1 \in 1 .. z)
      BY <1>t, <1>b
    <3>1. CASE \E i \in 1 .. n : J[i] = j
      <4>1. PICK i \in 1 .. n : J[i] = j
        BY <3>1
      <4>2. PICK q : q = j + 1
        OBVIOUS
      <4>3. j < z /\ q \in 1 .. z /\ m - k < q /\ q <= m /\ q - (m - k) = k - i + 1 /\ u[j] = s[k - i + 1]
        BY <1>8, <1>15, <4>1, <4>2
      <4>4. r[q] = s[q - (m - k)]
        BY <1>1, <4>3
      <4>5. QED
        BY <4>2, <4>3, <4>4
    <3>2. CASE \A i \in 1 .. n : J[i] # j
      <4>1. u[j] = t[j]
        BY <1>15, <3>2
      <4>2. PICK q : q = j + 1
        OBVIOUS
      <4>3. ~(m - k < q /\ q <= m)
        <5>1. SUFFICES ASSUME m - k < q /\ q <= m PROVE FALSE
          OBVIOUS
        <5>2. PICK i : i = m - j
          OBVIOUS
        <5>3. i \in Int /\ 1 <= i /\ i <= k /\ m - i = j
          BY <1>t, <3>a, <4>2, <5>1, <5>2
        <5>4. i \in 1 .. n
          BY <1>n, <5>3
        <5>5. QED
          BY <1>8, <3>2, <5>3, <5>4
      <4>4. j < z => r[q] = s[q]
        BY <1>1, <3>a, <4>2, <4>3
      <4>5. QED
        BY <1>5, <4>1, <4>2, <4>4
    <3>3. QED
      BY <3>1, <3>2
  <2>2. u = [j \in 0 .. N - 1 |-> u[j]]
    BY <1>15
  <2>3. QED
    BY <1>16, <2>1, <2>2 DEF Content
<1>18. a = At(N, f, r) /\ Fits(N, f, r)
  BY <1>15, <1>16, <1>17, <1>3, <1>b DEF At, Fits
<1>19. Ring!rerase(c, k, m) = Ring!pop_fronts(a, m - k)
  BY <1>14 DEF Ring!rerase, Ring!Repeat, n, loop
<1>20. PICK b, x, e : b = m - k /\ x = Back(r, z - b) /\ e = Plus(N, f, b)
  OBVIOUS
<1>21. Ring!pop_fronts(a, b) = At(N, e, x) /\ Fits(N, e, x)
  <2>1. b \in 0 .. Len(r)
    BY <1>t, <1>16, <1>20
  <2>2. QED
    BY <1>16, <1>18, <1>20, <2>1, PopFrontsIs
<1>22. x = Removed(s, k, m)
  <2>1. ASSUME NEW i \in 1 .. z - b PROVE x[i] = IF i <= k THEN s[i] ELSE s[i + b]
    <3>1. PICK q : q = z - (z - b) + i
      OBVIOUS
    <3>2. i \in Int /\ 1 <= i /\ i <= z - b /\ b \in Int
      BY <1>t, <1>20
    <3>3. x[i] = r[q]
      BY <1>16, <1>20, <3>1 DEF Back
    <3>4. q \in 1 .. z /\ (~(m - k < q /\ q <= m) <=> ~(i <= k)) /\ q - (m - k) = i /\ q = i + b
      BY <1>t, <1>20, <3>1, <3>2
    <3>5. r[q] = IF m - k < q /\ q <= m THEN s[q - (m - k)] ELSE s[q]
      BY <1>1, <3>4
    <3>6. QED
      BY <3>3, <3>4, <3>5
  <2>2. x = [i \in 1 .. z - b |-> x[i]]
    BY <1>20 DEF Back
  <2>3. Removed(s, k, m) = [i \in 1 .. z - b |-> IF i <= k THEN s[i] ELSE s[i + b]]
    BY <1>1, <1>20 DEF Removed
  <2>4. QED
    BY <2>1, <2>2, <2>3
<1>23. QED
  BY <1>1, <1>19, <1>20, <1>21, <1>22 DEF Becomes

----------------------------------------------------------------------------
(* New storage *)

LEMMA ItemIs ==
    ASSUME NEW N, NEW f, NEW s, Fits(N, f, s), NEW j \in 0 .. Len(s) - 1
    PROVE  Ring!Item(At(N, f, s), j) = s[j + 1]
<1>1. PICK z, c, l, t, p :
        z = Len(s) /\ c = At(N, f, s) /\ l = c.last /\ t = Content(N, s) /\ p = Plus(N, f, j)
  OBVIOUS
<1>2. N \in Nat /\ N # 0 /\ j \in 0 .. N - 1 /\ z \in Nat /\ j < z
  BY <1>1 DEF Fits
<1>3. /\ f \in 0 .. N - 1 /\ t \in [0 .. N - 1 -> Cells] /\ c = Rec(N, f, t, f, l, z)
      /\ Ring!add(c, c.first, j) = p
  <2>1. /\ f \in 0 .. N - 1 /\ t \in [0 .. N - 1 -> Cells] /\ c = Rec(N, f, t, f, l, z)
    BY <1>1, <1>2, AtIs
  <2>2. QED
    BY <1>1, <1>2, <2>1, Pointers DEF IsRec
<1>4. t[j] = s[j + 1]
  BY <1>1, <1>2 DEF Content
<1>5. Ring!Get(c, p) = t[j]
  <2>1. IsSlot(p, j, c, N, f, t, f, l, z) /\ Raw \in Cells
    BY <1>1, <1>2, <1>3 DEF IsSlot, Cells
  <2>2. QED
    BY <2>1, SetIs
<1>6. QED
  BY <1>1, <1>3, <1>4, <1>5 DEF Ring!Item

Middle(s, k, m) == [i \in 1 .. m - k |-> s[k + i]]

\* The buffer after reset(): the items are at the beginning.
LEMMA AtStart ==
    ASSUME NEW N \in Nat, NEW s \in Seq(Values), Len(s) <= N
    PROVE  /\ At(N, 0, s) = [slots |-> [i \in 1 .. N |-> IF i <= Len(s) THEN s[i] ELSE Raw],
                             first |-> 0, last |-> IF Len(s) = N THEN 0 ELSE Len(s),
                             size |-> Len(s), ok |-> TRUE]
           /\ Fits(N, 0, s)
<1>1. Plus(N, 0, Len(s)) = IF Len(s) = N THEN 0 ELSE Len(s)
  BY DEF Plus
<1>2. ASSUME NEW i \in 1 .. N
      PROVE  Content(N, s)[Minus(N, i - 1, 0)] = IF i <= Len(s) THEN s[i] ELSE Raw
  <2>1. PICK j : j = i - 1
    OBVIOUS
  <2>2. Minus(N, j, 0) = j /\ j \in 0 .. N - 1 /\ j + 1 = i /\ (j < Len(s) <=> i <= Len(s))
    BY <2>1 DEF Minus
  <2>3. QED
    BY <2>1, <2>2 DEF Content
<1>3. Layout(N, 0, Content(N, s)) = [i \in 1 .. N |-> IF i <= Len(s) THEN s[i] ELSE Raw]
  BY <1>2 DEF Layout
<1>4. Fits(N, 0, s)
  BY DEF Fits
<1>5. PICK a, b : a = Layout(N, 0, Content(N, s)) /\ b = Plus(N, 0, Len(s))
  OBVIOUS
<1>6. At(N, 0, s) = [slots |-> a, first |-> 0, last |-> b, size |-> Len(s), ok |-> TRUE]
  BY <1>5 DEF At, Rec
<1>7. QED
  BY <1>1, <1>3, <1>4, <1>5, <1>6

LEMMA ResetIs ==
    ASSUME NEW N, NEW f, NEW s, Fits(N, f, s), NEW k, NEW m, Span(s, k, m), NEW n \in Nat, m - k <= n
    PROVE  Becomes(Ring!reset(At(N, f, s), k, m, n), n, Middle(s, k, m))
<1>1. PICK c, r, b : c = At(N, f, s) /\ r = Middle(s, k, m) /\ b = m - k
  OBVIOUS
<1>t. /\ Len(s) \in Nat /\ k \in Nat /\ m \in Nat /\ k <= m /\ m <= Len(s) /\ s \in Seq(Values)
      /\ b \in 0 .. n
  BY <1>1 DEF Fits, Span
<1>2. r \in Seq(Values) /\ Len(r) = b
  <2>1. \A i \in 1 .. b : k + i \in 1 .. Len(s)
    BY <1>1, <1>t
  <2>2. \A i \in 1 .. b : s[k + i] \in Values
    <3>1. ASSUME NEW q \in 1 .. Len(s) PROVE s[q] \in Values
      BY <1>t
    <3>2. QED
      BY <2>1, <3>1
  <2>3. b \in Nat
    BY <1>t
  <2>4. QED
    BY <1>1, <2>2, <2>3 DEF Middle
<1>3. ASSUME NEW i \in 1 .. n
      PROVE  (IF i <= b THEN Ring!Item(c, k + i - 1) ELSE Raw) = IF i <= Len(r) THEN r[i] ELSE Raw
  <2>1. CASE i <= b
    <3>1. k + i - 1 \in 0 .. Len(s) - 1 /\ k + i - 1 + 1 = k + i /\ i \in 1 .. b
      BY <1>1, <1>t, <2>1
    <3>2. Ring!Item(c, k + i - 1) = s[k + i]
      BY <1>1, <3>1, ItemIs
    <3>3. r[i] = s[k + i]
      BY <1>1, <3>1 DEF Middle
    <3>4. QED
      BY <1>2, <2>1, <3>2, <3>3
  <2>2. CASE ~(i <= b)
    BY <1>2, <2>2
  <2>3. QED
    BY <2>1, <2>2
<1>4. Ring!clear(c).ok = TRUE
  <2>1. PICK g, e : g = Plus(N, f, Len(s)) /\ e = << >>
    OBVIOUS
  <2>2. Ring!clear(c) = At(N, g, e) /\ Fits(N, g, e)
    BY <1>1, <2>1, BufferClearIs
  <2>3. QED
    BY <2>2 DEF At, Rec
<1>5. Ring!reset(c, k, m, n) = [slots |-> [i \in 1 .. n |-> IF i <= Len(r) THEN r[i] ELSE Raw],
                                first |-> 0, last |-> IF Len(r) = n THEN 0 ELSE Len(r),
                                size |-> Len(r), ok |-> TRUE]
  <2>1. Ring!reset(c, k, m, n) =
          [slots |-> [i \in 1 .. n |-> IF i <= b THEN Ring!Item(c, k + i - 1) ELSE Raw],
           first |-> 0, last |-> IF b = n THEN 0 ELSE b, size |-> b, ok |-> Ring!clear(c).ok]
    BY <1>1 DEF Ring!reset
  <2>2. QED
    BY <1>2, <1>3, <1>4, <2>1
<1>6. At(n, 0, r) = Ring!reset(c, k, m, n) /\ Fits(n, 0, r)
  <2>1. r \in Seq(Values) /\ Len(r) <= n
    BY <1>2, <1>t
  <2>2. QED
    BY <1>5, <2>1, AtStart
<1>7. QED
  BY <1>1, <1>6 DEF Becomes

LEMMA SetCapacityIs ==
    ASSUME NEW N, NEW f, NEW s, Fits(N, f, s), NEW n \in Nat, NEW q, q = Ring!Least(n, Len(s))
    PROVE  /\ Becomes(Ring!set_capacity(At(N, f, s), n), n, Front(s, q))
           /\ Becomes(Ring!rset_capacity(At(N, f, s), n), n, Back(s, q))
<1>1. PICK c, z : c = At(N, f, s) /\ z = Len(s)
  OBVIOUS
<1>2. z \in Nat /\ N \in Nat /\ z <= N /\ s \in Seq(Values) /\ s = [i \in 1 .. z |-> s[i]]
  BY <1>1 DEF Fits
<1>3. c.size = z /\ Ring!capacity(c) = N
  BY <1>1, AtIs
<1>4. q \in 0 .. z /\ q <= n /\ q = IF n < z THEN n ELSE z
  <2>1. q = IF n < z THEN n ELSE z
    BY <1>1, LeastIs
  <2>2. QED
    BY <1>2, <2>1
<1>5. CASE n = N
  <2>1. q = z
    BY <1>2, <1>4, <1>5
  <2>2. Front(s, z) = s
    BY <1>2 DEF Front
  <2>3. Back(s, z) = s
    <3>1. \A i \in 1 .. z : Len(s) - z + i = i
      BY <1>1, <1>2
    <3>2. Back(s, z) = [i \in 1 .. z |-> s[i]]
      BY <3>1 DEF Back
    <3>3. QED
      BY <1>2, <3>2
  <2>4. Becomes(c, n, s)
    BY <1>1, <1>5 DEF Becomes
  <2>5. QED
    BY <1>1, <1>3, <1>5, <2>1, <2>2, <2>3, <2>4 DEF Ring!set_capacity, Ring!rset_capacity
<1>6. CASE n # N
  <2>1. Becomes(Ring!reset(c, 0, q, n), n, Middle(s, 0, q))
    <3>1. Span(s, 0, q) /\ q - 0 <= n
      BY <1>1, <1>2, <1>4 DEF Span
    <3>2. QED
      BY <1>1, <3>1, ResetIs
  <2>2. Becomes(Ring!reset(c, z - q, z, n), n, Middle(s, z - q, z))
    <3>1. Span(s, z - q, z) /\ z - (z - q) <= n
      BY <1>1, <1>2, <1>4 DEF Span
    <3>2. QED
      BY <1>1, <3>1, ResetIs
  <2>3. Middle(s, 0, q) = Front(s, q)
    <3>1. q - 0 = q /\ \A i \in 1 .. q : 0 + i = i
      BY <1>4
    <3>2. QED
      BY <3>1 DEF Middle, Front
  <2>4. Middle(s, z - q, z) = Back(s, q)
    <3>1. z - (z - q) = q
      BY <1>2, <1>4
    <3>2. QED
      BY <1>1, <3>1 DEF Middle, Back
  <2>5. QED
    BY <1>1, <1>3, <1>6, <2>1, <2>2, <2>3, <2>4 DEF Ring!set_capacity, Ring!rset_capacity
<1>7. QED
  BY <1>5, <1>6

\* What resize() and rresize() work on: a buffer with the same items and enough room.
LEMMA RoomIs ==
    ASSUME NEW N, NEW f, NEW s, Fits(N, f, s), NEW n \in Nat, n > Len(s),
           NEW M, M = (IF n > N THEN n ELSE N),
           NEW d, d = (IF n > N THEN Ring!set_capacity(At(N, f, s), n) ELSE At(N, f, s))
    PROVE  Becomes(d, M, s)
<1>1. CASE n > N
  <2>1. Ring!Least(n, Len(s)) = Len(s) /\ Len(s) \in Nat /\ s = [i \in 1 .. Len(s) |-> s[i]]
    <3>1. Len(s) \in Nat
      BY DEF Fits
    <3>2. QED
      BY <3>1, LeastIs DEF Fits
  <2>2. Becomes(d, n, Front(s, Len(s)))
    BY <1>1, <2>1, SetCapacityIs
  <2>3. Front(s, Len(s)) = s
    BY <2>1 DEF Front
  <2>4. QED
    BY <1>1, <2>2, <2>3
<1>2. CASE ~(n > N)
  BY <1>2 DEF Becomes
<1>3. QED
  BY <1>1, <1>2

LEMMA ResizeIs ==
    ASSUME NEW N, NEW f, NEW s, Fits(N, f, s), NEW n \in Nat, NEW x \in Values,
           NEW M, M = IF n > N THEN n ELSE N
    PROVE  /\ n > Len(s) => Becomes(Ring!resize(At(N, f, s), n, x), M, Inserted(s, Len(s), n - Len(s), x))
           /\ ~(n > Len(s)) => Becomes(Ring!resize(At(N, f, s), n, x), N, Front(s, n))
           /\ n > Len(s) => Becomes(Ring!rresize(At(N, f, s), n, x), M, Inserted(s, 0, n - Len(s), x))
           /\ ~(n > Len(s)) => Becomes(Ring!rresize(At(N, f, s), n, x), N, Back(s, n))
<1>1. PICK c, z, e : c = At(N, f, s) /\ z = Len(s) /\ e = n - z
  OBVIOUS
<1>2. z \in Nat /\ N \in Nat /\ z <= N /\ s \in Seq(Values)
  BY <1>1 DEF Fits
<1>3. c.size = z /\ Ring!capacity(c) = N
  BY <1>1, AtIs
<1>4. ASSUME n > z
      PROVE  /\ Becomes(Ring!resize(c, n, x), M, Inserted(s, z, e, x))
             /\ Becomes(Ring!rresize(c, n, x), M, Inserted(s, 0, e, x))
  <2>1. PICK d : d = IF n > N THEN Ring!set_capacity(c, n) ELSE c
    OBVIOUS
  <2>2. Becomes(d, M, s)
    BY <1>1, <1>4, <2>1, RoomIs
  <2>3. PICK g : d = At(M, g, s) /\ Fits(M, g, s)
    BY <2>2 DEF Becomes
  <2>4. d.size = z /\ M \in Nat /\ M # 0 /\ e \in Nat /\ e # 0 /\ e <= M /\ ~(z + e > M)
    <3>1. d.size = z
      BY <1>1, <2>3, AtIs
    <3>2. QED
      BY <1>1, <1>2, <1>4, <3>1
  <2>5. Ring!Least(e, M) = e
    BY <2>4, LeastIs
  <2>6. Becomes(Ring!insert_n(d, z, e, x), M, Inserted(s, z, e, x))
    BY <1>1, <2>3, <2>4, <2>5, AppendItemsAre
  <2>7. Becomes(Ring!rinsert_n(d, 0, e, x), M, Inserted(s, 0, e, x))
    <3>1. Ahead(M, g, s, x, e, e)
      BY <2>3, <2>4, <2>5 DEF Ahead
    <3>2. QED
      BY <1>1, <2>3, <2>4, <3>1, PrependItemsAre
  <2>8. Ring!resize(c, n, x) = Ring!insert_n(d, z, e, x) /\ Ring!rresize(c, n, x) = Ring!rinsert_n(d, 0, e, x)
    BY <1>1, <1>3, <1>4, <2>1, <2>4 DEF Ring!resize, Ring!rresize
  <2>9. QED
    BY <2>6, <2>7, <2>8
<1>5. ASSUME ~(n > z)
      PROVE  /\ Becomes(Ring!resize(c, n, x), N, Front(s, n))
             /\ Becomes(Ring!rresize(c, n, x), N, Back(s, n))
  <2>1. Span(s, n, z) /\ Span(s, 0, z - n)
    BY <1>1, <1>2, <1>5 DEF Span
  <2>2. Becomes(Ring!erase(c, n, z), N, Removed(s, n, z)) /\ Becomes(Ring!rerase(c, 0, z - n), N, Removed(s, 0, z - n))
    BY <1>1, <2>1, ItemsGoBehind, ItemsGoBefore
  <2>3. Removed(s, n, z) = Front(s, n)
    <3>1. z - (z - n) = n /\ \A i \in 1 .. n : i <= n
      BY <1>2, <1>5
    <3>2. QED
      BY <1>1, <3>1 DEF Removed, Front
  <2>4. Removed(s, 0, z - n) = Back(s, n)
    <3>1. z - ((z - n) - 0) = n /\ \A i \in 1 .. n : ~(i <= 0) /\ i + ((z - n) - 0) = z - n + i
      BY <1>2, <1>5
    <3>2. QED
      BY <1>1, <3>1 DEF Removed, Back
  <2>5. Ring!resize(c, n, x) = Ring!erase(c, n, z) /\ Ring!rresize(c, n, x) = Ring!rerase(c, 0, z - n)
    BY <1>3, <1>5 DEF Ring!resize, Ring!rresize
  <2>6. QED
    BY <2>2, <2>3, <2>4, <2>5
<1>6. QED
  BY <1>1, <1>4, <1>5

LEMMA AssignIs ==
    ASSUME NEW N, NEW f, NEW s, Fits(N, f, s), NEW m \in Nat, NEW wanted \in 0 .. m, NEW x \in Values
    PROVE  Becomes(Ring!assign_n(At(N, f, s), m, wanted, x), m, Ring!Ring!Copies(wanted, x))
<1> DEFINE old == Ring!clear(At(N, f, s))
           base == IF m = Ring!capacity(At(N, f, s)) THEN old
                   ELSE [old EXCEPT !.slots = [i \in 1 .. m |-> Raw]]
<1>1. PICK g, l, t : g = old.first /\ l = old.last /\ t = [j \in 0 .. m - 1 |-> Raw]
  OBVIOUS
<1>t. m \in Nat /\ wanted \in Nat /\ wanted <= m
  OBVIOUS
<1>2. base = Rec(m, 0, t, g, l, 0)
  <2>1. PICK h, e : h = Plus(N, f, Len(s)) /\ e = << >>
    OBVIOUS
  <2>2. old = At(N, h, e) /\ Fits(N, h, e) /\ Len(e) = 0
    BY <2>1, BufferClearIs
  <2>3. old = Rec(N, h, Content(N, e), g, l, 0) /\ Ring!capacity(At(N, f, s)) = N /\ N \in Nat
        /\ (N # 0 => h \in 0 .. N - 1)
    BY <1>1, <2>2, AtIs
  <2>4. Layout(N, h, Content(N, e)) = [i \in 1 .. N |-> Raw]
    <3>1. ASSUME NEW i \in 1 .. N PROVE Content(N, e)[Minus(N, i - 1, h)] = Raw
      <4>1. i - 1 \in 0 .. N - 1 /\ N # 0
        BY <2>3
      <4>2. Minus(N, i - 1, h) \in 0 .. N - 1
        BY <2>3, <4>1, Around
      <4>3. QED
        BY <2>1, <4>2 DEF Content
    <3>2. QED
      BY <3>1 DEF Layout
  <2>5. Layout(m, 0, t) = [i \in 1 .. m |-> Raw]
    <3>1. ASSUME NEW i \in 1 .. m PROVE t[Minus(m, i - 1, 0)] = Raw
      <4>1. Minus(m, i - 1, 0) \in 0 .. m - 1
        BY <1>t DEF Minus
      <4>2. QED
        BY <1>1, <4>1
    <3>2. QED
      BY <3>1 DEF Layout
  <2>6. old = [slots |-> [i \in 1 .. N |-> Raw], first |-> g, last |-> l, size |-> 0, ok |-> TRUE]
    BY <2>3, <2>4 DEF Rec
  <2>7. [old EXCEPT !.slots = [i \in 1 .. m |-> Raw]] =
          [slots |-> [i \in 1 .. m |-> Raw], first |-> g, last |-> l, size |-> 0, ok |-> TRUE]
    <3>1. PICK S, T : S = [i \in 1 .. N |-> Raw] /\ T = [i \in 1 .. m |-> Raw]
      OBVIOUS
    <3>2. old = [slots |-> S, first |-> g, last |-> l, size |-> 0, ok |-> TRUE]
      BY <2>6, <3>1
    <3> HIDE DEF old
    <3>3. PICK d : d = [old EXCEPT !.slots = T]
      OBVIOUS
    <3>4. d = [q \in {"slots", "first", "last", "size", "ok"} |-> d[q]]
      BY <3>2, <3>3
    <3>5. d.slots = T /\ d.first = g /\ d.last = l /\ d.size = 0 /\ d.ok = TRUE
      BY <3>2, <3>3
    <3>6. d = [slots |-> T, first |-> g, last |-> l, size |-> 0, ok |-> TRUE]
      BY <3>4, <3>5
    <3>7. QED
      BY <3>1, <3>3, <3>6
  <2>8. QED
    <3> HIDE DEF old
    <3>1. QED
      BY <2>3, <2>5, <2>6, <2>7 DEF Rec
<1> DEFINE n == wanted
<1>n. n = wanted /\ n \in Nat
  OBVIOUS
<1>7. PICK J, V : J = [i \in 1 .. wanted |-> i - 1] /\ V = [i \in 1 .. wanted |-> x]
  OBVIOUS
<1> DEFINE start == base
           Body(d, i) == Ring!construct(d, i - 1, x)
           Closed(i) == Rec(m, 0, Written(m, t, J, V, i), g, l, 0)
           F(h) == [i \in 0 .. n |-> IF i = 0 THEN start ELSE Body(h[i - 1], i)]
           loop == CHOOSE h : h = F(h)
<1> HIDE DEF n, base
<1>8. \A i \in 1 .. n : J[i] = i - 1 /\ J[i] \in 0 .. m - 1 /\ V[i] = x
  BY <1>t, <1>n, <1>7
<1>9. Plan(m, 0, t, n, J, V)
  <2>1. ASSUME NEW i \in 1 .. n, NEW p \in 1 .. n, J[i] = J[p] PROVE i = p
    <3>1. i - 1 = p - 1 /\ i \in Int /\ p \in Int
      BY <1>8, <1>n, <2>1
    <3>2. QED
      BY <3>1
  <2>2. t \in [0 .. m - 1 -> Cells] /\ (m # 0 => 0 \in 0 .. m - 1)
    BY <1>1, <1>t DEF Cells
  <2>3. QED
    BY <1>8, <1>n, <1>t, <2>1, <2>2 DEF Plan
<1>11. start = Closed(0)
  BY <1>2, <1>9, WrittenNothing
<1>12. ASSUME NEW i \in 1 .. n PROVE Closed(i) = Body(Closed(i - 1), i)
  <2>1. PICK d, to : d = Closed(i - 1) /\ to = i - 1
    OBVIOUS
  <2>2. to = Plus(m, 0, J[i]) /\ t[J[i]] = Raw
    <3>1. Plus(m, 0, i - 1) = i - 1
      BY <1>t, <1>n DEF Plus
    <3>2. QED
      BY <1>1, <1>8, <2>1, <3>1
  <2>3. Ring!construct(d, to, V[i]) = Closed(i)
    BY <1>9, <2>1, <2>2, StepWrites
  <2>4. QED
    <3> HIDE DEF Closed
    <3>1. Body(d, i) = Ring!construct(d, to, V[i])
      BY <1>8, <2>1
    <3> HIDE DEF Body
    <3>2. QED
      BY <2>1, <2>3, <3>1
<1>13. loop[n] = Closed(n)
  <2> DEFINE way == [i \in 0 .. n |-> Closed(i)]
  <2> HIDE DEF Body, Closed
  <2>1. \A i \in 0 .. n : way[i] = IF i = 0 THEN start ELSE Body(way[i - 1], i)
    <3>1. ASSUME NEW i \in 0 .. n PROVE way[i] = IF i = 0 THEN start ELSE Body(way[i - 1], i)
      <4>1. CASE i = 0
        BY <1>11, <4>1
      <4>2. CASE i # 0
        <5>1. i \in 1 .. n /\ i - 1 \in 0 .. n
          BY <1>n, <4>2
        <5>2. way[i - 1] = Closed(i - 1) /\ way[i] = Closed(i)
          BY <5>1
        <5>3. QED
          BY <1>12, <4>2, <5>1, <5>2
      <4>3. QED
        BY <4>1, <4>2
    <3>2. QED
      BY <3>1
  <2>2. way = F(way)
    <3>1. way = [i \in 0 .. n |-> way[i]]
      OBVIOUS
    <3> HIDE DEF way
    <3>2. QED
      BY <2>1, <3>1
  <2>3. loop = F(loop)
    <3> HIDE DEF F, way
    <3>1. QED
      BY <2>2
  <2> HIDE DEF loop
  <2>4. \A i \in 0 .. n : loop[i] = IF i = 0 THEN start ELSE Body(loop[i - 1], i)
    BY <2>3
  <2>5. GoAlike(loop, way, n)
    <3>1. 0 \in 0 .. n /\ \A i \in 1 .. n : i # 0 /\ i \in 0 .. n
      BY <1>n
    <3> HIDE DEF way, F
    <3>2. QED
      BY <2>1, <2>4, <3>1 DEF GoAlike
  <2>6. loop[n] = way[n] /\ way[n] = Closed(n)
    <3>1. n \in 0 .. n
      BY <1>n
    <3>2. QED
      BY <1>n, <2>5, <3>1, SameLoop
  <2>7. QED
    BY <2>6
<1>14. PICK a, u, r : a = loop[n] /\ u = Written(m, t, J, V, n) /\ r = [i \in 1 .. wanted |-> x]
  OBVIOUS
<1>15. /\ a = Rec(m, 0, u, g, l, 0)
       /\ \A i \in 1 .. n : u[J[i]] = V[i]
       /\ \A j \in 0 .. m - 1 : (\A i \in 1 .. n : J[i] # j) => u[j] = t[j]
       /\ u \in [0 .. m - 1 -> Cells]
  <2>1. n \in 0 .. n
    BY <1>n
  <2>2. QED
    <3>1. \A i \in 1 .. n : Written(m, t, J, V, n)[J[i]] = V[i]
      BY <1>9, <2>1, WrittenIs
    <3>2. \A j \in 0 .. m - 1 :
             (\A i \in 1 .. n : J[i] # j) => Written(m, t, J, V, n)[j] = t[j]
      BY <1>9, <2>1, WrittenIs
    <3>3. Written(m, t, J, V, n) \in [0 .. m - 1 -> Cells]
      BY <1>9, <2>1, WrittenIs
    <3>4. a = Rec(m, 0, u, g, l, 0)
      BY <1>13, <1>14
    <3>5. QED
      BY <1>14, <3>1, <3>2, <3>3, <3>4
<1>16. r \in Seq(Values) /\ Len(r) = wanted /\ \A i \in 1 .. wanted : r[i] = x
  BY <1>14, <1>t
<1>17. u = Content(m, r)
  <2>1. ASSUME NEW j \in 0 .. m - 1 PROVE u[j] = IF j < wanted THEN r[j + 1] ELSE Raw
    <3>1. CASE j < wanted
      <4>1. j + 1 \in 1 .. wanted /\ (j + 1) - 1 = j
        BY <1>t, <3>1
      <4>2. QED
        BY <1>8, <1>15, <1>16, <1>n, <3>1, <4>1
    <3>2. CASE ~(j < wanted)
      <4>1. \A i \in 1 .. n : i - 1 # j
        BY <1>t, <1>n, <3>2
      <4>2. QED
        BY <1>1, <1>8, <1>15, <3>2, <4>1
    <3>3. QED
      BY <3>1, <3>2
  <2>2. u = [j \in 0 .. m - 1 |-> u[j]]
    BY <1>15
  <2>3. QED
    BY <1>16, <2>1, <2>2 DEF Content
<1>18. Ring!assign_n(At(N, f, s), m, wanted, x) = Ring!Ends(a, 0, IF wanted = m THEN 0 ELSE wanted, wanted)
  BY <1>14 DEF Ring!assign_n, Ring!Repeat, n, loop, base
<1>19. Ring!Ends(a, 0, IF wanted = m THEN 0 ELSE wanted, wanted) = At(m, 0, r) /\ Fits(m, 0, r)
  <2>1. Plus(m, 0, wanted) = IF wanted = m THEN 0 ELSE wanted
    BY <1>t DEF Plus
  <2>2. \A e : Ring!Ends(a, 0, e, wanted) = Rec(m, 0, u, 0, e, wanted)
    BY <1>15, EndsAre
  <2>3. QED
    BY <1>16, <1>17, <1>t, <2>1, <2>2 DEF At, Fits
<1>20. Ring!Ring!Copies(wanted, x) = r
  BY <1>14 DEF Ring!Ring!Copies
<1>21. QED
  BY <1>18, <1>19, <1>20 DEF Becomes

----------------------------------------------------------------------------
(* The calls that add items, whether or not there is room for all of them *)

Late(N, r) == IF Len(r) > N THEN Back(r, N) ELSE r
Early(N, r) == IF Len(r) > N THEN Front(r, N) ELSE r

LEMMA NoneInserted ==
    ASSUME NEW s \in Seq(Values), NEW k \in 0 .. Len(s), NEW x
    PROVE  Inserted(s, k, 0, x) = s
<1>1. PICK z \in Nat : z = Len(s)
  OBVIOUS
<1>2. z + 0 = z /\ \A i \in 1 .. z : (i <= k + 0 <=> i <= k) /\ i - 0 = i
  BY <1>1
<1>3. s = [i \in 1 .. z |-> s[i]]
  BY <1>1
<1>4. Inserted(s, k, 0, x) = [i \in 1 .. z |-> s[i]]
  BY <1>1, <1>2 DEF Inserted
<1>5. QED
  BY <1>3, <1>4

\* What was proved for the two cases.
LEMMA BothCases ==
    ASSUME NEW N, NEW s, s \in Seq(Values), Len(s) <= N, N \in Nat, NEW k \in 0 .. Len(s), NEW m \in Nat,
           NEW x \in Values, NEW c
    PROVE  /\ /\ Len(s) + m > N => Becomes(c, N, Back(Inserted(s, k, m, x), N))
              /\ ~(Len(s) + m > N) => Becomes(c, N, Inserted(s, k, m, x))
              => Becomes(c, N, Late(N, Inserted(s, k, m, x)))
           /\ /\ Len(s) + m > N => Becomes(c, N, Front(Inserted(s, k, m, x), N))
              /\ ~(Len(s) + m > N) => Becomes(c, N, Inserted(s, k, m, x))
              => Becomes(c, N, Early(N, Inserted(s, k, m, x)))
<1>1. Inserted(s, k, m, x) \in Seq(Values) /\ Len(Inserted(s, k, m, x)) = Len(s) + m
  BY InsertedIs
<1>2. PICK r, v : r = Inserted(s, k, m, x) /\ v = Len(s) + m
  OBVIOUS
<1>3. Len(r) = v
  BY <1>1, <1>2
<1>4. /\ Late(N, r) = IF v > N THEN Back(r, N) ELSE r
      /\ Early(N, r) = IF v > N THEN Front(r, N) ELSE r
  BY <1>3 DEF Late, Early
<1>5. QED
  BY <1>2, <1>4

LEMMA NoRoomAtAll ==
    ASSUME NEW s \in Seq(Values), Len(s) = 0, NEW x \in Values
    PROVE  Early(0, Inserted(s, 0, 1, x)) = s
<1>1. PICK r, z : r = Inserted(s, 0, 1, x) /\ z = Len(s)
  OBVIOUS
<1>2. s = << >>
  BY EmptySeq, Zenon
<1>3. r = [i \in 1 .. z + 1 |-> IF i <= 0 THEN s[i] ELSE IF i <= 0 + 1 THEN x ELSE s[i - 1]]
  BY <1>1 DEF Inserted
<1>4. z + 1 = 1 /\ \A i \in 1 .. 1 : ~(i <= 0) /\ i <= 0 + 1
  BY <1>1
<1>5. r = [i \in 1 .. 1 |-> x]
  BY <1>3, <1>4
<1>6. Len(r) > 0
  BY <1>5
<1>7. Front(r, 0) = << >>
  BY DEF Front
<1>8. QED
  BY <1>1, <1>2, <1>6, <1>7 DEF Early

LEMMA NothingAdded ==
    ASSUME NEW N, NEW f, NEW s, Fits(N, f, s), NEW k \in 0 .. Len(s), NEW x
    PROVE  /\ Becomes(At(N, f, s), N, Late(N, Inserted(s, k, 0, x)))
           /\ Becomes(At(N, f, s), N, Early(N, Inserted(s, k, 0, x)))
<1>1. s \in Seq(Values) /\ Len(s) <= N /\ N \in Nat /\ Len(s) \in Nat
  BY DEF Fits
<1>2. Inserted(s, k, 0, x) = s
  BY <1>1, NoneInserted
<1>3. ~(Len(s) > N) /\ Becomes(At(N, f, s), N, s)
  BY <1>1 DEF Becomes
<1>4. QED
  BY <1>2, <1>3 DEF Late, Early

LEMMA InsertOneIs ==
    ASSUME NEW N, NEW f, NEW s, Fits(N, f, s), NEW k \in 0 .. Len(s), NEW x \in Values
    PROVE  /\ Becomes(Ring!insert_impl(At(N, f, s), k, x), N,
                      Late(N, Inserted(s, k, Ring!Least(1, N - (Len(s) - k)), x)))
           /\ Becomes(Ring!rinsert_impl(At(N, f, s), k, x), N,
                      Early(N, Inserted(s, k, Ring!Least(1, N - k), x)))
<1>1. PICK c, z, a, b : c = At(N, f, s) /\ z = Len(s) /\ a = Ring!Least(1, N - (z - k)) /\ b = Ring!Least(1, N - k)
  OBVIOUS
<1>2. s \in Seq(Values) /\ z \in Nat /\ N \in Nat /\ z <= N /\ k \in Nat /\ k <= z
  BY <1>1 DEF Fits
<1>3. (Ring!full(c) <=> z = N) /\ c.size = z
  BY <1>1, AtIs
<1>4. a = (IF z = N /\ k = 0 THEN 0 ELSE 1) /\ b = IF z = N /\ k = z THEN 0 ELSE 1
  <2>1. a = (IF 1 < N - (z - k) THEN 1 ELSE N - (z - k)) /\ b = IF 1 < N - k THEN 1 ELSE N - k
    BY <1>1, LeastIs
  <2>2. QED
    BY <1>2, <2>1
<1>5. Becomes(Ring!insert_impl(c, k, x), N, Late(N, Inserted(s, k, a, x)))
  <2>1. CASE z = N /\ k = 0
    BY <1>1, <1>3, <1>4, <2>1, NothingAdded DEF Ring!insert_impl
  <2>2. CASE ~(z = N /\ k = 0)
    <3>1. Ring!insert_impl(c, k, x) = Ring!insert_item(c, k, x) /\ a = 1
      BY <1>3, <1>4, <2>2 DEF Ring!insert_impl
    <3>2. N # 0
      BY <1>2, <2>2
    <3>3. /\ z = N => Becomes(Ring!insert_item(c, k, x), N, Back(Inserted(s, k, 1, x), N))
          /\ z # N => Becomes(Ring!insert_item(c, k, x), N, Inserted(s, k, 1, x))
      <4>1. CASE k = z
        BY <1>1, <3>2, <4>1, AppendItemIs
      <4>2. CASE k # z
        <5>1. k \in 0 .. Len(s) - 1 /\ ~(Len(s) = N /\ k = 0)
          BY <1>1, <1>2, <2>2, <4>2
        <5>2. QED
          BY <1>1, <3>2, <5>1, InsertItemIs
      <4>3. QED
        BY <4>1, <4>2
    <3>4. z + 1 > N <=> z = N
      BY <1>2
    <3>5. Becomes(Ring!insert_item(c, k, x), N, Late(N, Inserted(s, k, 1, x)))
      BY <1>1, <1>2, <3>3, <3>4, BothCases
    <3>6. QED
      BY <3>1, <3>5
  <2>3. QED
    BY <2>1, <2>2
<1>6. Becomes(Ring!rinsert_impl(c, k, x), N, Early(N, Inserted(s, k, b, x)))
  <2>1. CASE z = N /\ k = z
    <3>1. Ring!rinsert_impl(c, k, x) = c
      BY <1>3, <2>1 DEF Ring!rinsert_impl
    <3>2. QED
      BY <1>1, <1>4, <2>1, <3>1, NothingAdded
  <2>2. CASE ~(z = N /\ k = z)
    <3>1. N # 0 /\ b = 1
      BY <1>2, <1>4, <2>2
    <3>3. /\ z = N => Becomes(Ring!rinsert_impl(c, k, x), N, Front(Inserted(s, k, 1, x), N))
          /\ z # N => Becomes(Ring!rinsert_impl(c, k, x), N, Inserted(s, k, 1, x))
      <4>1. CASE k = 0
        BY <1>1, <3>1, <4>1, PrependItemIs
      <4>2. CASE k # 0
        <5>1. k \in 1 .. Len(s) /\ ~(Len(s) = N /\ k = Len(s))
          BY <1>1, <1>2, <2>2, <4>2
        <5>2. QED
          BY <1>1, <3>1, <5>1, RinsertItemIs
      <4>3. QED
        BY <4>1, <4>2
    <3>4. z + 1 > N <=> z = N
      BY <1>2
    <3>5. Becomes(Ring!rinsert_impl(c, k, x), N, Early(N, Inserted(s, k, 1, x)))
      BY <1>1, <1>2, <3>3, <3>4, BothCases
    <3>6. QED
      BY <3>1, <3>5
  <2>3. QED
    BY <2>1, <2>2
<1>7. QED
  BY <1>1, <1>5, <1>6

LEMMA PushIs ==
    ASSUME NEW N, NEW f, NEW s, Fits(N, f, s), NEW x \in Values
    PROVE  /\ N > 0 => Becomes(Ring!push_back(At(N, f, s), x), N, Late(N, Inserted(s, Len(s), 1, x)))
           /\ Becomes(Ring!push_front(At(N, f, s), x), N, Early(N, Inserted(s, 0, 1, x)))
<1>1. PICK c, z : c = At(N, f, s) /\ z = Len(s)
  OBVIOUS
<1>2. s \in Seq(Values) /\ z \in Nat /\ N \in Nat /\ z <= N
  BY <1>1 DEF Fits
<1>3. (Ring!full(c) <=> z = N) /\ c.size = z /\ Ring!capacity(c) = N
  BY <1>1, AtIs
<1>4. z + 1 > N <=> z = N
  BY <1>2
<1>5. ASSUME N > 0 PROVE Becomes(Ring!push_back(c, x), N, Late(N, Inserted(s, z, 1, x)))
  <2>1. Ring!push_back(c, x) = Ring!insert_item(c, z, x)
    <3>1. PICK last : last = Ring!increment(c, c.last)
      OBVIOUS
    <3>2. Ring!push_back(c, x) = IF Ring!full(c) THEN Ring!Ends(Ring!replace(c, c.last, x), last, last, c.size)
                                 ELSE Ring!Ends(Ring!construct(c, c.last, x), c.first, last, c.size + 1)
      BY <3>1 DEF Ring!push_back
    <3>3. PICK put : put = Ring!construct_or_replace(c, ~Ring!full(c), c.last, x)
      OBVIOUS
    <3>4. Ring!insert_item(c, z, x) = IF Ring!full(c) THEN Ring!Ends(put, last, last, c.size)
                                      ELSE Ring!Ends(put, c.first, last, c.size + 1)
      BY <1>3, <3>1, <3>3 DEF Ring!insert_item
    <3>5. put = IF Ring!full(c) THEN Ring!replace(c, c.last, x) ELSE Ring!construct(c, c.last, x)
      BY <3>3 DEF Ring!construct_or_replace
    <3>6. QED
      BY <3>2, <3>4, <3>5
  <2>2. /\ z = N => Becomes(Ring!insert_item(c, z, x), N, Back(Inserted(s, z, 1, x), N))
        /\ z # N => Becomes(Ring!insert_item(c, z, x), N, Inserted(s, z, 1, x))
    <3>1. N # 0
      BY <1>2, <1>5
    <3>2. QED
      BY <1>1, <3>1, AppendItemIs
  <2>3. z \in 0 .. Len(s) /\ 1 \in Nat
    BY <1>1, <1>2
  <2>4. Becomes(Ring!insert_item(c, z, x), N, Late(N, Inserted(s, z, 1, x)))
    BY <1>1, <1>2, <1>4, <2>2, <2>3, BothCases
  <2>5. QED
    BY <2>1, <2>4
<1>6. ASSUME N # 0 PROVE Becomes(Ring!push_front(c, x), N, Early(N, Inserted(s, 0, 1, x)))
  <2>1. Ring!push_front(c, x) = Ring!rinsert_impl(c, 0, x)
    <3>1. PICK p : p = Ring!decrement(c, c.first)
      OBVIOUS
    <3>2. Ring!push_front(c, x) = IF Ring!full(c) THEN Ring!Ends(Ring!replace(c, p, x), p, p, c.size)
                                  ELSE Ring!Ends(Ring!construct(c, p, x), p, c.last, c.size + 1)
      BY <1>3, <1>6, <3>1 DEF Ring!push_front
    <3>3. PICK put : put = Ring!construct_or_replace(c, ~Ring!full(c), p, x)
      OBVIOUS
    <3>4. Ring!rinsert_impl(c, 0, x) = IF Ring!full(c) THEN Ring!Ends(put, p, p, c.size)
                                       ELSE Ring!Ends(put, p, c.last, c.size + 1)
      <4>1. ~(Ring!full(c) /\ 0 = c.size)
        BY <1>2, <1>3, <1>6
      <4>2. QED
        BY <3>1, <3>3, <4>1 DEF Ring!rinsert_impl
    <3>5. put = IF Ring!full(c) THEN Ring!replace(c, p, x) ELSE Ring!construct(c, p, x)
      BY <3>3 DEF Ring!construct_or_replace
    <3>6. QED
      BY <3>2, <3>4, <3>5
  <2>2. /\ z = N => Becomes(Ring!rinsert_impl(c, 0, x), N, Front(Inserted(s, 0, 1, x), N))
        /\ z # N => Becomes(Ring!rinsert_impl(c, 0, x), N, Inserted(s, 0, 1, x))
    BY <1>1, <1>6, PrependItemIs
  <2>3. 0 \in 0 .. Len(s) /\ 1 \in Nat
    BY <1>1, <1>2
  <2>4. Becomes(Ring!rinsert_impl(c, 0, x), N, Early(N, Inserted(s, 0, 1, x)))
    BY <1>1, <1>2, <1>4, <2>2, <2>3, BothCases
  <2>5. QED
    BY <2>1, <2>4
<1>7. ASSUME N = 0 PROVE Becomes(Ring!push_front(c, x), N, Early(N, Inserted(s, 0, 1, x)))
  <2>1. Ring!push_front(c, x) = c
    BY <1>3, <1>7 DEF Ring!push_front
  <2>2. Len(s) = 0
    BY <1>1, <1>2, <1>7
  <2>3. Early(0, Inserted(s, 0, 1, x)) = s
    BY <1>2, <2>2, NoRoomAtAll
  <2>4. QED
    BY <1>1, <1>7, <2>1, <2>3 DEF Becomes
<1>8. QED
  BY <1>1, <1>5, <1>6, <1>7

LEMMA InsertManyIs ==
    ASSUME NEW N, NEW f, NEW s, Fits(N, f, s), NEW k \in 0 .. Len(s), NEW n \in Nat, NEW x \in Values,
           \/ n = 0 \/ k = Len(s) \/ f = 0 \/ f >= Plus(N, f, Len(s))
           \/ f + Len(s) + Ring!Least(n, N - (Len(s) - k)) <= N
    PROVE  Becomes(Ring!insert_n(At(N, f, s), k, n, x), N,
                   Late(N, Inserted(s, k, Ring!Least(n, N - (Len(s) - k)), x)))
<1>1. PICK c, z, m : c = At(N, f, s) /\ z = Len(s) /\ m = Ring!Least(n, N - (z - k))
  OBVIOUS
<1>2. s \in Seq(Values) /\ z \in Nat /\ N \in Nat /\ z <= N /\ k \in Nat /\ k <= z
  BY <1>1 DEF Fits
<1>3. c.size = z /\ Ring!capacity(c) = N
  BY <1>1, AtIs
<1>4. m = (IF n < N - (z - k) THEN n ELSE N - (z - k)) /\ m \in Nat
  <2>1. m = IF n < N - (z - k) THEN n ELSE N - (z - k)
    BY <1>1, LeastIs
  <2>2. QED
    BY <1>2, <2>1
<1>5. CASE m = 0
  <2>1. Ring!insert_n(c, k, n, x) = c
    BY <1>1, <1>3, <1>5 DEF Ring!insert_n
  <2>2. QED
    BY <1>1, <1>5, <2>1, NothingAdded
<1>6. CASE m # 0
  <2>1. N # 0 /\ n # 0
    BY <1>2, <1>4, <1>6
  <2>2. /\ z + m > N => Becomes(Ring!insert_n(c, k, n, x), N, Back(Inserted(s, k, m, x), N))
        /\ ~(z + m > N) => Becomes(Ring!insert_n(c, k, n, x), N, Inserted(s, k, m, x))
    <3>1. CASE k = z
      <4>1. N - (z - k) = N
        BY <1>2, <3>1
      <4>2. m = Ring!Least(n, N)
        BY <1>1, <4>1
      <4>3. QED
        BY <1>1, <1>6, <3>1, <4>2, AppendItemsAre
    <3>2. CASE k # z
      <4>1. k \in 0 .. Len(s) - 1
        BY <1>1, <1>2, <3>2
      <4>2. Between(N, f, s, k, x, n, m)
        BY <1>1, <1>6, <2>1, <3>2, <4>1 DEF Between
      <4>3. QED
        BY <1>1, <4>2, InsertItemsAre
    <3>3. QED
      BY <3>1, <3>2
  <2>3. QED
    BY <1>1, <1>2, <1>4, <2>2, BothCases
<1>7. QED
  BY <1>5, <1>6

LEMMA RinsertManyIs ==
    ASSUME NEW N, NEW f, NEW s, Fits(N, f, s), NEW k \in 0 .. Len(s), NEW n \in Nat, NEW x \in Values,
           n = 0 \/ k = 0 \/ f = 0 \/ f >= Plus(N, f, Len(s))
    PROVE  Becomes(Ring!rinsert_n(At(N, f, s), k, n, x), N,
                   Early(N, Inserted(s, k, Ring!Least(n, N - k), x)))
<1>1. PICK c, z, m : c = At(N, f, s) /\ z = Len(s) /\ m = Ring!Least(n, N - k)
  OBVIOUS
<1>2. s \in Seq(Values) /\ z \in Nat /\ N \in Nat /\ z <= N /\ k \in Nat /\ k <= z
  BY <1>1 DEF Fits
<1>3. c.size = z /\ Ring!capacity(c) = N
  BY <1>1, AtIs
<1>4. m = (IF n < N - k THEN n ELSE N - k) /\ m \in Nat
  <2>1. m = IF n < N - k THEN n ELSE N - k
    BY <1>1, LeastIs
  <2>2. QED
    BY <1>2, <2>1
<1>5. CASE m = 0
  <2>1. Ring!rinsert_n(c, k, n, x) = c
    BY <1>1, <1>3, <1>5 DEF Ring!rinsert_n
  <2>2. QED
    BY <1>1, <1>5, <2>1, NothingAdded
<1>6. CASE m # 0
  <2>1. N # 0 /\ n # 0
    BY <1>2, <1>4, <1>6
  <2>2. /\ z + m > N => Becomes(Ring!rinsert_n(c, k, n, x), N, Front(Inserted(s, k, m, x), N))
        /\ ~(z + m > N) => Becomes(Ring!rinsert_n(c, k, n, x), N, Inserted(s, k, m, x))
    <3>1. CASE k = 0
      <4>1. N - k = N
        BY <1>2, <3>1
      <4>2. Ahead(N, f, s, x, n, m)
        BY <1>1, <1>6, <2>1, <4>1 DEF Ahead
      <4>3. QED
        BY <1>1, <3>1, <4>2, PrependItemsAre
    <3>2. CASE k # 0
      <4>1. k \in 1 .. Len(s)
        BY <1>1, <1>2, <3>2
      <4>2. Before(N, f, s, k, x, n, m)
        BY <1>1, <1>6, <2>1, <3>2, <4>1 DEF Before
      <4>3. QED
        BY <1>1, <4>2, RinsertItemsAre
    <3>3. QED
      BY <3>1, <3>2
  <2>3. QED
    BY <1>1, <1>2, <1>4, <2>2, BothCases
<1>7. QED
  BY <1>5, <1>6


----------------------------------------------------------------------------
(* linearize(): of n items that wrap, w are in place.  The others are from *)
(* the slot e on, then from f on, then from w on.                          *)

Where(N, f, e, w, q) ==
    IF q + e < N THEN e + q ELSE IF q + f < N THEN q + e - N + f ELSE q + f - N + w

Placed(N, n, s, f, e, w, t) ==
    /\ \A p \in 0 .. w - 1 : t[p] = s[p + 1]
    /\ \A q \in 0 .. n - w - 1 : t[Where(N, f, e, w, q)] = s[w + q + 1]

\* The slots without an object: those behind m_last that no item has reached.
Holes(N, h, l, w, t) == \A p \in 0 .. N - 1 : (t[p] = Raw) <=> (l <= p /\ p < h /\ w <= p)
Made(h, l, w) == IF w <= l THEN 0 ELSE IF w < h THEN w - l ELSE h - l

Torn(N, n, s, h, l) ==
    /\ N \in Nat /\ h \in 1 .. N - 1 /\ l \in 1 .. h /\ n = N - h + l
    /\ s \in [1 .. n -> Values]

\* The next item is at e, and it is moved to w.
Moving(N, n, s, f, e, w, t) ==
    /\ N \in Nat /\ n \in 0 .. N /\ f \in Nat /\ e \in Nat /\ w \in Nat
    /\ w < f /\ f <= e /\ e < N /\ w < n
    /\ t \in [0 .. N - 1 -> Cells] /\ Placed(N, n, s, f, e, w, t)

LEMMA MovingIs ==
    ASSUME NEW N, NEW n, NEW s, NEW f, NEW e, NEW w, NEW t, Moving(N, n, s, f, e, w, t)
    PROVE  t[e] = s[w + 1]
<1>1. 0 \in 0 .. n - w - 1 /\ Where(N, f, e, w, 0) = e /\ w + 0 + 1 = w + 1
  BY DEF Moving, Where
<1>2. t[Where(N, f, e, w, 0)] = s[w + 0 + 1]
  BY <1>1 DEF Moving, Placed
<1>3. QED
  BY <1>1, <1>2

\* An item is moved and the object that was there, if one of the n, to where it was.
LEMMA MovingOne ==
    ASSUME NEW N, NEW n, NEW s, NEW f, NEW e, NEW w, NEW t, Moving(N, n, s, f, e, w, t),
           NEW u \in [0 .. N - 1 -> Cells], u[w] = t[e],
           \A p \in 0 .. N - 1 : p # e /\ p # w => u[p] = t[p],
           u[e] = t[w] \/ n - w - 1 < N - f
    PROVE  Placed(N, n, s, f, e + 1, w + 1, u)
<1>0. /\ N \in Nat /\ n \in 0 .. N /\ f \in Nat /\ e \in Nat /\ w \in Nat
      /\ w < f /\ f <= e /\ e < N /\ w < n
  BY DEF Moving
<1>1. ASSUME NEW p \in 0 .. (w + 1) - 1 PROVE u[p] = s[p + 1]
  <2>1. CASE p = w
    BY <2>1, MovingIs
  <2>2. CASE p # w
    <3>1. p \in 0 .. w - 1 /\ p \in 0 .. N - 1 /\ p # e
      BY <1>0, <2>2
    <3>2. t[p] = s[p + 1]
      BY <3>1 DEF Moving, Placed
    <3>3. QED
      BY <2>2, <3>1, <3>2
  <2>3. QED
    BY <2>1, <2>2
<1>2. ASSUME NEW q \in 0 .. n - (w + 1) - 1
      PROVE  u[Where(N, f, e + 1, w + 1, q)] = s[(w + 1) + q + 1]
  <2>0. PICK a : a = Where(N, f, e, w, q + 1)
    OBVIOUS
  <2>1. /\ q + 1 + f = N => Where(N, f, e + 1, w + 1, q) = e
        /\ q + 1 + f = N => a = w
        /\ q + 1 + f # N => Where(N, f, e + 1, w + 1, q) = a
        /\ q + 1 + f # N => a # e /\ a # w
        /\ a \in 0 .. N - 1
        /\ q + 1 \in 0 .. n - w - 1
    BY <1>0, <2>0 DEF Where
  <2>2. t[a] = s[w + (q + 1) + 1]
    BY <2>0, <2>1 DEF Moving, Placed
  <2>3. w + (q + 1) + 1 = (w + 1) + q + 1
    BY <1>0
  <2>4. CASE q + 1 + f = N
    <3>1. ~(n - w - 1 < N - f)
      BY <1>0, <2>4
    <3>2. QED
      BY <2>1, <2>2, <2>3, <2>4, <3>1
  <2>5. CASE q + 1 + f # N
    BY <2>1, <2>2, <2>3, <2>5
  <2>6. QED
    BY <2>4, <2>5
<1>3. QED
  BY <1>1, <1>2 DEF Placed

\* The loops of linearize().
Stage(N, n, h, f, e, w, ii, at) ==
    /\ f \in 0 .. N /\ e \in 0 .. N /\ w \in 0 .. n /\ w <= f /\ ii \in Nat
    /\ at \in {"outer", "inner", "done"}
    /\ at # "inner" =>
         e = f /\ ((h <= f /\ f < N /\ (f = h \/ h <= w)) \/ (w = n /\ f = w))
    /\ at = "done" => w = f
    /\ at = "inner" =>
         h <= f /\ f < N /\ e = f + ii /\ (ii = 0 => w < f) /\ (f = h \/ h <= w)

\* A bound of the steps that are left.
Effort(n, e, w, ii, at) ==
    IF at = "done" THEN 0
    ELSE IF at = "outer" THEN IF w < e THEN 3 * (n - w) + 3 ELSE 1
    ELSE IF ii = 0 THEN 3 * (n - w) + 2 ELSE 3 * (n - w) + 4

StateOf(N, n, h, l, t, e, w, f, ii, at) ==
    [c |-> Rec(N, 0, t, h, l, n), src |-> e, dest |-> w, first |-> f, moved |-> w,
     made |-> Made(h, l, w), ii |-> ii, at |-> at]

Sits(N, n, s, h, l, t, e, w, f, ii, at) ==
    /\ Torn(N, n, s, h, l) /\ t \in [0 .. N - 1 -> Cells]
    /\ Placed(N, n, s, f, e, w, t) /\ Holes(N, h, l, w, t)
    /\ Stage(N, n, h, f, e, w, ii, at)

\* Such a state and the next one.
IsState(st, N, n, h, l, t, e, w, f, ii, at) == st = StateOf(N, n, h, l, t, e, w, f, ii, at)
Enter(st) == [st EXCEPT !.at = "inner", !.ii = 0]
Stop(st) == [st EXCEPT !.at = "done"]
Leave(st, g) == [st EXCEPT !.at = "outer", !.src = g, !.first = g]
Pass(st) == [st EXCEPT !.src = st.src + 1, !.dest = st.dest + 1, !.moved = st.moved + 1,
                       !.ii = st.ii + 1]
Swapped(st, d) == [Pass(st) EXCEPT !.c = d]
Built(st, d) == [Pass(st) EXCEPT !.c = d, !.made = st.made + 1]

LEMMA StatesAre ==
    ASSUME NEW N, NEW n, NEW h, NEW l, NEW t, NEW e, NEW w, NEW f, NEW ii, NEW at, NEW st,
           IsState(st, N, n, h, l, t, e, w, f, ii, at)
    PROVE  /\ st.c = Rec(N, 0, t, h, l, n) /\ st.src = e /\ st.dest = w /\ st.first = f
           /\ st.moved = w /\ st.made = Made(h, l, w) /\ st.ii = ii /\ st.at = at
           /\ Enter(st) = StateOf(N, n, h, l, t, e, w, f, 0, "inner")
           /\ Stop(st) = StateOf(N, n, h, l, t, e, w, f, ii, "done")
           /\ \A g : Leave(st, g) = StateOf(N, n, h, l, t, g, w, g, ii, "outer")
<1>0. PICK c : c = Rec(N, 0, t, h, l, n)
  OBVIOUS
<1>1. PICK m : m = Made(h, l, w)
  OBVIOUS
<1>2. st = [c |-> c, src |-> e, dest |-> w, first |-> f, moved |-> w, made |-> m, ii |-> ii,
            at |-> at]
  BY <1>0, <1>1 DEF StateOf, IsState
<1>3. [st EXCEPT !.at = "inner", !.ii = 0] =
        [c |-> c, src |-> e, dest |-> w, first |-> f, moved |-> w, made |-> m,
         ii |-> 0, at |-> "inner"]
  <2>1. PICK r : r = [st EXCEPT !.at = "inner", !.ii = 0]
    OBVIOUS
  <2>2. r = [i \in {"c", "src", "dest", "first", "moved", "made", "ii", "at"} |-> r[i]]
    BY <1>2, <2>1
  <2>3. r.c = c /\ r.src = e /\ r.dest = w /\ r.first = f
    BY <1>2, <2>1
  <2>4. r.moved = w /\ r.made = m /\ r.ii = 0 /\ r.at = "inner"
    BY <1>2, <2>1
  <2>5. QED
    BY <2>1, <2>2, <2>3, <2>4
<1>4. [st EXCEPT !.at = "done"] =
        [c |-> c, src |-> e, dest |-> w, first |-> f, moved |-> w, made |-> m,
         ii |-> ii, at |-> "done"]
  <2>1. PICK r : r = [st EXCEPT !.at = "done"]
    OBVIOUS
  <2>2. r = [i \in {"c", "src", "dest", "first", "moved", "made", "ii", "at"} |-> r[i]]
    BY <1>2, <2>1
  <2>3. r.c = c /\ r.src = e /\ r.dest = w /\ r.first = f
    BY <1>2, <2>1
  <2>4. r.moved = w /\ r.made = m /\ r.ii = ii /\ r.at = "done"
    BY <1>2, <2>1
  <2>5. QED
    BY <2>1, <2>2, <2>3, <2>4
<1>5. ASSUME NEW g
      PROVE  [st EXCEPT !.at = "outer", !.src = g, !.first = g] =
        [c |-> c, src |-> g, dest |-> w, first |-> g, moved |-> w, made |-> m,
         ii |-> ii, at |-> "outer"]
  <2>1. PICK r : r = [st EXCEPT !.at = "outer", !.src = g, !.first = g]
    OBVIOUS
  <2>2. r = [i \in {"c", "src", "dest", "first", "moved", "made", "ii", "at"} |-> r[i]]
    BY <1>2, <2>1
  <2>3. r.c = c /\ r.src = g /\ r.dest = w /\ r.first = g
    BY <1>2, <2>1
  <2>4. r.moved = w /\ r.made = m /\ r.ii = ii /\ r.at = "outer"
    BY <1>2, <2>1
  <2>5. QED
    BY <2>1, <2>2, <2>3, <2>4
<1>6. /\ st.c = c /\ st.src = e /\ st.dest = w /\ st.first = f
      /\ st.moved = w /\ st.made = m /\ st.ii = ii /\ st.at = at
  BY <1>2
<1>7. \A g : [st EXCEPT !.at = "outer", !.src = g, !.first = g]
             = StateOf(N, n, h, l, t, g, w, g, ii, "outer")
  BY <1>0, <1>1, <1>5 DEF StateOf
<1>8. /\ [st EXCEPT !.at = "inner", !.ii = 0] = StateOf(N, n, h, l, t, e, w, f, 0, "inner")
      /\ [st EXCEPT !.at = "done"] = StateOf(N, n, h, l, t, e, w, f, ii, "done")
  BY <1>0, <1>1, <1>3, <1>4 DEF StateOf
<1>9. QED
  BY <1>0, <1>1, <1>6, <1>7, <1>8 DEF Enter, Stop, Leave

LEMMA StatesMove ==
    ASSUME NEW N, NEW n, NEW h, NEW l, NEW t, NEW e, NEW w, NEW f, NEW ii, NEW at, NEW st,
           IsState(st, N, n, h, l, t, e, w, f, ii, at), NEW u, NEW d, IsRec(d, N, 0, u, h, l, n)
    PROVE  /\ Made(h, l, w + 1) = Made(h, l, w) =>
                Swapped(st, d) = StateOf(N, n, h, l, u, e + 1, w + 1, f, ii + 1, at)
           /\ Made(h, l, w + 1) = Made(h, l, w) + 1 =>
                Built(st, d) = StateOf(N, n, h, l, u, e + 1, w + 1, f, ii + 1, at)
<1> DEFINE next == Pass(st)
<1>0. PICK c : c = Rec(N, 0, t, h, l, n)
  OBVIOUS
<1>1. PICK m : m = Made(h, l, w)
  OBVIOUS
<1>2. st = [c |-> c, src |-> e, dest |-> w, first |-> f, moved |-> w, made |-> m, ii |-> ii,
            at |-> at]
  BY <1>0, <1>1 DEF StateOf, IsState
<1>3. next =
        [c |-> c, src |-> e + 1, dest |-> w + 1, first |-> f, moved |-> w + 1, made |-> m,
         ii |-> ii + 1, at |-> at]
  <2>0. st.src = e /\ st.dest = w /\ st.moved = w /\ st.ii = ii
    BY <1>2
  <2>1. PICK r : r = [st EXCEPT !.src = e + 1, !.dest = w + 1, !.moved = w + 1, !.ii = ii + 1]
    OBVIOUS
  <2>2. r = [i \in {"c", "src", "dest", "first", "moved", "made", "ii", "at"} |-> r[i]]
    BY <1>2, <2>1
  <2>3. r.c = c /\ r.src = e + 1 /\ r.dest = w + 1 /\ r.first = f
    BY <1>2, <2>1
  <2>4. r.moved = w + 1 /\ r.made = m /\ r.ii = ii + 1 /\ r.at = at
    BY <1>2, <2>1
  <2>5. QED
    BY <2>0, <2>1, <2>2, <2>3, <2>4 DEF Pass
<1> HIDE DEF next
<1>4. [next EXCEPT !.c = d] =
        [c |-> d, src |-> e + 1, dest |-> w + 1, first |-> f, moved |-> w + 1, made |-> m,
         ii |-> ii + 1, at |-> at]
  <2>1. PICK r : r = [next EXCEPT !.c = d]
    OBVIOUS
  <2>2. r = [i \in {"c", "src", "dest", "first", "moved", "made", "ii", "at"} |-> r[i]]
    BY <1>3, <2>1
  <2>3. r.c = d /\ r.src = e + 1 /\ r.dest = w + 1 /\ r.first = f
    BY <1>3, <2>1
  <2>4. r.moved = w + 1 /\ r.made = m /\ r.ii = ii + 1 /\ r.at = at
    BY <1>3, <2>1
  <2>5. QED
    BY <2>1, <2>2, <2>3, <2>4
<1>5. [next EXCEPT !.c = d, !.made = st.made + 1] =
        [c |-> d, src |-> e + 1, dest |-> w + 1, first |-> f, moved |-> w + 1, made |-> m + 1,
         ii |-> ii + 1, at |-> at]
  <2>1. PICK r : r = [next EXCEPT !.c = d, !.made = st.made + 1]
    OBVIOUS
  <2>2. r = [i \in {"c", "src", "dest", "first", "moved", "made", "ii", "at"} |-> r[i]]
    BY <1>2, <1>3, <2>1
  <2>3. r.c = d /\ r.src = e + 1 /\ r.dest = w + 1 /\ r.first = f
    BY <1>2, <1>3, <2>1
  <2>4. r.moved = w + 1 /\ r.made = m + 1 /\ r.ii = ii + 1 /\ r.at = at
    BY <1>2, <1>3, <2>1
  <2>5. QED
    BY <2>1, <2>2, <2>3, <2>4
<1>6. QED
  <2>1. d = Rec(N, 0, u, h, l, n)
    BY DEF IsRec
  <2>2. Made(h, l, w + 1) = m => [next EXCEPT !.c = d] = StateOf(N, n, h, l, u, e + 1, w + 1, f, ii + 1, at)
    BY <1>4, <2>1 DEF StateOf
  <2>3. Made(h, l, w + 1) = m + 1 =>
          [next EXCEPT !.c = d, !.made = st.made + 1] = StateOf(N, n, h, l, u, e + 1, w + 1, f, ii + 1, at)
    BY <1>5, <2>1 DEF StateOf
  <2>4. QED
    BY <1>1, <2>2, <2>3 DEF Swapped, Built, next

LEMMA PlacedTurns ==
    ASSUME NEW N \in Nat, NEW n \in 0 .. N, NEW s, NEW t, NEW f \in 0 .. N, NEW e \in 0 .. N,
           NEW w \in 0 .. n, Placed(N, n, s, f, e, w, t)
    PROVE  /\ e = N => Placed(N, n, s, f, f, w, t)
           /\ w = n => Placed(N, n, s, w, w, w, t)
           /\ w = f => Placed(N, n, s, e, e, w, t)
<1>1. ASSUME e = N PROVE \A q \in 0 .. n - w - 1 : Where(N, f, e, w, q) = Where(N, f, f, w, q)
  BY <1>1 DEF Where
<1>2. ASSUME w = f PROVE \A q \in 0 .. n - w - 1 : Where(N, f, e, w, q) = Where(N, e, e, w, q)
  BY <1>2 DEF Where
<1>3. w = n => 0 .. n - w - 1 = {}
  OBVIOUS
<1>4. e = N => Placed(N, n, s, f, f, w, t)
  BY <1>1 DEF Placed
<1>5. w = f => Placed(N, n, s, e, e, w, t)
  BY <1>2 DEF Placed
<1>6. w = n => Placed(N, n, s, w, w, w, t)
  BY <1>3 DEF Placed
<1>7. QED
  BY <1>4, <1>5, <1>6

\* d is a later state of the loops.
Goes(N, n, s, h, l, e, w, ii, at, d) ==
    \E u, a, v, g, jj, bt :
        /\ d = StateOf(N, n, h, l, u, a, v, g, jj, bt)
        /\ Sits(N, n, s, h, l, u, a, v, g, jj, bt)
        /\ Effort(n, a, v, jj, bt) < Effort(n, e, w, ii, at)

\* The conditions of the loops, of such a state.
LEMMA LinearizeStepIs ==
    ASSUME NEW N \in Nat, NEW n, NEW h, NEW l, NEW t, NEW e, NEW w, NEW f, NEW ii, NEW at, NEW st,
           IsState(st, N, n, h, l, t, e, w, f, ii, at), NEW i,
           NEW c, IsRec(c, N, 0, t, h, l, n)
    PROVE  /\ at = "outer" => Ring!LinearizeStep(st, i) =
                IF w < e THEN Enter(st) ELSE Stop(st)
           /\ at = "done" => Ring!LinearizeStep(st, i) = st
           /\ at = "inner" => Ring!LinearizeStep(st, i) =
                IF e >= N THEN Leave(st, f)
                ELSE IF w = n THEN Leave(st, w)
                ELSE IF w = f THEN Leave(st, f + ii)
                ELSE IF w >= l /\ (h < l \/ w < h)
                  THEN Built(st, Ring!construct(c, w, Ring!Get(c, e)))
                ELSE Swapped(st, Ring!replace(Ring!replace(c, e, Ring!Get(c, w)), w, Ring!Get(c, e)))
<1>1. /\ st.c = c /\ st.src = e /\ st.dest = w /\ st.first = f
      /\ st.moved = w /\ st.ii = ii /\ st.at = at
  BY DEF StateOf, IsState, IsRec
<1>2. IsRec(c, N, 0, t, h, l, n)
  OBVIOUS
<1>3. c.first = h /\ c.last = l /\ c.size = n /\ Ring!capacity(c) = N
  BY <1>2, Pointers
<1>4. Ring!is_uninitialized(c, w) <=> w >= l /\ (h < l \/ w < h)
  BY <1>3 DEF Ring!is_uninitialized
<1>5. at = "done" => Ring!LinearizeStep(st, i) = st
  BY <1>1 DEF Ring!LinearizeStep
<1>6. at = "outer" => Ring!LinearizeStep(st, i) =
        IF w < e THEN Enter(st) ELSE Stop(st)
  BY <1>1 DEF Ring!LinearizeStep, Enter, Stop
<1>7. at = "inner" => Ring!LinearizeStep(st, i) =
        IF e >= N THEN Leave(st, f)
        ELSE IF w = n THEN Leave(st, w)
        ELSE IF w = f THEN Leave(st, f + ii)
        ELSE IF w >= l /\ (h < l \/ w < h)
          THEN Built(st, Ring!construct(c, w, Ring!Get(c, e)))
        ELSE Swapped(st, Ring!replace(Ring!replace(c, e, Ring!Get(c, w)), w, Ring!Get(c, e)))
  <2>1. SUFFICES ASSUME at = "inner" PROVE
        Ring!LinearizeStep(st, i) =
        IF e >= N THEN Leave(st, f)
        ELSE IF w = n THEN Leave(st, w)
        ELSE IF w = f THEN Leave(st, f + ii)
        ELSE IF w >= l /\ (h < l \/ w < h)
          THEN Built(st, Ring!construct(c, w, Ring!Get(c, e)))
        ELSE Swapped(st, Ring!replace(Ring!replace(c, e, Ring!Get(c, w)), w, Ring!Get(c, e)))
    OBVIOUS
  <2>2. st.at # "done" /\ st.at # "outer"
    BY <1>1, <2>1
  <2>3. Ring!LinearizeStep(st, i) =
        IF st.src >= Ring!capacity(st.c) THEN Leave(st, st.first)
        ELSE IF st.moved = st.c.size THEN Leave(st, st.dest)
        ELSE IF st.dest = st.first
          THEN Leave(st, st.first + st.ii)
        ELSE IF Ring!is_uninitialized(st.c, st.dest)
          THEN Built(st, Ring!construct(st.c, st.dest, Ring!Get(st.c, st.src)))
        ELSE Swapped(st, Ring!replace(Ring!replace(st.c, st.src, Ring!Get(st.c, st.dest)),
                                    st.dest, Ring!Get(st.c, st.src)))
    BY <2>2 DEF Ring!LinearizeStep, Leave, Pass, Built, Swapped
  <2>4. Ring!LinearizeStep(st, i) =
        IF e >= Ring!capacity(c) THEN Leave(st, f)
        ELSE IF w = c.size THEN Leave(st, w)
        ELSE IF w = f THEN Leave(st, f + ii)
        ELSE IF Ring!is_uninitialized(c, w)
          THEN Built(st, Ring!construct(c, w, Ring!Get(c, e)))
        ELSE Swapped(st, Ring!replace(Ring!replace(c, e, Ring!Get(c, w)), w, Ring!Get(c, e)))
    BY ONLY <1>1, <2>3
  <2>5. PICK a : a = Leave(st, f)
    OBVIOUS
  <2>6. PICK b : b = Leave(st, w)
    OBVIOUS
  <2>7. PICK g : g = Leave(st, f + ii)
    OBVIOUS
  <2>8. PICK p : p = Built(st, Ring!construct(c, w, Ring!Get(c, e)))
    OBVIOUS
  <2>9. PICK q : q = Swapped(st, Ring!replace(Ring!replace(c, e, Ring!Get(c, w)), w, Ring!Get(c, e)))
    OBVIOUS
  <2>10. PICK z : z = Ring!LinearizeStep(st, i)
    OBVIOUS
  <2>11. z = IF e >= Ring!capacity(c) THEN a ELSE IF w = c.size THEN b ELSE IF w = f THEN g
             ELSE IF Ring!is_uninitialized(c, w) THEN p ELSE q
    BY ONLY <2>4, <2>5, <2>6, <2>7, <2>8, <2>9, <2>10
  <2>12. z = IF e >= N THEN a ELSE IF w = n THEN b ELSE IF w = f THEN g
             ELSE IF w >= l /\ (h < l \/ w < h) THEN p ELSE q
    BY ONLY <2>11, <1>3, <1>4
  <2>13. QED
    BY ONLY <2>5, <2>6, <2>7, <2>8, <2>9, <2>10, <2>12
<1>8. QED
  BY <1>5, <1>6, <1>7

LEMMA SitsIs ==
    ASSUME NEW N, NEW n, NEW s, NEW h, NEW l, NEW t, NEW e, NEW w, NEW f, NEW ii, NEW at,
           Sits(N, n, s, h, l, t, e, w, f, ii, at)
    PROVE  /\ N \in Nat /\ h \in 1 .. N - 1 /\ l \in 1 .. h /\ n = N - h + l /\ n \in 0 .. N
           /\ w \in 0 .. n /\ f \in 0 .. N /\ e \in 0 .. N /\ w <= f /\ ii \in Nat
           /\ at \in {"outer", "inner", "done"}
           /\ at # "inner" =>
                e = f /\ ((h <= f /\ f < N /\ (f = h \/ h <= w)) \/ (w = n /\ f = w))
           /\ at = "done" => w = f
           /\ at = "inner" =>
                h <= f /\ f < N /\ e = f + ii /\ (ii = 0 => w < f) /\ (f = h \/ h <= w)
BY DEF Sits, Torn, Stage

\* The steps that only set pointers.
LEMMA LinearizeSets ==
    ASSUME NEW N, NEW n, NEW s, NEW h, NEW l, NEW t, NEW e, NEW w, NEW f, NEW ii, NEW at,
           Sits(N, n, s, h, l, t, e, w, f, ii, at)
    PROVE  /\ at = "outer" /\ w < e =>
                /\ Sits(N, n, s, h, l, t, e, w, f, 0, "inner")
                /\ Effort(n, e, w, 0, "inner") < Effort(n, e, w, ii, at)
           /\ at = "outer" /\ ~(w < e) =>
                /\ Sits(N, n, s, h, l, t, e, w, f, ii, "done")
                /\ Effort(n, e, w, ii, "done") < Effort(n, e, w, ii, at)
           /\ at = "inner" /\ e >= N =>
                /\ Sits(N, n, s, h, l, t, f, w, f, ii, "outer")
                /\ Effort(n, f, w, ii, "outer") < Effort(n, e, w, ii, at)
           /\ at = "inner" /\ w = n =>
                /\ Sits(N, n, s, h, l, t, w, w, w, ii, "outer")
                /\ Effort(n, w, w, ii, "outer") < Effort(n, e, w, ii, at)
           /\ at = "inner" /\ e < N /\ w = f =>
                /\ Sits(N, n, s, h, l, t, e, w, e, ii, "outer")
                /\ Effort(n, e, w, ii, "outer") < Effort(n, e, w, ii, at)
<1>1. /\ N \in Nat /\ h \in 1 .. N - 1 /\ l \in 1 .. h /\ n = N - h + l /\ n \in 0 .. N
      /\ w \in 0 .. n /\ f \in 0 .. N /\ e \in 0 .. N /\ w <= f /\ ii \in Nat
      /\ at \in {"outer", "inner", "done"}
      /\ at # "inner" =>
           e = f /\ ((h <= f /\ f < N /\ (f = h \/ h <= w)) \/ (w = n /\ f = w))
      /\ at = "done" => w = f
      /\ at = "inner" =>
           h <= f /\ f < N /\ e = f + ii /\ (ii = 0 => w < f) /\ (f = h \/ h <= w)
  BY SitsIs
<1>2. Torn(N, n, s, h, l) /\ t \in [0 .. N - 1 -> Cells] /\ Holes(N, h, l, w, t)
  BY DEF Sits
<1>3. /\ Placed(N, n, s, f, e, w, t)
      /\ e = N => Placed(N, n, s, f, f, w, t)
      /\ w = n => Placed(N, n, s, w, w, w, t)
      /\ w = f => Placed(N, n, s, e, e, w, t)
  BY <1>1, PlacedTurns DEF Sits
<1>4. ASSUME at = "outer", w < e
      PROVE  /\ Stage(N, n, h, f, e, w, 0, "inner")
             /\ Effort(n, e, w, 0, "inner") < Effort(n, e, w, ii, at)
  BY ONLY <1>1, <1>4 DEF Stage, Effort
<1>5. ASSUME at = "outer", ~(w < e)
      PROVE  /\ Stage(N, n, h, f, e, w, ii, "done")
             /\ Effort(n, e, w, ii, "done") < Effort(n, e, w, ii, at)
  BY ONLY <1>1, <1>5 DEF Stage, Effort
<1>6. ASSUME at = "inner", e >= N
      PROVE  /\ Stage(N, n, h, f, f, w, ii, "outer") /\ e = N
             /\ Effort(n, f, w, ii, "outer") < Effort(n, e, w, ii, at)
  BY ONLY <1>1, <1>6 DEF Stage, Effort
<1>7. ASSUME at = "inner", w = n
      PROVE  /\ Stage(N, n, h, w, w, w, ii, "outer")
             /\ Effort(n, w, w, ii, "outer") < Effort(n, e, w, ii, at)
  BY ONLY <1>1, <1>7 DEF Stage, Effort
<1>8. ASSUME at = "inner", e < N, w = f
      PROVE  /\ Stage(N, n, h, e, e, w, ii, "outer")
             /\ Effort(n, e, w, ii, "outer") < Effort(n, e, w, ii, at)
  BY ONLY <1>1, <1>8 DEF Stage, Effort
<1>9. QED
  BY <1>2, <1>3, <1>4, <1>5, <1>6, <1>7, <1>8 DEF Sits

\* The body of the inner loop.
LEMMA LinearizeMoves ==
    ASSUME NEW N, NEW n, NEW s, NEW h, NEW l, NEW t, NEW e, NEW w, NEW f, NEW ii,
           Sits(N, n, s, h, l, t, e, w, f, ii, "inner"), e < N, w # n, w # f,
           NEW c, c = Rec(N, 0, t, h, l, n)
    PROVE  \E u : /\ Sits(N, n, s, h, l, u, e + 1, w + 1, f, ii + 1, "inner")
                  /\ Effort(n, e + 1, w + 1, ii + 1, "inner") < Effort(n, e, w, ii, "inner")
                  /\ IF w >= l /\ (h < l \/ w < h)
                     THEN /\ Ring!construct(c, w, Ring!Get(c, e)) = Rec(N, 0, u, h, l, n)
                          /\ Made(h, l, w + 1) = Made(h, l, w) + 1
                     ELSE /\ Ring!replace(Ring!replace(c, e, Ring!Get(c, w)), w, Ring!Get(c, e))
                               = Rec(N, 0, u, h, l, n)
                          /\ Made(h, l, w + 1) = Made(h, l, w)
<1>1. /\ N \in Nat /\ h \in 1 .. N - 1 /\ l \in 1 .. h /\ n = N - h + l /\ n \in 0 .. N
      /\ w \in 0 .. n /\ f \in 0 .. N /\ e \in 0 .. N /\ w <= f /\ ii \in Nat
      /\ h <= f /\ f < N /\ e = f + ii /\ (ii = 0 => w < f) /\ (f = h \/ h <= w)
  BY SitsIs
<1>2. Torn(N, n, s, h, l) /\ t \in [0 .. N - 1 -> Cells] /\ Holes(N, h, l, w, t)
  BY DEF Sits
<1>3. Moving(N, n, s, f, e, w, t)
  <2>1. N \in Nat /\ n \in 0 .. N /\ f \in Nat /\ e \in Nat /\ w \in Nat
        /\ w < f /\ f <= e /\ e < N /\ w < n
    BY <1>1
  <2>2. Placed(N, n, s, f, e, w, t)
    BY DEF Sits
  <2>3. QED
    BY <1>2, <2>1, <2>2 DEF Moving
<1>4. t[e] = s[w + 1] /\ s[w + 1] \in Values
  <2>1. w + 1 \in 1 .. n
    BY <1>1
  <2>2. QED
    BY <1>2, <1>3, <2>1, MovingIs DEF Torn
<1>5. /\ Stage(N, n, h, f, e + 1, w + 1, ii + 1, "inner")
      /\ Effort(n, e + 1, w + 1, ii + 1, "inner") < Effort(n, e, w, ii, "inner")
  BY ONLY <1>1, e < N, w # n, w # f DEF Stage, Effort
<1>6. /\ e \in 0 .. N - 1 /\ w \in 0 .. N - 1 /\ 0 \in 0 .. N - 1 /\ e # w /\ h <= e
      /\ Plus(N, 0, e) = e /\ Plus(N, 0, w) = w
  BY <1>1 DEF Plus
<1>7. IsSlot(e, e, c, N, 0, t, h, l, n) /\ IsSlot(w, w, c, N, 0, t, h, l, n)
  BY <1>1, <1>2, <1>6 DEF IsSlot
<1>8. Ring!Get(c, e) = t[e] /\ Ring!Get(c, w) = t[w]
  <2>1. t[e] \in Values
    BY <1>4
  <2>2. QED
    BY <1>7, <2>1, Writes
<1>9. (t[w] = Raw) <=> (l <= w /\ w < h)
  BY <1>1, <1>2, <1>6 DEF Holes
<1>10. CASE l <= w /\ w < h
  <2> DEFINE u == Put(t, w, t[e])
  <2>1. u \in [0 .. N - 1 -> Cells] /\ u[w] = t[e] /\ \A p \in 0 .. N - 1 : p # w => u[p] = t[p]
    BY <1>2, <1>4, <1>6 DEF Put, Cells
  <2>2. Ring!construct(c, w, t[e]) = Rec(N, 0, u, h, l, n)
    BY <1>4, <1>7, <1>9, <1>10, Writes
  <2>3. n - w - 1 < N - f /\ (w >= l /\ (h < l \/ w < h))
    BY <1>1, <1>10
  <2>4. Placed(N, n, s, f, e + 1, w + 1, u)
    <3> HIDE DEF u
    <3>1. QED
      BY <1>3, <2>1, <2>3, MovingOne
  <2>5. Holes(N, h, l, w + 1, u)
    <3> HIDE DEF u
    <3>1. ASSUME NEW p \in 0 .. N - 1 PROVE (u[p] = Raw) <=> (l <= p /\ p < h /\ w + 1 <= p)
      <4>1. CASE p = w
        <5>1. u[p] \in Values /\ ~(w + 1 <= p)
          BY <1>1, <1>4, <2>1, <4>1
        <5>2. QED
          BY <5>1, BufferConstants
      <4>2. CASE p # w
        <5>1. u[p] = t[p] /\ ((w + 1 <= p) <=> (w <= p))
          BY <1>1, <2>1, <4>2
        <5>2. QED
          BY <1>2, <5>1 DEF Holes
      <4>3. QED
        BY <4>1, <4>2
    <3>2. QED
      BY <3>1 DEF Holes
  <2>6. Made(h, l, w + 1) = Made(h, l, w) + 1
    BY <1>1, <1>10 DEF Made
  <2>7. Sits(N, n, s, h, l, u, e + 1, w + 1, f, ii + 1, "inner")
    BY <1>2, <1>5, <2>1, <2>4, <2>5 DEF Sits
  <2> HIDE DEF u
  <2>8. QED
    BY <1>5, <1>8, <2>2, <2>3, <2>6, <2>7
<1>11. CASE ~(l <= w /\ w < h)
  <2> DEFINE v == Put(t, e, t[w])
             u == Put(v, w, t[e])
  <2>1. t[w] \in Values /\ t[e] # Raw /\ t[w] # Raw
    BY <1>2, <1>4, <1>6, <1>9, <1>11, BufferConstants DEF Cells
  <2>2. v \in [0 .. N - 1 -> Cells] /\ v[e] = t[w] /\ \A p \in 0 .. N - 1 : p # e => v[p] = t[p]
    BY <1>2, <1>6, <2>1 DEF Put, Cells
  <2>3. /\ u \in [0 .. N - 1 -> Cells] /\ u[w] = t[e] /\ u[e] = t[w]
        /\ \A p \in 0 .. N - 1 : p # e /\ p # w => u[p] = t[p]
    <3>1. u \in [0 .. N - 1 -> Cells] /\ u[w] = t[e] /\ \A p \in 0 .. N - 1 : p # w => u[p] = v[p]
      <4> HIDE DEF v
      <4>1. QED
        BY <1>4, <1>6, <2>2 DEF Put, Cells
    <3> HIDE DEF u, v
    <3>2. QED
      BY <1>6, <2>2, <3>1
  <2>4. Ring!replace(c, e, t[w]) = Rec(N, 0, v, h, l, n)
    BY <1>7, <2>1, Writes
  <2>5. Ring!replace(Ring!replace(c, e, t[w]), w, t[e]) = Rec(N, 0, u, h, l, n)
    <3> HIDE DEF v
    <3>1. PICK d : d = Ring!replace(c, e, t[w])
      OBVIOUS
    <3>2. IsSlot(w, w, d, N, 0, v, h, l, n)
      BY <1>1, <1>6, <2>2, <2>4, <3>1 DEF IsSlot
    <3>3. v[w] # Raw
      BY <1>6, <2>1, <2>2
    <3>4. Ring!replace(d, w, t[e]) = Rec(N, 0, u, h, l, n)
      BY <1>4, <3>2, <3>3, Writes
    <3>5. QED
      BY <3>1, <3>4
  <2> HIDE DEF u, v
  <2>6. Placed(N, n, s, f, e + 1, w + 1, u)
    BY <1>3, <2>3, MovingOne
  <2>7. Holes(N, h, l, w + 1, u)
    <3>1. ASSUME NEW p \in 0 .. N - 1 PROVE (u[p] = Raw) <=> (l <= p /\ p < h /\ w + 1 <= p)
      <4>1. CASE p = w \/ p = e
        <5>1. u[p] # Raw /\ ~(p < h /\ w + 1 <= p)
          BY <1>1, <1>6, <2>1, <2>3, <4>1
        <5>2. QED
          BY <5>1
      <4>2. CASE p # w /\ p # e
        <5>1. u[p] = t[p] /\ ((w + 1 <= p) <=> (w <= p))
          BY <1>1, <2>3, <4>2
        <5>2. QED
          BY <1>2, <5>1 DEF Holes
      <4>3. QED
        BY <4>1, <4>2
    <3>2. QED
      BY <3>1 DEF Holes
  <2>8. Made(h, l, w + 1) = Made(h, l, w) /\ ~(w >= l /\ (h < l \/ w < h))
    BY <1>1, <1>11 DEF Made
  <2>9. Sits(N, n, s, h, l, u, e + 1, w + 1, f, ii + 1, "inner")
    BY <1>2, <1>5, <2>3, <2>6, <2>7 DEF Sits
  <2>10. QED
    BY <1>5, <1>8, <2>5, <2>8, <2>9
<1>12. QED
  BY <1>10, <1>11

\* Each step leads on.
LEMMA LinearizeGoes ==
    ASSUME NEW N, NEW n, NEW s, NEW h, NEW l, NEW t, NEW e, NEW w, NEW f, NEW ii, NEW at,
           Sits(N, n, s, h, l, t, e, w, f, ii, at), at # "done",
           NEW st, st = StateOf(N, n, h, l, t, e, w, f, ii, at), NEW i
    PROVE  Goes(N, n, s, h, l, e, w, ii, at, Ring!LinearizeStep(st, i))
<1>2. N \in Nat /\ e \in 0 .. N /\ at \in {"outer", "inner"}
  BY SitsIs
<1>1. PICK c : IsRec(c, N, 0, t, h, l, n)
  BY <1>2 DEF IsRec
<1>s. IsState(st, N, n, h, l, t, e, w, f, ii, at)
  BY DEF IsState
<1>3. CASE at = "outer"
  <2>1. Ring!LinearizeStep(st, i) =
          IF w < e THEN Enter(st) ELSE Stop(st)
    BY <1>1, <1>2, <1>3, <1>s, LinearizeStepIs
  <2>2. CASE w < e
    <3>1. Ring!LinearizeStep(st, i) = StateOf(N, n, h, l, t, e, w, f, 0, "inner")
      BY <1>s, <2>1, <2>2, StatesAre
    <3>2. /\ Sits(N, n, s, h, l, t, e, w, f, 0, "inner")
          /\ Effort(n, e, w, 0, "inner") < Effort(n, e, w, ii, at)
      BY <1>3, <2>2, LinearizeSets
    <3>3. QED
      BY <3>1, <3>2 DEF Goes
  <2>3. CASE ~(w < e)
    <3>1. Ring!LinearizeStep(st, i) = StateOf(N, n, h, l, t, e, w, f, ii, "done")
      BY <1>s, <2>1, <2>3, StatesAre
    <3>2. /\ Sits(N, n, s, h, l, t, e, w, f, ii, "done")
          /\ Effort(n, e, w, ii, "done") < Effort(n, e, w, ii, at)
      BY <1>3, <2>3, LinearizeSets
    <3>3. QED
      BY <3>1, <3>2 DEF Goes
  <2>4. QED
    BY <2>2, <2>3
<1>4. CASE at = "inner"
  <2>1. Ring!LinearizeStep(st, i) =
          IF e >= N THEN Leave(st, f)
          ELSE IF w = n THEN Leave(st, w)
          ELSE IF w = f THEN Leave(st, f + ii)
          ELSE IF w >= l /\ (h < l \/ w < h)
            THEN Built(st, Ring!construct(c, w, Ring!Get(c, e)))
          ELSE Swapped(st, Ring!replace(Ring!replace(c, e, Ring!Get(c, w)), w, Ring!Get(c, e)))
    BY <1>1, <1>2, <1>4, <1>s, LinearizeStepIs
  <2>2. \A g : Leave(st, g) = StateOf(N, n, h, l, t, g, w, g, ii, "outer")
    BY <1>s, StatesAre
  <2>3. CASE e >= N
    <3>1. Ring!LinearizeStep(st, i) = StateOf(N, n, h, l, t, f, w, f, ii, "outer")
      BY <2>1, <2>2, <2>3
    <3>2. /\ Sits(N, n, s, h, l, t, f, w, f, ii, "outer")
          /\ Effort(n, f, w, ii, "outer") < Effort(n, e, w, ii, at)
      BY <1>4, <2>3, LinearizeSets
    <3>3. QED
      BY <3>1, <3>2 DEF Goes
  <2>4. CASE e < N /\ w = n
    <3>0. ~(e >= N)
      BY <1>2, <2>4
    <3>1. Ring!LinearizeStep(st, i) = StateOf(N, n, h, l, t, w, w, w, ii, "outer")
      BY <2>1, <2>2, <2>4, <3>0
    <3>2. /\ Sits(N, n, s, h, l, t, w, w, w, ii, "outer")
          /\ Effort(n, w, w, ii, "outer") < Effort(n, e, w, ii, at)
      BY <1>4, <2>4, LinearizeSets
    <3>3. QED
      BY <3>1, <3>2 DEF Goes
  <2>5. CASE e < N /\ w # n /\ w = f
    <3>0. ~(e >= N) /\ f + ii = e
      BY <1>2, <1>4, <2>5, SitsIs
    <3>1. Ring!LinearizeStep(st, i) = StateOf(N, n, h, l, t, e, w, e, ii, "outer")
      BY <2>1, <2>2, <2>5, <3>0
    <3>2. /\ Sits(N, n, s, h, l, t, e, w, e, ii, "outer")
          /\ Effort(n, e, w, ii, "outer") < Effort(n, e, w, ii, at)
      BY <1>4, <2>5, LinearizeSets
    <3>3. QED
      BY <3>1, <3>2 DEF Goes
  <2>6. CASE e < N /\ w # n /\ w # f
    <3>0. ~(e >= N)
      BY <1>2, <2>6
    <3>1. PICK u :
            /\ Sits(N, n, s, h, l, u, e + 1, w + 1, f, ii + 1, "inner")
            /\ Effort(n, e + 1, w + 1, ii + 1, "inner") < Effort(n, e, w, ii, "inner")
            /\ IF w >= l /\ (h < l \/ w < h)
               THEN /\ Ring!construct(c, w, Ring!Get(c, e)) = Rec(N, 0, u, h, l, n)
                    /\ Made(h, l, w + 1) = Made(h, l, w) + 1
               ELSE /\ Ring!replace(Ring!replace(c, e, Ring!Get(c, w)), w, Ring!Get(c, e))
                         = Rec(N, 0, u, h, l, n)
                    /\ Made(h, l, w + 1) = Made(h, l, w)
      BY <1>1, <1>4, <2>6, LinearizeMoves DEF IsRec
    <3>2. PICK d : d = Rec(N, 0, u, h, l, n) /\ IsRec(d, N, 0, u, h, l, n)
      BY <1>2 DEF IsRec
    <3>3. /\ Made(h, l, w + 1) = Made(h, l, w) =>
               Swapped(st, d) = StateOf(N, n, h, l, u, e + 1, w + 1, f, ii + 1, at)
          /\ Made(h, l, w + 1) = Made(h, l, w) + 1 =>
               Built(st, d) = StateOf(N, n, h, l, u, e + 1, w + 1, f, ii + 1, at)
      BY <1>s, <3>2, StatesMove
    <3>4. Ring!LinearizeStep(st, i) = StateOf(N, n, h, l, u, e + 1, w + 1, f, ii + 1, "inner")
      <4>1. CASE w >= l /\ (h < l \/ w < h)
        <5>1. Ring!LinearizeStep(st, i) = Built(st, d)
          BY <2>1, <2>6, <3>0, <3>1, <3>2, <4>1
        <5>2. QED
          BY <1>4, <3>1, <3>3, <4>1, <5>1
      <4>2. CASE ~(w >= l /\ (h < l \/ w < h))
        <5>1. Ring!LinearizeStep(st, i) = Swapped(st, d)
          BY <2>1, <2>6, <3>0, <3>1, <3>2, <4>2
        <5>2. QED
          BY <1>4, <3>1, <3>3, <4>2, <5>1
      <4>3. QED
        BY <4>1, <4>2
    <3>5. QED
      BY <1>4, <3>1, <3>4 DEF Goes
  <2>7. QED
    BY <1>2, <2>3, <2>4, <2>5, <2>6
<1>5. QED
  BY <1>2, <1>3, <1>4

\* After i steps.
Gone(N, n, s, h, l, d, i) ==
    \E u, a, v, g, jj, bt :
        /\ d = StateOf(N, n, h, l, u, a, v, g, jj, bt)
        /\ Sits(N, n, s, h, l, u, a, v, g, jj, bt)
        /\ bt = "done" \/ Effort(n, a, v, jj, bt) + i <= 3 * N + 3

LEMMA EffortIs ==
    ASSUME NEW N, NEW n, NEW s, NEW h, NEW l, NEW t, NEW e, NEW w, NEW f, NEW ii, NEW at,
           Sits(N, n, s, h, l, t, e, w, f, ii, at)
    PROVE  /\ Effort(n, e, w, ii, at) \in Nat
           /\ at # "done" => Effort(n, e, w, ii, at) # 0
<1>1. w \in 0 .. n /\ n \in Nat
  BY SitsIs
<1>2. QED
  BY ONLY <1>1 DEF Effort

LEMMA GoneOn ==
    ASSUME NEW N, NEW n, NEW s, NEW h, NEW l, NEW d, NEW i \in 1 .. 3 * N + 3, N \in Nat,
           Gone(N, n, s, h, l, d, i - 1)
    PROVE  Gone(N, n, s, h, l, Ring!LinearizeStep(d, i), i)
<1>1. PICK u, a, v, g, jj, bt :
        /\ d = StateOf(N, n, h, l, u, a, v, g, jj, bt)
        /\ Sits(N, n, s, h, l, u, a, v, g, jj, bt)
        /\ bt = "done" \/ Effort(n, a, v, jj, bt) + (i - 1) <= 3 * N + 3
  BY DEF Gone
<1>2. CASE bt = "done"
  <2>1. Ring!LinearizeStep(d, i) = d
    <3>1. PICK c : IsRec(c, N, 0, u, h, l, n)
      BY DEF IsRec
    <3>2. IsState(d, N, n, h, l, u, a, v, g, jj, bt)
      BY <1>1 DEF IsState
    <3>3. QED
      BY <1>2, <3>1, <3>2, LinearizeStepIs
  <2>2. QED
    BY <1>1, <1>2, <2>1 DEF Gone
<1>3. CASE bt # "done"
  <2>1. Goes(N, n, s, h, l, a, v, jj, bt, Ring!LinearizeStep(d, i))
    BY <1>1, <1>3, LinearizeGoes
  <2>2. PICK u2, a2, v2, g2, jj2, bt2 :
          /\ Ring!LinearizeStep(d, i) = StateOf(N, n, h, l, u2, a2, v2, g2, jj2, bt2)
          /\ Sits(N, n, s, h, l, u2, a2, v2, g2, jj2, bt2)
          /\ Effort(n, a2, v2, jj2, bt2) < Effort(n, a, v, jj, bt)
    BY <2>1 DEF Goes
  <2>3. Effort(n, a2, v2, jj2, bt2) + i <= 3 * N + 3
    <3>1. PICK x, y : x = Effort(n, a2, v2, jj2, bt2) /\ y = Effort(n, a, v, jj, bt)
      OBVIOUS
    <3>2. x \in Nat /\ y \in Nat /\ x < y /\ y + (i - 1) <= 3 * N + 3
      BY <1>1, <1>3, <2>2, <3>1, EffortIs
    <3>3. x + i <= 3 * N + 3
      BY ONLY <3>2, i \in 1 .. 3 * N + 3, N \in Nat
    <3>4. QED
      BY <3>1, <3>3
  <2>4. QED
    BY <2>2, <2>3 DEF Gone
<1>4. QED
  BY <1>2, <1>3

\* The loops start with no item in place.
LEMMA LinearizeStarts ==
    ASSUME NEW N \in Nat, NEW f \in 0 .. N - 1, NEW s \in Seq(Values), NEW n, n = Len(s), n \in 1 .. N,
           NEW l, l = Plus(N, f, n), ~(f < l), l # 0,
           NEW t, t = [p \in 0 .. N - 1 |-> Content(N, s)[Minus(N, p, f)]]
    PROVE  /\ At(N, f, s) = Rec(N, 0, t, f, l, n)
           /\ Sits(N, n, s, f, l, t, f, 0, f, 0, "outer")
           /\ f \in 1 .. N - 1 /\ l \in 1 .. f /\ n = N - f + l
<1>1. f \in 1 .. N - 1 /\ l \in 1 .. f /\ n = N - f + l
  <2>1. N \in Nat /\ f \in 0 .. N - 1 /\ n \in 1 .. N
    OBVIOUS
  <2>2. QED
    BY ONLY <2>1, l = Plus(N, f, n), ~(f < l), l # 0 DEF Plus
<1>2. PICK C : C = Content(N, s)
  OBVIOUS
<1>3. \A j \in 0 .. N - 1 : /\ j < n => C[j] = s[j + 1] /\ C[j] # Raw
                            /\ ~(j < n) => C[j] = Raw
  BY <1>2, ContentIs
<1>4. \A p \in 0 .. N - 1 : Minus(N, p, f) \in 0 .. N - 1 /\ t[p] = C[Minus(N, p, f)]
  BY <1>2, Around
<1>5. At(N, f, s) = Rec(N, 0, t, f, l, n)
  <2>1. ASSUME NEW p \in 1 .. N PROVE t[Minus(N, p - 1, 0)] = C[Minus(N, p - 1, f)]
    <3>1. p - 1 \in 0 .. N - 1 /\ Minus(N, p - 1, 0) = p - 1
      BY DEF Minus
    <3>2. QED
      BY <1>4, <3>1
  <2>2. Layout(N, 0, t) = Layout(N, f, C)
    BY <2>1 DEF Layout
  <2>3. QED
    BY <1>2, <2>2 DEF At, Rec
<1>6. Torn(N, n, s, f, l)
  <2>1. s \in [1 .. n -> Values]
    OBVIOUS
  <2>2. QED
    BY <1>1, <2>1 DEF Torn
<1>7. t \in [0 .. N - 1 -> Cells]
  <2>1. C \in [0 .. N - 1 -> Cells]
    BY <1>2, ContentIs
  <2>2. QED
    BY <1>4, <2>1
<1>8. Placed(N, n, s, f, f, 0, t)
  <2>1. ASSUME NEW q \in 0 .. n - 0 - 1 PROVE t[Where(N, f, f, 0, q)] = s[0 + q + 1]
    <3>1. q \in 0 .. N - 1 /\ q < n /\ 0 + q + 1 = q + 1
      OBVIOUS
    <3>2. Where(N, f, f, 0, q) = Plus(N, f, q)
      BY <1>1, <3>1 DEF Where, Plus
    <3>3. Plus(N, f, q) \in 0 .. N - 1 /\ Minus(N, Plus(N, f, q), f) = q
      <4>1. q \in 0 .. N
        BY <3>1
      <4>2. QED
        BY <3>1, <4>1, Around
    <3>4. PICK p : p = Where(N, f, f, 0, q)
      OBVIOUS
    <3>5. p \in 0 .. N - 1 /\ Minus(N, p, f) = q
      BY <3>2, <3>3, <3>4
    <3>6. t[p] = C[q] /\ C[q] = s[q + 1]
      BY ONLY <1>3, <1>4, <3>1, <3>5
    <3>7. QED
      BY ONLY <3>1, <3>4, <3>6
  <2>2. \A p \in 0 .. 0 - 1 : t[p] = s[p + 1]
    OBVIOUS
  <2>3. QED
    BY <2>1, <2>2 DEF Placed
<1>9. Holes(N, f, l, 0, t)
  <2>1. ASSUME NEW p \in 0 .. N - 1 PROVE (t[p] = Raw) <=> (l <= p /\ p < f /\ 0 <= p)
    <3>1. (Minus(N, p, f) < n) <=> ~(l <= p /\ p < f /\ 0 <= p)
      BY <1>1 DEF Minus
    <3>2. QED
      BY <1>3, <1>4, <3>1
  <2>2. QED
    BY <2>1 DEF Holes
<1>10. Stage(N, n, f, f, f, 0, 0, "outer")
  BY <1>1 DEF Stage
<1>11. QED
  BY <1>1, <1>5, <1>6, <1>7, <1>8, <1>9, <1>10 DEF Sits

\* The last m slots hold objects, and besides them the n items are the only ones.
Surplus(N, t, m) == \A p \in 0 .. N - 1 : p >= N - m => t[p] # Raw
Settled(N, n, s, t, m) ==
    /\ m \in 0 .. N /\ Surplus(N, t, m)
    /\ \A p \in 0 .. N - 1 : p < n => p < N - m /\ t[p] = s[p + 1]
    /\ \A p \in 0 .. N - 1 : ~(p < n) => p >= N - m \/ t[p] = Raw

\* The loops end with every item in place; the last slots hold what was moved from.
LEMMA LinearizeEnds ==
    ASSUME NEW N, NEW n, NEW s, NEW h, NEW l, NEW t, NEW e, NEW w, NEW f, NEW ii,
           Sits(N, n, s, h, l, t, e, w, f, ii, "done"), NEW m, m = Made(h, l, w)
    PROVE  Settled(N, n, s, t, m)
<1>1. /\ N \in Nat /\ h \in 1 .. N - 1 /\ l \in 1 .. h /\ n = N - h + l /\ n \in 0 .. N
      /\ w \in 0 .. n /\ f = w /\ e = w
      /\ (h <= w /\ w < N) \/ w = n
  BY SitsIs
<1>2. m \in 0 .. N
  BY <1>1 DEF Made
<1>3. ASSUME NEW p \in 0 .. N - 1
      PROVE  /\ p >= N - m => ~(l <= p /\ p < h /\ w <= p)
             /\ p < n => p < N - m
             /\ ~(p < n) => p >= N - m \/ (l <= p /\ p < h /\ w <= p)
  BY <1>1 DEF Made
<1>4. ASSUME NEW p \in 0 .. N - 1, p < n PROVE t[p] = s[p + 1]
  <2>1. CASE p < w
    <3>1. p \in 0 .. w - 1
      BY <1>1, <2>1
    <3>2. QED
      BY <3>1 DEF Sits, Placed
  <2>2. CASE ~(p < w)
    <3>1. /\ p - w \in 0 .. n - w - 1 /\ Where(N, f, e, w, p - w) = p
          /\ w + (p - w) + 1 = p + 1
      BY <1>1, <1>4, <2>2 DEF Where
    <3>2. t[Where(N, f, e, w, p - w)] = s[w + (p - w) + 1]
      BY <3>1 DEF Sits, Placed
    <3>3. QED
      BY <3>1, <3>2
  <2>3. QED
    BY <2>1, <2>2
<1>5. \A p \in 0 .. N - 1 : (t[p] = Raw) <=> (l <= p /\ p < h /\ w <= p)
  BY DEF Sits, Holes
<1>6. QED
  BY <1>2, <1>3, <1>4, <1>5 DEF Settled, Surplus

\* The steps, one after the other.
Loops(g, k, x) ==
    g = [i \in 0 .. k |-> IF i = 0 THEN x ELSE Ring!LinearizeStep(g[i - 1], i)]

LEMMA LinearizeLoops ==
    ASSUME NEW N, NEW n, NEW s, NEW h, NEW l, NEW t, Sits(N, n, s, h, l, t, h, 0, h, 0, "outer"),
           NEW x, IsState(x, N, n, h, l, t, h, 0, h, 0, "outer"), NEW k, k = 3 * N + 3
    PROVE  \E g : /\ Loops(g, k, x) /\ DOMAIN g = 0 .. k
                  /\ Gone(N, n, s, h, l, g[k], k)
<1>1. N \in Nat /\ k \in Nat /\ n \in 0 .. N
  BY SitsIs
<1> DEFINE S == {StateOf(N, n, h, l, u, a, v, g, jj, bt) :
                   u \in [0 .. N - 1 -> Cells], a \in 0 .. N, v \in 0 .. n, g \in 0 .. N, jj \in Nat,
                   bt \in {"outer", "inner", "done"}}
           T == [i \in 0 .. k |-> {d \in S : Gone(N, n, s, h, l, d, i)}]
           G == [i \in 1 .. k |-> [d \in S |-> Ring!LinearizeStep(d, i)]]
<1>2. ASSUME NEW d, NEW i, Gone(N, n, s, h, l, d, i) PROVE d \in S
  <2>1. PICK u, a, v, g, jj, bt :
          /\ d = StateOf(N, n, h, l, u, a, v, g, jj, bt)
          /\ Sits(N, n, s, h, l, u, a, v, g, jj, bt)
    BY <1>2 DEF Gone
  <2>2. u \in [0 .. N - 1 -> Cells]
    BY <2>1 DEF Sits
  <2>3. a \in 0 .. N /\ v \in 0 .. n /\ g \in 0 .. N /\ jj \in Nat /\ bt \in {"outer", "inner", "done"}
    BY <2>1, SitsIs
  <2>4. QED
    BY <2>1, <2>2, <2>3
<1>3. Gone(N, n, s, h, l, x, 0)
  <2>1. Effort(n, h, 0, 0, "outer") + 0 <= 3 * N + 3
    BY <1>1, SitsIs DEF Effort
  <2>2. QED
    BY <2>1 DEF Gone, IsState
<1>4. x \in T[0]
  <2>1. x \in S
    BY <1>2, <1>3
  <2> HIDE DEF S
  <2>2. QED
    BY <1>1, <1>3, <2>1
<1>5. ASSUME NEW i \in 1 .. k, NEW d \in T[i - 1]
      PROVE  d \in S /\ G[i][d] \in T[i] /\ G[i][d] = Ring!LinearizeStep(d, i)
  <2>1. i - 1 \in 0 .. k /\ i \in 0 .. k
    BY <1>1
  <2> HIDE DEF S
  <2>2. d \in S /\ Gone(N, n, s, h, l, d, i - 1)
    BY <2>1
  <2>3. Gone(N, n, s, h, l, Ring!LinearizeStep(d, i), i)
    BY <1>1, <2>2, GoneOn
  <2>4. Ring!LinearizeStep(d, i) \in S
    BY <1>2, <2>3
  <2>5. QED
    BY <2>1, <2>2, <2>3, <2>4
<1>6. PICK g \in [0 .. k -> S] :
        /\ g[0] = x /\ \A i \in 1 .. k : g[i] = G[i][g[i - 1]]
        /\ \A i \in 0 .. k : g[i] \in T[i]
  <2>1. \A i \in 1 .. k : \A d \in T[i - 1] : G[i][d] \in T[i]
    <3> HIDE DEF T, S, G
    <3>1. QED
      BY <1>5
  <2>2. T \in [0 .. k -> SUBSET S]
    <3> HIDE DEF S
    <3>1. QED
      OBVIOUS
  <2> HIDE DEF T, G, S
  <2>3. Leads(k, S, T, G, x)
    BY <1>4, <2>1, <2>2 DEF Leads
  <2>4. QED
    BY <1>1, <2>3, LoopExists
<1>7. \A i \in 0 .. k : g[i] = IF i = 0 THEN x ELSE Ring!LinearizeStep(g[i - 1], i)
  <2> HIDE DEF S, T, G
  <2>1. ASSUME NEW i \in 1 .. k PROVE g[i] = Ring!LinearizeStep(g[i - 1], i)
    <3>1. i - 1 \in 0 .. k
      BY <1>1
    <3>2. QED
      BY <1>5, <1>6, <3>1
  <2>2. \A i \in 0 .. k : i = 0 \/ i \in 1 .. k
    BY <1>1
  <2>3. QED
    BY <1>6, <2>1, <2>2
<1>8. Loops(g, k, x) /\ DOMAIN g = 0 .. k
  <2> HIDE DEF S, T, G
  <2>1. g = [i \in 0 .. k |-> g[i]]
    BY <1>6
  <2>2. QED
    BY <1>6, <1>7, <2>1 DEF Loops
<1>9. Gone(N, n, s, h, l, g[k], k)
  <2>1. k \in 0 .. k
    BY <1>1
  <2>2. g[k] \in T[k]
    <3> HIDE DEF S, T, G
    <3>1. QED
      BY <1>6, <2>1
  <2> HIDE DEF S
  <2>3. QED
    BY <2>1, <2>2
<1>10. QED
  <2> HIDE DEF S, T, G
  <2>1. QED
    BY <1>8, <1>9

\* The two loops, as linearize() runs them.
Start(c) == [c |-> c, src |-> c.first, dest |-> 0, first |-> c.first, moved |-> 0,
             made |-> 0, ii |-> 0, at |-> "outer"]
Looping(c) ==
    LET F(h) == [i \in 0 .. 3 * Ring!capacity(c) + 3 |->
                    IF i = 0 THEN Start(c) ELSE Ring!LinearizeStep(h[i - 1], i)]
        loop == CHOOSE h : h = F(h)
    IN  loop[3 * Ring!capacity(c) + 3]
Dropping(c, d0, m) ==
    LET F(h) == [i \in 0 .. m |->
                    IF i = 0 THEN d0 ELSE Ring!destroy_item(h[i - 1], Ring!capacity(c) - i)]
        loop == CHOOSE h : h = F(h)
    IN  loop[m]

LEMMA LinearizeRuns ==
    ASSUME NEW c
    PROVE  Ring!linearize(c) =
             IF c.size = 0 \/ Ring!is_linear(c) THEN c
             ELSE Ring!Ends(Dropping(c, IF Looping(c).at = "done" THEN Looping(c).c
                                        ELSE Ring!Misused(Looping(c).c), Looping(c).made),
                            0, Ring!add(c, 0, c.size), c.size)
BY DEF Ring!linearize, Ring!Repeat, Looping, Dropping, Start

LEMMA LinearLoops ==
    ASSUME NEW c, NEW k \in Nat, k = 3 * Ring!capacity(c) + 3, NEW g, Loops(g, k, Start(c)),
           DOMAIN g = 0 .. k
    PROVE  Looping(c) = g[k]
<1> DEFINE x == Start(c)
           F(h) == [i \in 0 .. 3 * Ring!capacity(c) + 3 |-> IF i = 0 THEN x ELSE Ring!LinearizeStep(h[i - 1], i)]
           loop == CHOOSE h : h = F(h)
<1> HIDE DEF x
<1>1. g = F(g)
  BY DEF Loops, x
<1>2. loop = F(loop)
  <2> HIDE DEF F
  <2>1. QED
    BY <1>1
<1>3. loop[k] = g[k]
  <2> HIDE DEF loop
  <2>1. \A i \in 0 .. k : loop[i] = IF i = 0 THEN x ELSE Ring!LinearizeStep(loop[i - 1], i)
    BY <1>2
  <2>2. \A i \in 0 .. k : g[i] = IF i = 0 THEN x ELSE Ring!LinearizeStep(g[i - 1], i)
    BY <1>1
  <2>3. 0 \in 0 .. k /\ k \in 0 .. k /\ \A i \in 1 .. k : i # 0 /\ i \in 0 .. k
    OBVIOUS
  <2> HIDE DEF F
  <2>4. GoAlike(loop, g, k)
    BY <2>1, <2>2, <2>3 DEF GoAlike
  <2>5. QED
    BY <2>3, <2>4, SameLoop
<1>4. Looping(c) = loop[3 * Ring!capacity(c) + 3]
  BY DEF Looping, x
<1>5. QED
  BY <1>3, <1>4

\* The objects that were moved from are destroyed.
Drops(v, N, t, m, c, d0, f, l, z) ==
    /\ v = [p \in 0 .. N - 1 |-> IF p >= N - m THEN Raw ELSE t[p]]
    /\ Ring!capacity(c) = N /\ d0 = Rec(N, 0, t, f, l, z) /\ Surplus(N, t, m)

LEMMA DropsAre ==
    ASSUME NEW N \in Nat, NEW t \in [0 .. N - 1 -> Cells], NEW f, NEW l, NEW z, 0 \in 0 .. N - 1,
           NEW c, NEW d0, NEW m \in 0 .. N, NEW v, Drops(v, N, t, m, c, d0, f, l, z)
    PROVE  Dropping(c, d0, m) = Rec(N, 0, v, f, l, z)
<1> DEFINE n == m
<1>n. n = m /\ n \in Nat
  OBVIOUS
<1> DEFINE Dropped(i) == [p \in 0 .. N - 1 |-> IF p >= N - i THEN Raw ELSE t[p]]
           start == d0
           Body(d, i) == Ring!destroy_item(d, Ring!capacity(c) - i)
           Closed(i) == Rec(N, 0, Dropped(i), f, l, z)
           F(h) == [i \in 0 .. n |-> IF i = 0 THEN start ELSE Body(h[i - 1], i)]
           loop == CHOOSE h : h = F(h)
<1> HIDE DEF n
<1>d. /\ v = [p \in 0 .. N - 1 |-> IF p >= N - m THEN Raw ELSE t[p]]
      /\ Ring!capacity(c) = N /\ d0 = Rec(N, 0, t, f, l, z) /\ Surplus(N, t, m)
  BY DEF Drops
<1>1. start = Closed(0)
  <2>1. \A p \in 0 .. N - 1 : ~(p >= N - 0)
    OBVIOUS
  <2>2. t = [p \in 0 .. N - 1 |-> t[p]]
    OBVIOUS
  <2>3. Dropped(0) = t
    BY <2>1, <2>2
  <2> HIDE DEF Dropped
  <2>4. QED
    BY <1>d, <2>3
<1>2. ASSUME NEW i \in 1 .. n PROVE Closed(i) = Body(Closed(i - 1), i)
  <2>1. PICK u, w, d, p : u = Dropped(i - 1) /\ w = Dropped(i) /\ d = Closed(i - 1) /\ p = N - i
    OBVIOUS
  <2>2. i \in 1 .. N /\ p \in 0 .. N - 1 /\ p >= N - m /\ ~(p >= N - (i - 1)) /\ Plus(N, 0, p) = p
    BY <1>n, <2>1 DEF Plus
  <2>3. u \in [0 .. N - 1 -> Cells] /\ u[p] = t[p] /\ u[p] # Raw
    BY <1>d, <2>1, <2>2 DEF Cells, Surplus
  <2>4. Put(u, p, Raw) = w
    <3>1. ASSUME NEW q \in 0 .. N - 1 PROVE Put(u, p, Raw)[q] = w[q]
      <4>1. CASE q = p
        <5>1. q >= N - i
          BY <2>1, <4>1
        <5>2. w[q] = Raw
          BY <2>1, <5>1
        <5>3. QED
          BY <2>3, <4>1, <5>2 DEF Put
      <4>2. CASE q # p
        <5>1. Put(u, p, Raw)[q] = u[q]
          BY <2>3, <4>2 DEF Put
        <5>2. (q >= N - i) <=> (q >= N - (i - 1))
          BY <2>1, <2>2, <4>2
        <5>3. u[q] = w[q]
          BY <2>1, <5>2
        <5>4. QED
          BY <5>1, <5>3
      <4>3. QED
        BY <4>1, <4>2
    <3>2. DOMAIN Put(u, p, Raw) = 0 .. N - 1 /\ Put(u, p, Raw) = [q \in 0 .. N - 1 |-> Put(u, p, Raw)[q]]
      BY <2>3 DEF Put
    <3>3. w = [q \in 0 .. N - 1 |-> w[q]]
      BY <2>1
    <3>4. QED
      BY <3>1, <3>2, <3>3
  <2> HIDE DEF Dropped
  <2>5. IsSlot(p, p, d, N, 0, u, f, l, z)
    BY <2>1, <2>2, <2>3 DEF IsSlot
  <2>6. Ring!destroy_item(d, p) = Rec(N, 0, Put(u, p, Raw), f, l, z)
    BY <2>3, <2>5, Destroys
  <2>7. Closed(i) = Ring!destroy_item(d, p)
    BY <2>1, <2>4, <2>6
  <2>8. QED
    <3> HIDE DEF Closed
    <3>1. QED
      BY <1>d, <2>1, <2>7
<1> HIDE DEF Dropped
<1>3. loop[n] = Closed(n)
  <2> DEFINE g == [i \in 0 .. n |-> Closed(i)]
  <2> HIDE DEF Body, Closed
  <2>1. \A i \in 0 .. n : g[i] = IF i = 0 THEN start ELSE Body(g[i - 1], i)
    <3>1. ASSUME NEW i \in 0 .. n PROVE g[i] = IF i = 0 THEN start ELSE Body(g[i - 1], i)
      <4>1. CASE i = 0
        BY <1>1, <4>1
      <4>2. CASE i # 0
        <5>1. i \in 1 .. n /\ i - 1 \in 0 .. n
          BY <1>n, <4>2
        <5>2. g[i - 1] = Closed(i - 1) /\ g[i] = Closed(i)
          BY <5>1
        <5>3. QED
          BY <1>2, <4>2, <5>1, <5>2
      <4>3. QED
        BY <4>1, <4>2
    <3>2. QED
      BY <3>1
  <2>2. g = F(g)
    <3>1. g = [i \in 0 .. n |-> g[i]]
      OBVIOUS
    <3> HIDE DEF g
    <3>2. QED
      BY <2>1, <3>1
  <2>3. loop = F(loop)
    <3> HIDE DEF F, g
    <3>1. QED
      BY <2>2
  <2> HIDE DEF loop
  <2>4. \A i \in 0 .. n : loop[i] = IF i = 0 THEN start ELSE Body(loop[i - 1], i)
    BY <2>3
  <2>5. GoAlike(loop, g, n)
    <3>1. 0 \in 0 .. n /\ \A i \in 1 .. n : i # 0 /\ i \in 0 .. n
      BY <1>n
    <3> HIDE DEF g, F
    <3>2. QED
      BY <2>1, <2>4, <3>1 DEF GoAlike
  <2>6. loop[n] = g[n] /\ g[n] = Closed(n)
    <3>1. n \in 0 .. n
      BY <1>n
    <3>2. QED
      BY <1>n, <2>5, <3>1, SameLoop
  <2>7. QED
    BY <2>6
<1>4. QED
  BY <1>d, <1>3 DEF n, Dropped, Dropping

LEMMA LinearizeIs ==
    ASSUME NEW N, NEW f, NEW s, Fits(N, f, s)
    PROVE  \E g : /\ Ring!linearize(At(N, f, s)) = At(N, g, s) /\ Fits(N, g, s)
                  /\ Len(s) # 0 => g + Len(s) <= N
<1>1. PICK c, n, l : c = At(N, f, s) /\ n = Len(s) /\ l = Plus(N, f, n)
  OBVIOUS
<1>2. /\ N \in Nat /\ n \in 0 .. N /\ s \in Seq(Values) /\ c.first = f /\ c.last = l /\ c.size = n
      /\ Ring!capacity(c) = N /\ (N # 0 => f \in 0 .. N - 1) /\ (N = 0 => f = 0)
  BY <1>1, AtIs
<1>3. CASE n = 0 \/ f < l \/ l = 0
  <2>1. Ring!linearize(c) = c
    BY <1>2, <1>3 DEF Ring!linearize, Ring!is_linear
  <2>2. n # 0 => f + n <= N
    <3>1. N \in Nat /\ n \in 0 .. N /\ (N # 0 => f \in 0 .. N - 1) /\ l = Plus(N, f, n)
      BY <1>1, <1>2
    <3>2. QED
      BY ONLY <3>1, <1>3 DEF Plus
  <2>3. QED
    BY <1>1, <2>1, <2>2
<1>4. CASE n # 0 /\ ~(f < l) /\ l # 0
  <2>1. PICK t, k, x :
          /\ t = [p \in 0 .. N - 1 |-> Content(N, s)[Minus(N, p, f)]]
          /\ k = 3 * N + 3 /\ x = Start(c)
    OBVIOUS
  <2>2. /\ c = Rec(N, 0, t, f, l, n)
        /\ Sits(N, n, s, f, l, t, f, 0, f, 0, "outer")
        /\ f \in 1 .. N - 1 /\ l \in 1 .. f
    <3>1. n \in 1 .. N /\ f \in 0 .. N - 1
      BY <1>2, <1>4
    <3>2. QED
      BY <1>1, <1>2, <1>4, <2>1, <3>1, LinearizeStarts
  <2>3. IsState(x, N, n, f, l, t, f, 0, f, 0, "outer")
    <3>1. Made(f, l, 0) = 0
      BY <2>2 DEF Made
    <3>2. QED
      BY <1>2, <2>1, <2>2, <3>1 DEF StateOf, IsState, Start
  <2>4. PICK g : Loops(g, k, x) /\ DOMAIN g = 0 .. k /\ Gone(N, n, s, f, l, g[k], k)
    BY <2>1, <2>2, <2>3, LinearizeLoops
  <2>5. PICK u, a, w, h, jj :
          /\ g[k] = StateOf(N, n, f, l, u, a, w, h, jj, "done")
          /\ Sits(N, n, s, f, l, u, a, w, h, jj, "done")
    <3>1. PICK u, a, w, h, jj, bt :
            /\ g[k] = StateOf(N, n, f, l, u, a, w, h, jj, bt)
            /\ Sits(N, n, s, f, l, u, a, w, h, jj, bt)
            /\ bt = "done" \/ Effort(n, a, w, jj, bt) + k <= 3 * N + 3
      BY <2>4 DEF Gone
    <3>2. bt = "done"
      <4>1. SUFFICES ASSUME bt # "done" PROVE FALSE
        OBVIOUS
      <4>2. PICK y : y = Effort(n, a, w, jj, bt)
        OBVIOUS
      <4>3. y \in Nat /\ y # 0 /\ y + k <= 3 * N + 3
        BY <3>1, <4>1, <4>2, EffortIs
      <4>4. QED
        BY ONLY <4>3, <2>1, <1>2
    <3>3. QED
      BY <3>1, <3>2
  <2>6. PICK d, m, v :
          /\ d = Rec(N, 0, u, f, l, n) /\ m = Made(f, l, w)
          /\ v = [p \in 0 .. N - 1 |-> IF p >= N - m THEN Raw ELSE u[p]]
    OBVIOUS
  <2>7. g[k].at = "done" /\ g[k].c = d /\ g[k].made = m
    BY <2>5, <2>6 DEF StateOf
  <2>8. Settled(N, n, s, u, m)
    BY <2>5, <2>6, LinearizeEnds
  <2>u. u \in [0 .. N - 1 -> Cells]
    BY <2>5 DEF Sits
  <2>9. Looping(c) = g[k]
    <3>1. k \in Nat /\ k = 3 * Ring!capacity(c) + 3
      BY <1>2, <2>1
    <3>2. QED
      BY <2>1, <2>4, <3>1, LinearLoops
  <2>10. Dropping(c, d, m) = Rec(N, 0, v, f, l, n)
    <3>1. 0 \in 0 .. N - 1 /\ m \in 0 .. N /\ Surplus(N, u, m)
      BY <1>2, <2>2, <2>8 DEF Settled
    <3>2. Drops(v, N, u, m, c, d, f, l, n)
      BY <1>2, <2>6, <3>1 DEF Drops
    <3>3. m \in 0 .. N
      BY <3>1
    <3>4. QED
      BY ONLY <1>2, <2>u, <3>1, <3>2, <3>3, DropsAre
  <2>11. v = Content(N, s)
    <3>1. ASSUME NEW p \in 0 .. N - 1
          PROVE  v[p] = IF p < Len(s) THEN s[p + 1] ELSE Raw
      <4>0. v[p] = IF p >= N - m THEN Raw ELSE u[p]
        BY <2>6
      <4>1. CASE p < n
        <5>1. p < N - m /\ u[p] = s[p + 1] /\ m \in 0 .. N
          BY <2>8, <4>1 DEF Settled
        <5>2. ~(p >= N - m)
          BY ONLY <5>1, <1>2, p \in 0 .. N - 1
        <5>3. QED
          BY ONLY <1>1, <4>0, <4>1, <5>1, <5>2
      <4>2. CASE ~(p < n)
        <5>1. p >= N - m \/ u[p] = Raw
          BY <2>8, <4>2 DEF Settled
        <5>2. QED
          BY ONLY <1>1, <4>0, <4>2, <5>1
      <4>3. QED
        BY <4>1, <4>2
    <3>2. v = [p \in 0 .. N - 1 |-> v[p]]
      BY <2>6
    <3>3. QED
      BY <3>1, <3>2 DEF Content
  <2>12. Ring!linearize(c) = Ring!Ends(Dropping(c, d, m), 0, Ring!add(c, 0, n), n)
    <3>1. c.size = n /\ ~Ring!is_linear(c) /\ c.size # 0
      BY <1>2, <1>4 DEF Ring!is_linear
    <3>2. PICK e : e = Looping(c) /\ e.at = "done" /\ e.c = d /\ e.made = m
      BY <2>7, <2>9
    <3>3. Ring!linearize(c) =
             Ring!Ends(Dropping(c, IF Looping(c).at = "done" THEN Looping(c).c
                                   ELSE Ring!Misused(Looping(c).c), Looping(c).made),
                       0, Ring!add(c, 0, c.size), c.size)
      BY ONLY <3>1, LinearizeRuns
    <3>4. QED
      BY ONLY <3>1, <3>2, <3>3
  <2>13. Ring!Ends(Dropping(c, d, m), 0, Ring!add(c, 0, n), n) = At(N, 0, s)
    <3>1. IsRec(c, N, 0, t, f, l, n)
      BY <1>2, <2>2 DEF IsRec
    <3>2. Ring!add(c, 0, n) = Plus(N, 0, n)
      BY <3>1, Pointers
    <3>3. Dropping(c, d, m) = Rec(N, 0, Content(N, s), f, l, n)
      BY <2>10, <2>11
    <3>4. Ring!Ends(Dropping(c, d, m), 0, Plus(N, 0, n), n) = Rec(N, 0, Content(N, s), 0, Plus(N, 0, n), n)
      BY <3>3, EndsAre
    <3>5. QED
      BY <1>1, <3>2, <3>4 DEF At
  <2>14. Fits(N, 0, s) /\ 0 + n <= N
    <3>1. 0 \in 0 .. N - 1 /\ Len(s) <= N
      BY <1>1, <1>2, <2>2
    <3>2. QED
      BY <1>1, <1>2, <3>1 DEF Fits
  <2>15. QED
    <3>1. Ring!linearize(At(N, f, s)) = At(N, 0, s)
      BY <1>1, <2>12, <2>13
    <3>2. QED
      BY <1>1, <2>14, <3>1
<1>5. QED
  BY <1>3, <1>4

----------------------------------------------------------------------------
(* The same lists, as RingOps writes them *)

LEMMA PartsAre ==
    ASSUME NEW s \in Seq(Values), NEW n \in 0 .. Len(s)
    PROVE  /\ SubSeq(s, 1, n) = Front(s, n)
           /\ SubSeq(s, n + 1, Len(s)) = Back(s, Len(s) - n)
<1>0. PICK z : z = Len(s)
  OBVIOUS
<1>1. z \in Nat /\ n \in 0 .. z /\ s \in [1 .. z -> Values]
  BY <1>0, LenProperties
<1>2. \A i \in 1 .. z : s[i] \in Values
  BY <1>1
<1>3. Front(s, n) \in Seq(Values) /\ Len(Front(s, n)) = n
  BY Lists
<1>4. Back(s, z - n) \in Seq(Values) /\ Len(Back(s, z - n)) = z - n
  <2>1. z - n \in 0 .. Len(s)
    BY <1>0, <1>1
  <2>2. QED
    BY <2>1, Lists
<1>5. SubSeq(s, 1, n) = Front(s, n)
  <2>1. /\ SubSeq(s, 1, n) \in Seq(Values)
        /\ Len(SubSeq(s, 1, n)) = (IF 1 <= n THEN n - 1 + 1 ELSE 0)
        /\ \A i \in 1 .. n - 1 + 1 : SubSeq(s, 1, n)[i] = s[1 + i - 1]
    <3>1. 1 \in Int /\ n \in Int /\ \A i \in 1 .. n : s[i] \in Values
      BY <1>1, <1>2
    <3>2. QED
      BY <3>1, SubSeqProperties
  <2>2. \A i \in 1 .. n : SubSeq(s, 1, n)[i] = Front(s, n)[i]
    <3>1. \A i \in 1 .. n : i \in 1 .. n - 1 + 1 /\ 1 + i - 1 = i
      BY <1>1
    <3>2. QED
      BY <2>1, <3>1 DEF Front
  <2>3. Len(SubSeq(s, 1, n)) = n
    BY <1>1, <2>1
  <2>4. QED
    BY <1>3, <2>1, <2>2, <2>3, SeqEqual
<1>6. SubSeq(s, n + 1, z) = Back(s, z - n)
  <2>1. /\ SubSeq(s, n + 1, z) \in Seq(Values)
        /\ Len(SubSeq(s, n + 1, z)) = (IF n + 1 <= z THEN z - (n + 1) + 1 ELSE 0)
        /\ \A i \in 1 .. z - (n + 1) + 1 : SubSeq(s, n + 1, z)[i] = s[n + 1 + i - 1]
    <3>1. n + 1 \in Int /\ z \in Int /\ \A i \in n + 1 .. z : s[i] \in Values
      BY <1>1, <1>2
    <3>2. QED
      BY <3>1, SubSeqProperties
  <2>2. \A i \in 1 .. z - n : SubSeq(s, n + 1, z)[i] = Back(s, z - n)[i]
    <3>1. \A i \in 1 .. z - n : i \in 1 .. z - (n + 1) + 1 /\ n + 1 + i - 1 = z - (z - n) + i
      BY <1>1
    <3>2. QED
      BY <1>0, <2>1, <3>1 DEF Back
  <2>3. Len(SubSeq(s, n + 1, z)) = z - n
    BY <1>1, <2>1
  <2>4. QED
    BY <1>4, <2>1, <2>2, <2>3, SeqEqual
<1>7. QED
  BY <1>0, <1>5, <1>6

LEMMA CopiesAre ==
    ASSUME NEW n \in Nat, NEW x \in Values
    PROVE  /\ Ring!Ring!Copies(n, x) \in Seq(Values) /\ Len(Ring!Ring!Copies(n, x)) = n
           /\ \A i \in 1 .. n : Ring!Ring!Copies(n, x)[i] = x
BY DEF Ring!Ring!Copies

LEMMA PutIn ==
    ASSUME NEW s \in Seq(Values), NEW k \in 0 .. Len(s), NEW n \in Nat, NEW x \in Values
    PROVE  Front(s, k) \o Ring!Ring!Copies(n, x) \o Back(s, Len(s) - k) = Inserted(s, k, n, x)
<1>0. PICK z, a, b, c, r :
        /\ z = Len(s) /\ a = Front(s, k) /\ b = Ring!Ring!Copies(n, x) /\ c = Back(s, Len(s) - k)
        /\ r = Inserted(s, k, n, x)
  OBVIOUS
<1>1. z \in Nat /\ k \in 0 .. z /\ k \in Nat /\ z - k \in Nat /\ n \in Nat
  BY <1>0, LenProperties
<1>2. a \in Seq(Values) /\ Len(a) = k /\ \A i \in 1 .. k : a[i] = s[i]
  BY <1>0, Lists DEF Front
<1>3. b \in Seq(Values) /\ Len(b) = n /\ \A i \in 1 .. n : b[i] = x
  BY <1>0, CopiesAre
<1>4. c \in Seq(Values) /\ Len(c) = z - k /\ \A i \in 1 .. z - k : c[i] = s[k + i]
  <2>1. z - k \in 0 .. Len(s) /\ \A i \in 1 .. z - k : z - (z - k) + i = k + i
    BY <1>0, <1>1
  <2>2. c \in Seq(Values) /\ Len(c) = z - k
    BY <1>0, <2>1, Lists
  <2>3. \A i \in 1 .. z - k : c[i] = s[k + i]
    BY <1>0, <2>1 DEF Back
  <2>4. QED
    BY <2>2, <2>3
<1>5. r \in Seq(Values) /\ Len(r) = z + n
      /\ \A i \in 1 .. z + n : r[i] = IF i <= k THEN s[i] ELSE IF i <= k + n THEN x ELSE s[i - n]
  <2>1. r \in Seq(Values) /\ Len(r) = z + n
    BY <1>0, <1>1, InsertedIs
  <2>2. \A i \in 1 .. z + n : r[i] = IF i <= k THEN s[i] ELSE IF i <= k + n THEN x ELSE s[i - n]
    BY <1>0 DEF Inserted
  <2>3. QED
    BY <2>1, <2>2
<1>6. a \o b \in Seq(Values) /\ Len(a \o b) = k + n
      /\ \A i \in 1 .. k + n : (a \o b)[i] = IF i <= k THEN a[i] ELSE b[i - k]
  <2>1. a \o b \in Seq(Values) /\ Len(a \o b) = Len(a) + Len(b)
        /\ \A i \in 1 .. Len(a) + Len(b) : (a \o b)[i] = IF i <= Len(a) THEN a[i] ELSE b[i - Len(a)]
    BY <1>2, <1>3, ConcatProperties
  <2>2. QED
    BY <1>2, <1>3, <2>1
<1>7. PICK d : d = a \o b
  OBVIOUS
<1>8. d \o c \in Seq(Values) /\ Len(d \o c) = k + n + (z - k)
      /\ \A i \in 1 .. k + n + (z - k) : (d \o c)[i] = IF i <= k + n THEN d[i] ELSE c[i - (k + n)]
  <2>1. d \o c \in Seq(Values) /\ Len(d \o c) = Len(d) + Len(c)
        /\ \A i \in 1 .. Len(d) + Len(c) : (d \o c)[i] = IF i <= Len(d) THEN d[i] ELSE c[i - Len(d)]
    <3>1. c \in Seq(Values) /\ d \in Seq(Values)
      BY <1>4, <1>6, <1>7
    <3>2. QED
      BY ONLY <3>1, ConcatProperties
  <2>2. QED
    BY <1>4, <1>6, <1>7, <2>1
<1>9. ASSUME NEW i \in 1 .. z + n PROVE (d \o c)[i] = r[i]
  <2>0. i \in 1 .. k + n + (z - k) /\ i \in Int
    BY <1>1
  <2>1. CASE i <= k
    <3>1. i <= k + n /\ i \in 1 .. k + n /\ i \in 1 .. k
      BY <1>1, <2>0, <2>1
    <3>2. QED
      BY <1>2, <1>5, <1>6, <1>7, <1>8, <2>0, <2>1, <3>1
  <2>2. CASE ~(i <= k) /\ i <= k + n
    <3>1. i \in 1 .. k + n /\ i - k \in 1 .. n
      BY <1>1, <2>0, <2>2
    <3>2. QED
      BY <1>3, <1>5, <1>6, <1>7, <1>8, <2>0, <2>2, <3>1
  <2>3. CASE ~(i <= k) /\ ~(i <= k + n)
    <3>1. i - (k + n) \in 1 .. z - k /\ k + (i - (k + n)) = i - n
      BY <1>1, <2>0, <2>3
    <3>2. QED
      BY <1>4, <1>5, <1>8, <2>0, <2>3, <3>1
  <2>4. QED
    BY <2>1, <2>2, <2>3
<1>10. Len(d \o c) = z + n
  BY <1>1, <1>8
<1>11. d \o c = r
  BY <1>5, <1>8, <1>9, <1>10, SeqEqual
<1>12. QED
  BY <1>0, <1>7, <1>11

LEMMA CutOut ==
    ASSUME NEW s \in Seq(Values), NEW k, NEW m, Span(s, k, m)
    PROVE  Front(s, k) \o Back(s, Len(s) - m) = Removed(s, k, m)
<1>0. PICK z, a, c, r :
        /\ z = Len(s) /\ a = Front(s, k) /\ c = Back(s, Len(s) - m) /\ r = Removed(s, k, m)
  OBVIOUS
<1>1. z \in Nat /\ k \in 0 .. z /\ m \in 0 .. z /\ k <= m
  BY <1>0, LenProperties DEF Span
<1>2. a \in Seq(Values) /\ Len(a) = k /\ \A i \in 1 .. k : a[i] = s[i]
  BY <1>0, <1>1, Lists DEF Front
<1>4. c \in Seq(Values) /\ Len(c) = z - m /\ \A i \in 1 .. z - m : c[i] = s[m + i]
  <2>1. z - m \in 0 .. Len(s) /\ \A i \in 1 .. z - m : z - (z - m) + i = m + i
    BY <1>0, <1>1
  <2>2. c \in Seq(Values) /\ Len(c) = z - m
    BY <1>0, <2>1, Lists
  <2>3. \A i \in 1 .. z - m : c[i] = s[m + i]
    BY <1>0, <2>1 DEF Back
  <2>4. QED
    BY <2>2, <2>3
<1>5. r \in Seq(Values) /\ Len(r) = z - (m - k)
      /\ \A i \in 1 .. z - (m - k) : r[i] = IF i <= k THEN s[i] ELSE s[i + (m - k)]
  <2>1. r \in Seq(Values) /\ Len(r) = z - (m - k)
    BY <1>0, <1>1, Lists
  <2>2. \A i \in 1 .. z - (m - k) : r[i] = IF i <= k THEN s[i] ELSE s[i + (m - k)]
    BY <1>0 DEF Removed
  <2>3. QED
    BY <2>1, <2>2
<1>6. a \o c \in Seq(Values) /\ Len(a \o c) = k + (z - m)
      /\ \A i \in 1 .. k + (z - m) : (a \o c)[i] = IF i <= k THEN a[i] ELSE c[i - k]
  <2>1. a \o c \in Seq(Values) /\ Len(a \o c) = Len(a) + Len(c)
        /\ \A i \in 1 .. Len(a) + Len(c) : (a \o c)[i] = IF i <= Len(a) THEN a[i] ELSE c[i - Len(a)]
    BY <1>2, <1>4, ConcatProperties
  <2>2. QED
    BY <1>2, <1>4, <2>1
<1>7. ASSUME NEW i \in 1 .. z - (m - k) PROVE (a \o c)[i] = r[i]
  <2>0. i \in 1 .. k + (z - m) /\ i \in Int
    BY <1>1
  <2>1. CASE i <= k
    <3>1. i \in 1 .. k
      BY <1>1, <2>0, <2>1
    <3>2. QED
      BY <1>2, <1>5, <1>6, <2>0, <2>1, <3>1
  <2>2. CASE ~(i <= k)
    <3>1. i - k \in 1 .. z - m /\ m + (i - k) = i + (m - k)
      BY <1>1, <2>0, <2>2
    <3>2. QED
      BY <1>4, <1>5, <1>6, <2>0, <2>2, <3>1
  <2>3. QED
    BY <2>1, <2>2
<1>8. Len(a \o c) = z - (m - k)
  BY <1>1, <1>6
<1>9. a \o c = r
  BY <1>5, <1>6, <1>7, <1>8, SeqEqual
<1>10. QED
  BY <1>0, <1>9

LEMMA Whole ==
    ASSUME NEW s \in Seq(Values)
    PROVE  /\ Front(s, Len(s)) = s /\ Back(s, Len(s)) = s
           /\ Front(s, 0) = << >> /\ Back(s, 0) = << >>
<1>0. PICK z : z = Len(s)
  OBVIOUS
<1>1. z \in Nat /\ z \in 0 .. Len(s) /\ 0 \in 0 .. Len(s)
  BY <1>0, LenProperties
<1>2. /\ Front(s, z) \in Seq(Values) /\ Len(Front(s, z)) = z
      /\ Back(s, z) \in Seq(Values) /\ Len(Back(s, z)) = z
      /\ Front(s, 0) \in Seq(Values) /\ Len(Front(s, 0)) = 0
      /\ Back(s, 0) \in Seq(Values) /\ Len(Back(s, 0)) = 0
  BY <1>1, Lists
<1>3. \A i \in 1 .. z : Front(s, z)[i] = s[i] /\ Back(s, z)[i] = s[i]
  <2>1. \A i \in 1 .. z : z - z + i = i
    BY <1>1
  <2>2. QED
    BY <1>0, <2>1 DEF Front, Back
<1>4. Front(s, z) = s /\ Back(s, z) = s
  BY <1>0, <1>2, <1>3, SeqEqual
<1>5. Front(s, 0) = << >> /\ Back(s, 0) = << >>
  BY <1>2, EmptySeq, Zenon
<1>6. QED
  BY <1>0, <1>4, <1>5

LEMMA AddedAtEnds ==
    ASSUME NEW s \in Seq(Values), NEW n \in Nat, NEW x \in Values
    PROVE  /\ s \o Ring!Ring!Copies(n, x) = Inserted(s, Len(s), n, x)
           /\ Ring!Ring!Copies(n, x) \o s = Inserted(s, 0, n, x)
<1>1. PICK z, b : z = Len(s) /\ b = Ring!Ring!Copies(n, x)
  OBVIOUS
<1>2. z \in Nat /\ z \in 0 .. Len(s) /\ 0 \in 0 .. Len(s) /\ z - z = 0 /\ z - 0 = z
      /\ b \in Seq(Values)
  BY <1>1, LenProperties, CopiesAre
<1>3. Front(s, z) \o b \o Back(s, z - z) = Inserted(s, z, n, x)
  BY <1>1, <1>2, PutIn
<1>4. Front(s, 0) \o b \o Back(s, z - 0) = Inserted(s, 0, n, x)
  BY <1>1, <1>2, PutIn
<1>5. Front(s, z) = s /\ Back(s, z) = s /\ Front(s, 0) = << >> /\ Back(s, 0) = << >>
  BY <1>1, Whole
<1>6. s \o b = Inserted(s, z, n, x)
  <2>1. s \o b \in Seq(Values)
    BY <1>2, ConcatProperties
  <2>2. (s \o b) \o << >> = s \o b
    BY <2>1, ConcatEmptySeq
  <2>3. QED
    BY <1>2, <1>3, <1>5, <2>2
<1>7. b \o s = Inserted(s, 0, n, x)
  <2>1. << >> \o b = b
    BY <1>2, ConcatEmptySeq
  <2>2. QED
    BY <1>2, <1>4, <1>5, <2>1
<1>8. QED
  BY <1>1, <1>6, <1>7

LEMMA OneAdded ==
    ASSUME NEW s \in Seq(Values), NEW x \in Values
    PROVE  /\ Append(s, x) = Inserted(s, Len(s), 1, x)
           /\ <<x>> \o s = Inserted(s, 0, 1, x)
<1>1. PICK b : b = Ring!Ring!Copies(1, x)
  OBVIOUS
<1>2. b \in Seq(Values) /\ Len(b) = 1 /\ \A i \in 1 .. 1 : b[i] = x
  BY <1>1, CopiesAre
<1>3. <<x>> \in Seq(Values) /\ Len(<<x>>) = 1 /\ \A i \in 1 .. 1 : <<x>>[i] = x
  OBVIOUS
<1>4. b = <<x>>
  BY <1>2, <1>3, SeqEqual
<1>5. Append(s, x) = s \o <<x>>
  BY AppendIsConcat
<1>6. s \o b = Inserted(s, Len(s), 1, x) /\ b \o s = Inserted(s, 0, 1, x)
  BY <1>1, AddedAtEnds
<1>7. QED
  BY <1>4, <1>5, <1>6

LEMMA Restricted ==
    ASSUME NEW r \in Seq(Values), NEW n \in Nat
    PROVE  /\ Ring!Ring!First(n, r) = Early(n, r)
           /\ Ring!Ring!Latest(n, r) = Late(n, r)
           /\ Early(n, r) = Front(r, Ring!Least(n, Len(r)))
           /\ Late(n, r) = Back(r, Ring!Least(n, Len(r)))
<1>1. PICK z, m : z = Len(r) /\ m = IF n < z THEN n ELSE z
  OBVIOUS
<1>2. /\ z \in Nat /\ m \in 0 .. z /\ z - m \in 0 .. z /\ z - (z - m) = m
      /\ z > n => m = n
      /\ ~(z > n) => m = z
  BY <1>1, LenProperties
<1>3. Ring!Least(n, z) = m /\ Ring!Ring!Least(n, z) = m
  BY <1>1 DEF Ring!Least, Ring!Ring!Least
<1>4. Ring!Ring!First(n, r) = Front(r, m)
  <2>1. m \in 0 .. Len(r)
    BY <1>1, <1>2
  <2>2. SubSeq(r, 1, m) = Front(r, m)
    BY <2>1, PartsAre
  <2>3. QED
    BY <1>1, <1>3, <2>2 DEF Ring!Ring!First
<1>5. Ring!Ring!Latest(n, r) = Back(r, m)
  <2>1. z - m \in 0 .. Len(r)
    BY <1>1, <1>2
  <2>2. SubSeq(r, (z - m) + 1, z) = Back(r, z - (z - m))
    BY <1>1, <2>1, PartsAre
  <2>3. QED
    BY <1>1, <1>2, <1>3, <2>2 DEF Ring!Ring!Latest
<1>6. Early(n, r) = Front(r, m) /\ Late(n, r) = Back(r, m)
  <2>1. Front(r, z) = r /\ Back(r, z) = r
    BY <1>1, Whole
  <2>2. CASE z > n
    BY <1>1, <1>2, <2>2 DEF Early, Late
  <2>3. CASE ~(z > n)
    BY <1>1, <1>2, <2>1, <2>3 DEF Early, Late
  <2>4. QED
    BY <2>2, <2>3
<1>7. QED
  BY <1>1, <1>3, <1>4, <1>5, <1>6

\* What resize() and rresize() leave.
LEMMA Resized ==
    ASSUME NEW s \in Seq(Values), NEW n \in Nat, NEW x \in Values
    PROVE  /\ Early(n, Inserted(s, Len(s), n, x)) =
                IF n > Len(s) THEN Inserted(s, Len(s), n - Len(s), x) ELSE Front(s, n)
           /\ Late(n, Inserted(s, 0, n, x)) =
                IF n > Len(s) THEN Inserted(s, 0, n - Len(s), x) ELSE Back(s, n)
<1>1. PICK z, a, b, c, d :
        /\ z = Len(s) /\ a = Inserted(s, Len(s), n, x) /\ b = Inserted(s, 0, n, x)
        /\ c = Front(a, n) /\ d = Back(b, n)
  OBVIOUS
<1>2. z \in Nat /\ z \in 0 .. Len(s) /\ 0 \in 0 .. Len(s) /\ n \in Nat
  BY <1>1, LenProperties
<1>3. a \in Seq(Values) /\ Len(a) = z + n /\ b \in Seq(Values) /\ Len(b) = z + n
  <2>1. \A k \in 0 .. Len(s) : /\ Inserted(s, k, n, x) \in Seq(Values)
                                /\ Len(Inserted(s, k, n, x)) = Len(s) + n
    BY InsertedIs
  <2>2. QED
    BY <1>1, <1>2, <2>1
<1>4. /\ \A i \in 1 .. z + n : a[i] = IF i <= z THEN s[i] ELSE IF i <= z + n THEN x ELSE s[i - n]
      /\ \A i \in 1 .. z + n : b[i] = IF i <= 0 THEN s[i] ELSE IF i <= 0 + n THEN x ELSE s[i - n]
  BY <1>1 DEF Inserted
<1>5. n \in 0 .. Len(a) /\ n \in 0 .. Len(b)
  BY <1>2, <1>3
<1>6. Early(n, a) = c /\ Late(n, b) = d
  <2>1. CASE z = 0
    <3>1. Len(a) = n /\ Len(b) = n /\ ~(n > n)
      BY <1>2, <1>3, <2>1
    <3>2. c = a /\ d = b
      BY <1>1, <1>3, <3>1, Whole
    <3>3. QED
      BY <3>1, <3>2 DEF Early, Late
  <2>2. CASE z # 0
    <3>1. Len(a) > n /\ Len(b) > n
      BY <1>2, <1>3, <2>2
    <3>2. QED
      BY <1>1, <3>1 DEF Early, Late
  <2>3. QED
    BY <2>1, <2>2
<1>7. c \in Seq(Values) /\ Len(c) = n /\ d \in Seq(Values) /\ Len(d) = n
  BY <1>1, <1>3, <1>5, Lists
<1>8. /\ \A i \in 1 .. n : c[i] = IF i <= z THEN s[i] ELSE x
      /\ \A i \in 1 .. n : d[i] = IF z + i <= n THEN x ELSE s[z + i - n]
  <2>1. \A i \in 1 .. n : i \in 1 .. z + n /\ z + i \in 1 .. z + n /\ i <= z + n /\ ~(z + i <= 0)
                          /\ z + n - n + i = z + i /\ 0 + n = n
    BY <1>2
  <2>2. \A i \in 1 .. n : c[i] = a[i] /\ d[i] = b[z + i]
    BY <1>1, <1>3, <2>1 DEF Front, Back
  <2>3. ASSUME NEW i \in 1 .. n PROVE c[i] = IF i <= z THEN s[i] ELSE x
    <3>1. a[i] = IF i <= z THEN s[i] ELSE IF i <= z + n THEN x ELSE s[i - n]
      BY <1>4, <2>1
    <3>2. QED
      BY <2>1, <2>2, <3>1
  <2>4. ASSUME NEW i \in 1 .. n PROVE d[i] = IF z + i <= n THEN x ELSE s[z + i - n]
    <3>1. PICK j : j = z + i
      OBVIOUS
    <3>2. b[j] = IF j <= 0 THEN s[j] ELSE IF j <= 0 + n THEN x ELSE s[j - n]
      BY <1>4, <2>1, <3>1
    <3>3. d[i] = b[j] /\ ~(j <= 0) /\ 0 + n = n
      BY <2>1, <2>2, <3>1
    <3>4. CASE j <= n
      BY <3>1, <3>2, <3>3, <3>4
    <3>5. CASE ~(j <= n)
      <4>1. b[j] = s[j - n]
        BY <3>2, <3>3, <3>5
      <4>2. d[i] = s[z + i - n]
        <5>1. j - n = z + i - n
          BY <1>2, <3>1
        <5>2. s[j - n] = s[z + i - n]
          BY <5>1, Zenon
        <5>3. QED
          BY <3>3, <4>1, <5>2, Zenon
      <4>3. ~(z + i <= n)
        BY <3>1, <3>5
      <4>4. QED
        BY <4>2, <4>3
    <3>6. QED
      BY <3>4, <3>5
  <2>5. QED
    BY <2>3, <2>4
<1>9. CASE n > z
  <2>1. PICK k, e, g : k = n - z /\ e = Inserted(s, z, k, x) /\ g = Inserted(s, 0, k, x)
    OBVIOUS
  <2>2. k \in Nat /\ z + k = n
    BY <1>2, <1>9, <2>1
  <2>3. e \in Seq(Values) /\ Len(e) = n /\ g \in Seq(Values) /\ Len(g) = n
    <3>1. \A p \in 0 .. Len(s) : /\ Inserted(s, p, k, x) \in Seq(Values)
                                  /\ Len(Inserted(s, p, k, x)) = Len(s) + k
      BY <2>2, InsertedIs
    <3>2. QED
      BY <1>1, <1>2, <2>1, <2>2, <3>1
  <2>4. /\ \A i \in 1 .. n : e[i] = IF i <= z THEN s[i] ELSE IF i <= z + k THEN x ELSE s[i - k]
        /\ \A i \in 1 .. n : g[i] = IF i <= 0 THEN s[i] ELSE IF i <= 0 + k THEN x ELSE s[i - k]
    BY <1>1, <2>1, <2>2 DEF Inserted
  <2>5. \A i \in 1 .. n : e[i] = c[i]
    BY <1>8, <2>2, <2>4
  <2>6. \A i \in 1 .. n : g[i] = d[i]
    <3>1. \A i \in 1 .. n : ~(i <= 0) /\ (z + i <= n <=> i <= 0 + k) /\ z + i - n = i - k
      BY <1>2, <2>1
    <3>2. QED
      BY <1>8, <2>4, <3>1
  <2>7. e = c /\ g = d
    BY <1>7, <2>3, <2>5, <2>6, SeqEqual
  <2>8. QED
    BY <1>1, <1>6, <1>9, <2>1, <2>7
<1>10. CASE ~(n > z)
  <2>1. PICK e, g : e = Front(s, n) /\ g = Back(s, n)
    OBVIOUS
  <2>2. n \in 0 .. Len(s)
    BY <1>1, <1>2, <1>10
  <2>3. e \in Seq(Values) /\ Len(e) = n /\ g \in Seq(Values) /\ Len(g) = n
    BY <2>1, <2>2, Lists
  <2>4. \A i \in 1 .. n : e[i] = s[i] /\ g[i] = s[z - n + i]
    BY <1>1, <2>1 DEF Front, Back
  <2>5. \A i \in 1 .. n : i <= z /\ ~(z + i <= n) /\ z - n + i = z + i - n
    BY <1>2, <1>10
  <2>6. e = c /\ g = d
    BY <1>7, <1>8, <2>3, <2>4, <2>5, SeqEqual
  <2>7. QED
    BY <1>1, <1>6, <1>10, <2>1, <2>6
<1>11. QED
  BY <1>9, <1>10

----------------------------------------------------------------------------
(* Steps of the buffer as steps of a list of bounded length *)

ItemsOf(c) == [i \in 1 .. c.size |-> Ring!Item(c, i - 1)]

LEMMA ItemsAre ==
    ASSUME NEW c, NEW N, NEW s, Becomes(c, N, s)
    PROVE  /\ ItemsOf(c) = s /\ Ring!capacity(c) = N /\ c.size = Len(s)
           /\ N \in Nat /\ s \in Seq(Values) /\ Len(s) \in 0 .. N
<1>1. PICK f : c = At(N, f, s) /\ Fits(N, f, s)
  BY DEF Becomes
<1>2. /\ Ring!capacity(c) = N /\ c.size = Len(s)
      /\ N \in Nat /\ s \in Seq(Values) /\ Len(s) \in 0 .. N
  BY <1>1, AtIs
<1>3. \A j \in 0 .. Len(s) - 1 : Ring!Item(c, j) = s[j + 1]
  BY <1>1, ItemIs
<1>4. PICK z, v : z = Len(s) /\ v = ItemsOf(c)
  OBVIOUS
<1>5. v = [i \in 1 .. z |-> Ring!Item(c, i - 1)]
  BY <1>2, <1>4 DEF ItemsOf
<1>6. \A i \in 1 .. z : v[i] = s[i]
  <2>1. \A i \in 1 .. z : i - 1 \in 0 .. z - 1 /\ i - 1 + 1 = i
    BY <1>2, <1>4
  <2>2. \A i \in 1 .. z : v[i] = Ring!Item(c, i - 1)
    BY <1>5
  <2>3. \A i \in 1 .. z : Ring!Item(c, i - 1) = s[i]
    BY <1>3, <1>4, <2>1
  <2>4. QED
    BY <2>2, <2>3
<1>7. v = [i \in 1 .. z |-> s[i]]
  BY <1>5, <1>6
<1>8. s = [i \in 1 .. z |-> s[i]]
  BY <1>2, <1>4
<1>9. QED
  BY <1>2, <1>4, <1>7, <1>8

\* c is a buffer of N slots, with the items s from one of them on.
Holds(c, f, N, s) == c = At(N, f, s) /\ Fits(N, f, s) /\ N <= MaxCapacity

\* A call with which r becomes the list and M its bound.
Calls(what, M, r) ==
    /\ cCall' = what /\ Becomes(cBuffer', M, r) /\ M <= MaxCapacity
    /\ what[1] = "linearize" => Ring!Linearized'

BufferStep ==
    /\ \E M, r : Becomes(cBuffer', M, r) /\ M <= MaxCapacity
    /\ Ring!Linearized'
    /\ Ring!Ring!Next

LEMMA BufferIs ==
    ASSUME NEW f, NEW N, NEW s, Holds(cBuffer, f, N, s)
    PROVE  /\ Ring!Items = s /\ Ring!capacity(cBuffer) = N /\ cBuffer.size = Len(s)
           /\ cBuffer = At(N, f, s) /\ Fits(N, f, s) /\ N <= MaxCapacity
           /\ cBuffer.first = f /\ cBuffer.last = Plus(N, f, Len(s))
           /\ N \in Nat /\ s \in Seq(Values) /\ Len(s) \in 0 .. N
<1>1. cBuffer = At(N, f, s) /\ Fits(N, f, s) /\ N <= MaxCapacity
  BY DEF Holds
<1>2. Becomes(cBuffer, N, s)
  BY <1>1 DEF Becomes
<1>3. Ring!Items = ItemsOf(cBuffer)
  BY DEF Ring!Items, ItemsOf
<1>4. QED
  BY <1>1, <1>2, <1>3, ItemsAre, AtIs

LEMMA CallsAre ==
    ASSUME NEW what, NEW M, NEW r, Calls(what, M, r)
    PROVE  /\ cCall' = what /\ Ring!Items' = r /\ Ring!capacity(cBuffer') = M
           /\ Ring!Linearized' /\ \E M2, r2 : Becomes(cBuffer', M2, r2) /\ M2 <= MaxCapacity
<1>1. /\ cCall' = what /\ Becomes(cBuffer', M, r) /\ M <= MaxCapacity
      /\ what[1] = "linearize" => Ring!Linearized'
  BY DEF Calls
<1>2. Ring!Items' = ItemsOf(cBuffer')
  BY DEF Ring!Items, ItemsOf
<1>3. ItemsOf(cBuffer') = r /\ Ring!capacity(cBuffer') = M
  BY <1>1, ItemsAre
<1>4. what[1] # "linearize" => Ring!Linearized'
  <2>1. <<"linearize">>[1] = "linearize"
    OBVIOUS
  <2>2. QED
    BY <1>1, <2>1 DEF Ring!Linearized
<1>5. QED
  BY <1>1, <1>2, <1>3, <1>4

LEMMA CallIs ==
    ASSUME NEW f, NEW N, NEW s, Holds(cBuffer, f, N, s),
           NEW what, NEW M, NEW r, Calls(what, M, r)
    PROVE  /\ Ring!Ring!Sized(what, r, M)
           /\ M = N => Ring!Ring!Did(what, r)
           /\ Ring!Ring!Next => BufferStep
<1>1. /\ cCall' = what /\ Ring!Items' = r /\ Ring!capacity(cBuffer') = M
      /\ Ring!Linearized' /\ \E M2, r2 : Becomes(cBuffer', M2, r2) /\ M2 <= MaxCapacity
  BY CallsAre
<1>2. Ring!capacity(cBuffer) = N
  BY BufferIs
<1>3. Ring!capacity(cBuffer)' = Ring!capacity(cBuffer')
  BY DEF Ring!capacity
<1>4. Ring!Ring!Sized(what, r, M)
  BY <1>1, <1>3 DEF Ring!Ring!Sized
<1>5. M = N => Ring!Ring!Did(what, r)
  BY <1>1, <1>2, <1>3 DEF Ring!Ring!Did
<1>6. QED
  BY <1>1, <1>4, <1>5 DEF BufferStep

LEMMA BufferPushBack ==
    ASSUME NEW f, NEW N, NEW s, Holds(cBuffer, f, N, s), NEW x \in Values,
           Ring!capacity(cBuffer) > 0, Ring!Did(<<"push_back", x>>, Ring!push_back(cBuffer, x))
    PROVE  BufferStep
<1>0. /\ Ring!Items = s /\ Ring!capacity(cBuffer) = N /\ cBuffer = At(N, f, s) /\ Fits(N, f, s)
      /\ N \in Nat /\ s \in Seq(Values) /\ Len(s) \in 0 .. N /\ N <= MaxCapacity
  BY BufferIs
<1>1. PICK w, r : w = <<"push_back", x>> /\ r = Ring!Ring!Latest(N, Append(s, x))
  OBVIOUS
<1>2. r = Late(N, Append(s, x)) /\ Append(s, x) = Inserted(s, Len(s), 1, x)
  <2>1. Append(s, x) \in Seq(Values)
    BY <1>0
  <2>2. QED
    BY <1>0, <1>1, <2>1, OneAdded, Restricted
<1>3. Becomes(cBuffer', N, r) /\ cCall' = w
  BY <1>0, <1>1, <1>2, PushIs DEF Ring!Did
<1>4. Calls(w, N, r)
  <2>1. w[1] # "linearize"
    BY <1>1
  <2>2. QED
    BY <1>0, <1>3, <2>1 DEF Calls
<1>5. Ring!Ring!Did(w, r) /\ (Ring!Ring!Next => BufferStep)
  BY <1>4, CallIs
<1>6. Ring!Ring!Did(<<"push_back", x>>,
                    Ring!Ring!Latest(Ring!capacity(cBuffer), Append(Ring!Items, x)))
  BY <1>0, <1>1, <1>5
<1>7. QED
  BY <1>5, <1>6 DEF Ring!Ring!Next

LEMMA BufferPushFront ==
    ASSUME NEW f, NEW N, NEW s, Holds(cBuffer, f, N, s), NEW x \in Values,
           Ring!Did(<<"push_front", x>>, Ring!push_front(cBuffer, x))
    PROVE  BufferStep
<1>0. /\ Ring!Items = s /\ Ring!capacity(cBuffer) = N /\ cBuffer = At(N, f, s) /\ Fits(N, f, s)
      /\ N \in Nat /\ s \in Seq(Values) /\ Len(s) \in 0 .. N /\ N <= MaxCapacity
  BY BufferIs
<1>1. PICK w, r : w = <<"push_front", x>> /\ r = Ring!Ring!First(N, <<x>> \o s)
  OBVIOUS
<1>2. r = Early(N, <<x>> \o s) /\ <<x>> \o s = Inserted(s, 0, 1, x)
  <2>1. <<x>> \o s \in Seq(Values)
    BY <1>0
  <2>2. QED
    BY <1>0, <1>1, <2>1, OneAdded, Restricted
<1>3. Becomes(cBuffer', N, r) /\ cCall' = w
  BY <1>0, <1>1, <1>2, PushIs DEF Ring!Did
<1>4. Calls(w, N, r)
  <2>1. w[1] # "linearize"
    BY <1>1
  <2>2. QED
    BY <1>0, <1>3, <2>1 DEF Calls
<1>5. Ring!Ring!Did(w, r) /\ (Ring!Ring!Next => BufferStep)
  BY <1>4, CallIs
<1>6. Ring!Ring!Did(<<"push_front", x>>,
                    Ring!Ring!First(Ring!capacity(cBuffer), <<x>> \o Ring!Items))
  BY <1>0, <1>1, <1>5
<1>7. QED
  BY <1>5, <1>6 DEF Ring!Ring!Next

LEMMA BufferPops ==
    ASSUME NEW f, NEW N, NEW s, Holds(cBuffer, f, N, s), cBuffer.size > 0,
           \/ Ring!Did(<<"pop_back">>, Ring!pop_back(cBuffer))
           \/ Ring!Did(<<"pop_front">>, Ring!pop_front(cBuffer))
    PROVE  BufferStep
<1>0. /\ Ring!Items = s /\ Ring!capacity(cBuffer) = N /\ cBuffer = At(N, f, s) /\ Fits(N, f, s)
      /\ N \in Nat /\ s \in Seq(Values) /\ Len(s) \in 0 .. N /\ N <= MaxCapacity
      /\ cBuffer.size = Len(s)
  BY BufferIs
<1>1. Len(s) # 0 /\ Ring!Items # << >>
  BY <1>0
<1>2. CASE Ring!Did(<<"pop_back">>, Ring!pop_back(cBuffer))
  <2>1. PICK w, r : w = <<"pop_back">> /\ r = Ring!Ring!Upto(Len(s) - 1)
    OBVIOUS
  <2>2. r = Front(s, Len(s) - 1)
    <3>1. SubSeq(s, 1, Len(s) - 1) = Front(s, Len(s) - 1)
      <4>1. Len(s) - 1 \in 0 .. Len(s)
        BY <1>0, <1>1
      <4>2. QED
        BY <1>0, <4>1, PartsAre
    <3>2. QED
      BY <1>0, <2>1, <3>1 DEF Ring!Ring!Upto
  <2>3. Becomes(cBuffer', N, r) /\ cCall' = w
    BY <1>0, <1>1, <1>2, <2>1, <2>2, PopBackIs DEF Ring!Did, Becomes
  <2>4. Calls(w, N, r)
    <3>1. w[1] # "linearize"
      BY <2>1
    <3>2. QED
      BY <1>0, <2>3, <3>1 DEF Calls
  <2>5. Ring!Ring!Did(w, r) /\ (Ring!Ring!Next => BufferStep)
    BY <2>4, CallIs
  <2>6. Ring!Ring!Did(<<"pop_back">>, Ring!Ring!Upto(Len(Ring!Items) - 1))
    BY <1>0, <2>1, <2>5
  <2>7. QED
    BY <1>1, <2>5, <2>6 DEF Ring!Ring!Next
<1>3. CASE Ring!Did(<<"pop_front">>, Ring!pop_front(cBuffer))
  <2>1. PICK w, r : w = <<"pop_front">> /\ r = Ring!Ring!After(1)
    OBVIOUS
  <2>2. r = Back(s, Len(s) - 1)
    <3>1. SubSeq(s, 1 + 1, Len(s)) = Back(s, Len(s) - 1)
      <4>1. 1 \in 0 .. Len(s)
        BY <1>0, <1>1
      <4>2. QED
        BY <1>0, <4>1, PartsAre
    <3>2. QED
      BY <1>0, <2>1, <3>1 DEF Ring!Ring!After
  <2>3. Becomes(cBuffer', N, r) /\ cCall' = w
    BY <1>0, <1>1, <1>3, <2>1, <2>2, PopFrontIs DEF Ring!Did, Becomes
  <2>4. Calls(w, N, r)
    <3>1. w[1] # "linearize"
      BY <2>1
    <3>2. QED
      BY <1>0, <2>3, <3>1 DEF Calls
  <2>5. Ring!Ring!Did(w, r) /\ (Ring!Ring!Next => BufferStep)
    BY <2>4, CallIs
  <2>6. Ring!Ring!Did(<<"pop_front">>, Ring!Ring!After(1))
    BY <2>1, <2>5
  <2>7. QED
    BY <1>1, <2>5, <2>6 DEF Ring!Ring!Next
<1>4. QED
  BY <1>2, <1>3

\* The parts of the list of which the insertions and the erasure are made.
LEMMA PartsOfItems ==
    ASSUME NEW s \in Seq(Values), Ring!Items = s, NEW k \in 0 .. Len(s)
    PROVE  Ring!Ring!Upto(k) = Front(s, k) /\ Ring!Ring!After(k) = Back(s, Len(s) - k)
<1>1. SubSeq(s, 1, k) = Front(s, k) /\ SubSeq(s, k + 1, Len(s)) = Back(s, Len(s) - k)
  BY PartsAre
<1>2. Ring!Ring!Upto(k) = SubSeq(s, 1, k) /\ Ring!Ring!After(k) = SubSeq(s, k + 1, Len(s))
  BY DEF Ring!Ring!Upto, Ring!Ring!After
<1>3. QED
  BY <1>1, <1>2

LEMMA BufferInserted ==
    ASSUME NEW f, NEW N, NEW s, Holds(cBuffer, f, N, s), NEW x \in Values,
           NEW k \in 0 .. Len(s), NEW n \in 0 .. MaxCapacity + 1, cCall' = <<"insert", k, n, x>>,
           Becomes(cBuffer', N, Late(N, Inserted(s, k, Ring!Least(n, N - (Len(s) - k)), x)))
    PROVE  BufferStep
<1>0. /\ Ring!Items = s /\ Ring!capacity(cBuffer) = N
      /\ N \in Nat /\ s \in Seq(Values) /\ Len(s) \in 0 .. N /\ N <= MaxCapacity
  BY BufferIs
<1>1. PICK m, w, u, r :
        /\ m = Ring!Least(n, N - (Len(s) - k)) /\ w = <<"insert", k, n, x>>
        /\ u = Ring!Ring!Upto(k) \o Ring!Ring!Copies(m, x) \o Ring!Ring!After(k)
        /\ r = Ring!Ring!Latest(N, u)
  OBVIOUS
<1>2. m \in Nat /\ k \in 0 .. Len(Ring!Items) /\ m = Ring!Ring!Least(n, N - (Len(s) - k))
  <2>1. n \in Nat /\ N - (Len(s) - k) \in Nat
    BY <1>0, BufferConstants
  <2>2. QED
    BY <1>0, <1>1, <2>1 DEF Ring!Least, Ring!Ring!Least
<1>3. u = Inserted(s, k, m, x) /\ u \in Seq(Values)
  <2>1. Ring!Ring!Upto(k) = Front(s, k) /\ Ring!Ring!After(k) = Back(s, Len(s) - k)
    BY <1>0, PartsOfItems
  <2>2. Front(s, k) \o Ring!Ring!Copies(m, x) \o Back(s, Len(s) - k) = Inserted(s, k, m, x)
    BY <1>0, <1>2, PutIn
  <2>3. Inserted(s, k, m, x) \in Seq(Values)
    BY <1>0, <1>2, InsertedIs
  <2>4. QED
    BY <1>1, <2>1, <2>2, <2>3
<1>4. r = Late(N, u)
  BY <1>0, <1>1, <1>3, Restricted
<1>5. Calls(w, N, r)
  <2>1. w[1] # "linearize"
    BY <1>1
  <2>2. QED
    BY <1>0, <1>1, <1>3, <1>4, <2>1 DEF Calls
<1>6. Ring!Ring!Did(w, r) /\ (Ring!Ring!Next => BufferStep)
  BY <1>5, CallIs
<1>7. Ring!Ring!Insert(k, n, x)
  BY <1>0, <1>1, <1>2, <1>6 DEF Ring!Ring!Insert
<1>8. QED
  BY <1>2, <1>6, <1>7 DEF Ring!Ring!Next

LEMMA BufferRinserted ==
    ASSUME NEW f, NEW N, NEW s, Holds(cBuffer, f, N, s), NEW x \in Values,
           NEW k \in 0 .. Len(s), NEW n \in 0 .. MaxCapacity + 1, cCall' = <<"rinsert", k, n, x>>,
           Becomes(cBuffer', N, Early(N, Inserted(s, k, Ring!Least(n, N - k), x)))
    PROVE  BufferStep
<1>0. /\ Ring!Items = s /\ Ring!capacity(cBuffer) = N
      /\ N \in Nat /\ s \in Seq(Values) /\ Len(s) \in 0 .. N /\ N <= MaxCapacity
  BY BufferIs
<1>1. PICK m, w, u, r :
        /\ m = Ring!Least(n, N - k) /\ w = <<"rinsert", k, n, x>>
        /\ u = Ring!Ring!Upto(k) \o Ring!Ring!Copies(m, x) \o Ring!Ring!After(k)
        /\ r = Ring!Ring!First(N, u)
  OBVIOUS
<1>2. m \in Nat /\ k \in 0 .. Len(Ring!Items) /\ m = Ring!Ring!Least(n, N - k)
  <2>1. n \in Nat /\ N - k \in Nat
    BY <1>0, BufferConstants
  <2>2. QED
    BY <1>0, <1>1, <2>1 DEF Ring!Least, Ring!Ring!Least
<1>3. u = Inserted(s, k, m, x) /\ u \in Seq(Values)
  <2>1. Ring!Ring!Upto(k) = Front(s, k) /\ Ring!Ring!After(k) = Back(s, Len(s) - k)
    BY <1>0, PartsOfItems
  <2>2. Front(s, k) \o Ring!Ring!Copies(m, x) \o Back(s, Len(s) - k) = Inserted(s, k, m, x)
    BY <1>0, <1>2, PutIn
  <2>3. Inserted(s, k, m, x) \in Seq(Values)
    BY <1>0, <1>2, InsertedIs
  <2>4. QED
    BY <1>1, <2>1, <2>2, <2>3
<1>4. r = Early(N, u)
  BY <1>0, <1>1, <1>3, Restricted
<1>5. Calls(w, N, r)
  <2>1. w[1] # "linearize"
    BY <1>1
  <2>2. QED
    BY <1>0, <1>1, <1>3, <1>4, <2>1 DEF Calls
<1>6. Ring!Ring!Did(w, r) /\ (Ring!Ring!Next => BufferStep)
  BY <1>5, CallIs
<1>7. Ring!Ring!Rinsert(k, n, x)
  BY <1>0, <1>1, <1>2, <1>6 DEF Ring!Ring!Rinsert
<1>8. QED
  BY <1>2, <1>6, <1>7 DEF Ring!Ring!Next

LEMMA BufferInserts ==
    ASSUME NEW f, NEW N, NEW s, Holds(cBuffer, f, N, s), Ring!Insert
    PROVE  BufferStep
<1>0. cBuffer = At(N, f, s) /\ Fits(N, f, s) /\ cBuffer.size = Len(s)
  BY BufferIs
<1>1. 1 \in 0 .. MaxCapacity + 1
  BY BufferConstants
<1>3. PICK x \in Values, k \in 0 .. cBuffer.size :
        \/ Ring!Did(<<"insert", k, 1, x>>, Ring!insert_impl(cBuffer, k, x))
        \/ Ring!Did(<<"rinsert", k, 1, x>>, Ring!rinsert_impl(cBuffer, k, x))
  BY DEF Ring!Insert
<1>4. k \in 0 .. Len(s)
  BY <1>0
<1>5. CASE Ring!Did(<<"insert", k, 1, x>>, Ring!insert_impl(cBuffer, k, x))
  <2>1. cCall' = <<"insert", k, 1, x>> /\ cBuffer' = Ring!insert_impl(At(N, f, s), k, x)
    BY <1>0, <1>5 DEF Ring!Did
  <2>2. Becomes(cBuffer', N, Late(N, Inserted(s, k, Ring!Least(1, N - (Len(s) - k)), x)))
    BY <1>0, <1>4, <2>1, InsertOneIs
  <2>3. QED
    BY <1>1, <1>4, <2>1, <2>2, BufferInserted
<1>6. CASE Ring!Did(<<"rinsert", k, 1, x>>, Ring!rinsert_impl(cBuffer, k, x))
  <2>1. cCall' = <<"rinsert", k, 1, x>> /\ cBuffer' = Ring!rinsert_impl(At(N, f, s), k, x)
    BY <1>0, <1>6 DEF Ring!Did
  <2>2. Becomes(cBuffer', N, Early(N, Inserted(s, k, Ring!Least(1, N - k), x)))
    BY <1>0, <1>4, <2>1, InsertOneIs
  <2>3. QED
    BY <1>1, <1>4, <2>1, <2>2, BufferRinserted
<1>7. QED
  BY <1>3, <1>5, <1>6

\* Room on both sides, and enough of it behind.
LEMMA AmidIs ==
    ASSUME NEW f, NEW N, NEW s, Holds(cBuffer, f, N, s), Ring!Amid,
           NEW k \in 0 .. Len(s), NEW n \in Nat, ~Ring!Past(k, n)
    PROVE  f + Len(s) + Ring!Least(n, N - (Len(s) - k)) <= N
<1>0. /\ cBuffer = At(N, f, s) /\ Fits(N, f, s) /\ cBuffer.size = Len(s)
      /\ cBuffer.first = f /\ cBuffer.last = Plus(N, f, Len(s))
      /\ N \in Nat /\ s \in Seq(Values) /\ Len(s) \in 0 .. N
  BY BufferIs
<1>1. Ring!capacity(cBuffer) = N
  BY <1>0, AtIs
<1>2. PICK m, l : m = Ring!Least(n, N - (Len(s) - k)) /\ l = Plus(N, f, Len(s))
  OBVIOUS
<1>3. m \in Int
  BY <1>0, <1>2, LeastIs
<1>4. N # 0 /\ f \in 0 .. N - 1 /\ l \in 0 .. N - 1 /\ f < l
  BY <1>0, <1>2, AtIs DEF Ring!Amid
<1>5. l = f + Len(s)
  BY <1>0, <1>2, <1>4 DEF Plus
<1>6. ~(l + m > N)
  BY <1>0, <1>1, <1>2 DEF Ring!Past
<1>7. QED
  BY <1>0, <1>2, <1>3, <1>4, <1>5, <1>6

\* Many items: a list again, or the insertion strays.
LEMMA BufferInsertsSome ==
    ASSUME NEW f, NEW N, NEW s, Holds(cBuffer, f, N, s), Ring!InsertSome
    PROVE  /\ cStrayed' \in BOOLEAN /\ Ring!Linearized'
           /\ cStrayed' \/ BufferStep
<1>0. /\ cBuffer = At(N, f, s) /\ Fits(N, f, s) /\ cBuffer.size = Len(s)
      /\ cBuffer.first = f /\ cBuffer.last = Plus(N, f, Len(s))
      /\ N \in Nat /\ s \in Seq(Values) /\ Len(s) \in 0 .. N
  BY BufferIs
<1>1. \A n \in 0 .. MaxCapacity + 1 : n \in Nat
  BY BufferConstants
<1>2. ~Ring!Amid => f = 0 \/ f >= Plus(N, f, Len(s))
  <2>1. N # 0 => f \in 0 .. N - 1 /\ Plus(N, f, Len(s)) \in 0 .. N - 1
    BY <1>0, AtIs
  <2>2. N = 0 => f = 0
    BY <1>0, AtIs
  <2>3. f = 0 \/ (f \in Nat /\ Plus(N, f, Len(s)) \in Nat)
    BY <1>0, <2>1, <2>2
  <2>4. QED
    BY <1>0, <2>3 DEF Ring!Amid
<1>3. PICK x \in Values, k \in 0 .. cBuffer.size, n \in 0 .. MaxCapacity + 1 :
        \/ /\ Ring!Did(<<"insert", k, n, x>>, Ring!insert_n(cBuffer, k, n, x))
           /\ cStrayed' = (k < cBuffer.size /\ n > 0 /\ Ring!Amid /\ Ring!Past(k, n))
        \/ /\ Ring!Did(<<"rinsert", k, n, x>>, Ring!rinsert_n(cBuffer, k, n, x))
           /\ cStrayed' = (k > 0 /\ n > 0 /\ Ring!Amid)
  BY DEF Ring!InsertSome
<1>4. k \in 0 .. Len(s) /\ n \in Nat
  BY <1>0, <1>1
<1>5. <<"linearize">>[1] = "linearize"
  OBVIOUS
<1>7. ASSUME Ring!Did(<<"insert", k, n, x>>, Ring!insert_n(cBuffer, k, n, x)),
             cStrayed' = (k < cBuffer.size /\ n > 0 /\ Ring!Amid /\ Ring!Past(k, n))
      PROVE  cStrayed' \in BOOLEAN /\ Ring!Linearized' /\ (cStrayed' \/ BufferStep)
  <2>1. cCall' = <<"insert", k, n, x>> /\ cBuffer' = Ring!insert_n(At(N, f, s), k, n, x)
    BY <1>0, <1>7 DEF Ring!Did
  <2>2. cCall'[1] # "linearize"
    BY <2>1
  <2>3. Ring!Linearized' /\ cStrayed' \in BOOLEAN
    BY <1>5, <1>7, <2>2 DEF Ring!Linearized
  <2>4. ASSUME ~(k < cBuffer.size /\ n > 0 /\ Ring!Amid /\ Ring!Past(k, n)) PROVE BufferStep
    <3>1. \/ n = 0 \/ k = Len(s) \/ f = 0 \/ f >= Plus(N, f, Len(s))
          \/ f + Len(s) + Ring!Least(n, N - (Len(s) - k)) <= N
      <4>1. CASE ~Ring!Amid
        BY <1>2, <4>1
      <4>2. CASE k >= cBuffer.size \/ ~(n > 0)
        BY <1>0, <1>4, <4>2
      <4>3. CASE Ring!Amid /\ ~Ring!Past(k, n)
        BY <1>0, <1>4, <4>3, AmidIs
      <4>4. QED
        BY <1>0, <1>4, <2>4, <4>1, <4>2, <4>3
    <3>2. Becomes(cBuffer', N, Late(N, Inserted(s, k, Ring!Least(n, N - (Len(s) - k)), x)))
      BY <1>0, <1>4, <2>1, <3>1, InsertManyIs
    <3>3. QED
      BY <1>4, <2>1, <3>2, BufferInserted
  <2>5. cStrayed' \/ ~(k < cBuffer.size /\ n > 0 /\ Ring!Amid /\ Ring!Past(k, n))
    BY <1>7
  <2>6. QED
    BY <2>3, <2>4, <2>5
<1>8. ASSUME Ring!Did(<<"rinsert", k, n, x>>, Ring!rinsert_n(cBuffer, k, n, x)),
             cStrayed' = (k > 0 /\ n > 0 /\ Ring!Amid)
      PROVE  cStrayed' \in BOOLEAN /\ Ring!Linearized' /\ (cStrayed' \/ BufferStep)
  <2>1. cCall' = <<"rinsert", k, n, x>> /\ cBuffer' = Ring!rinsert_n(At(N, f, s), k, n, x)
    BY <1>0, <1>8 DEF Ring!Did
  <2>2. cCall'[1] # "linearize"
    BY <2>1
  <2>3. Ring!Linearized' /\ cStrayed' \in BOOLEAN
    BY <1>5, <1>8, <2>2 DEF Ring!Linearized
  <2>4. ASSUME ~(k > 0 /\ n > 0 /\ Ring!Amid) PROVE BufferStep
    <3>1. n = 0 \/ k = 0 \/ f = 0 \/ f >= Plus(N, f, Len(s))
      BY <1>2, <1>4, <2>4
    <3>2. Becomes(cBuffer', N, Early(N, Inserted(s, k, Ring!Least(n, N - k), x)))
      BY <1>0, <1>4, <2>1, <3>1, RinsertManyIs
    <3>3. QED
      BY <1>4, <2>1, <3>2, BufferRinserted
  <2>5. cStrayed' \/ ~(k > 0 /\ n > 0 /\ Ring!Amid)
    BY <1>8
  <2>6. QED
    BY <2>3, <2>4, <2>5
<1>9. QED
  BY <1>3, <1>7, <1>8

LEMMA BufferErases ==
    ASSUME NEW f, NEW N, NEW s, Holds(cBuffer, f, N, s), Ring!Erase
    PROVE  BufferStep
<1>0. /\ Ring!Items = s /\ Ring!capacity(cBuffer) = N /\ cBuffer = At(N, f, s) /\ Fits(N, f, s)
      /\ N \in Nat /\ s \in Seq(Values) /\ Len(s) \in 0 .. N /\ N <= MaxCapacity
      /\ cBuffer.size = Len(s)
  BY BufferIs
<1>1. PICK k \in 0 .. cBuffer.size, m \in 0 .. cBuffer.size :
        /\ k <= m
        /\ \/ Ring!Did(<<"erase", k, m>>, Ring!erase(cBuffer, k, m))
           \/ Ring!Did(<<"erase", k, m>>, Ring!rerase(cBuffer, k, m))
  BY DEF Ring!Erase
<1>2. /\ k \in 0 .. Len(s) /\ m \in 0 .. Len(s) /\ k <= m /\ Span(s, k, m)
      /\ k \in 0 .. Len(Ring!Items) /\ m \in 0 .. Len(Ring!Items)
  BY <1>0, <1>1 DEF Span
<1>3. PICK w, r : w = <<"erase", k, m>> /\ r = Ring!Ring!Upto(k) \o Ring!Ring!After(m)
  OBVIOUS
<1>4. r = Removed(s, k, m)
  <2>1. Ring!Ring!Upto(k) = Front(s, k) /\ Ring!Ring!After(m) = Back(s, Len(s) - m)
    <3>1. Ring!Ring!Upto(k) = Front(s, k)
      BY <1>0, <1>2, PartsOfItems
    <3>2. Ring!Ring!After(m) = Back(s, Len(s) - m)
      BY <1>0, <1>2, PartsOfItems
    <3>3. QED
      BY <3>1, <3>2
  <2>2. Front(s, k) \o Back(s, Len(s) - m) = Removed(s, k, m)
    BY <1>0, <1>2, CutOut
  <2>3. QED
    BY <1>3, <2>1, <2>2
<1>5. Becomes(cBuffer', N, r) /\ cCall' = w
  <2>1. CASE Ring!Did(<<"erase", k, m>>, Ring!erase(cBuffer, k, m))
    BY <1>0, <1>2, <1>3, <1>4, <2>1, ItemsGoBehind DEF Ring!Did, Becomes
  <2>2. CASE Ring!Did(<<"erase", k, m>>, Ring!rerase(cBuffer, k, m))
    BY <1>0, <1>2, <1>3, <1>4, <2>2, ItemsGoBefore DEF Ring!Did, Becomes
  <2>3. QED
    BY <1>1, <2>1, <2>2
<1>6. Calls(w, N, r)
  <2>1. w[1] # "linearize"
    BY <1>3
  <2>2. QED
    BY <1>0, <1>5, <2>1 DEF Calls
<1>7. Ring!Ring!Did(w, r) /\ (Ring!Ring!Next => BufferStep)
  BY <1>6, CallIs
<1>8. Ring!Ring!Did(<<"erase", k, m>>, Ring!Ring!Upto(k) \o Ring!Ring!After(m))
  BY <1>3, <1>7
<1>9. QED
  BY <1>2, <1>7, <1>8 DEF Ring!Ring!Next

LEMMA BufferWhole ==
    ASSUME NEW f, NEW N, NEW s, Holds(cBuffer, f, N, s), Ring!Whole
    PROVE  BufferStep
<1>0. /\ Ring!Items = s /\ Ring!capacity(cBuffer) = N /\ cBuffer = At(N, f, s) /\ Fits(N, f, s)
      /\ N \in Nat /\ s \in Seq(Values) /\ Len(s) \in 0 .. N /\ N <= MaxCapacity
  BY BufferIs
<1>1. CASE Ring!Did(<<"linearize">>, Ring!linearize(cBuffer))
  <2>1. PICK w : w = <<"linearize">>
    OBVIOUS
  <2>2. PICK g : /\ Ring!linearize(At(N, f, s)) = At(N, g, s) /\ Fits(N, g, s)
                 /\ Len(s) # 0 => g + Len(s) <= N
    BY <1>0, LinearizeIs
  <2>3. cBuffer' = At(N, g, s) /\ cCall' = w
    BY <1>0, <1>1, <2>1, <2>2 DEF Ring!Did
  <2>4. Becomes(cBuffer', N, s)
    BY <2>2, <2>3 DEF Becomes
  <2>5. cBuffer'.first = g /\ cBuffer'.size = Len(s) /\ Ring!capacity(cBuffer') = N
    BY <2>2, <2>3, AtIs
  <2>6. Ring!Linearized'
    <3>1. cBuffer'.size > 0 => cBuffer'.first + cBuffer'.size <= Ring!capacity(cBuffer')
      BY <1>0, <2>2, <2>5
    <3>2. QED
      BY <3>1 DEF Ring!Linearized, Ring!capacity
  <2>7. Calls(w, N, s)
    BY <1>0, <2>3, <2>4, <2>6 DEF Calls
  <2>8. Ring!Ring!Did(w, s) /\ (Ring!Ring!Next => BufferStep)
    BY <2>7, CallIs
  <2>9. Ring!Ring!Did(<<"linearize">>, Ring!Items)
    BY <1>0, <2>1, <2>8
  <2>10. QED
    BY <2>8, <2>9 DEF Ring!Ring!Next
<1>2. CASE Ring!Did(<<"clear">>, Ring!clear(cBuffer))
  <2>1. PICK w : w = <<"clear">>
    OBVIOUS
  <2>2. Becomes(cBuffer', N, << >>) /\ cCall' = w
    BY <1>0, <1>2, <2>1, BufferClearIs DEF Ring!Did, Becomes
  <2>3. Calls(w, N, << >>)
    <3>1. w[1] # "linearize"
      BY <2>1
    <3>2. QED
      BY <1>0, <2>2, <3>1 DEF Calls
  <2>4. Ring!Ring!Did(w, << >>) /\ (Ring!Ring!Next => BufferStep)
    BY <2>3, CallIs
  <2>5. Ring!Ring!Did(<<"clear">>, << >>)
    BY <2>1, <2>4
  <2>6. QED
    BY <2>4, <2>5 DEF Ring!Ring!Next
<1>3. QED
  BY <1>1, <1>2 DEF Ring!Whole

LEMMA BufferSetCapacity ==
    ASSUME NEW f, NEW N, NEW s, Holds(cBuffer, f, N, s), NEW n \in 0 .. MaxCapacity,
           Ring!Did(<<"set_capacity", n>>, Ring!set_capacity(cBuffer, n))
    PROVE  BufferStep
<1>0. /\ Ring!Items = s /\ Ring!capacity(cBuffer) = N /\ cBuffer = At(N, f, s) /\ Fits(N, f, s)
      /\ s \in Seq(Values) /\ n \in Nat /\ n <= MaxCapacity
  BY BufferIs, BufferConstants
<1>1. PICK w, r, q : w = <<"set_capacity", n>> /\ r = Ring!Ring!First(n, s) /\ q = Ring!Least(n, Len(s))
  OBVIOUS
<1>2. r = Front(s, q)
  BY <1>0, <1>1, Restricted
<1>3. Becomes(cBuffer', n, r) /\ cCall' = w
  <2>1. Becomes(Ring!set_capacity(At(N, f, s), n), n, Front(s, q))
    BY <1>0, <1>1, SetCapacityIs
  <2>2. QED
    BY <1>0, <1>1, <1>2, <2>1 DEF Ring!Did
<1>4. Calls(w, n, r)
  <2>1. w[1] # "linearize"
    BY <1>1
  <2>2. QED
    BY <1>0, <1>3, <2>1 DEF Calls
<1>5. Ring!Ring!Sized(w, r, n) /\ (Ring!Ring!Next => BufferStep)
  BY <1>4, CallIs
<1>6. Ring!Ring!Sized(<<"set_capacity", n>>, Ring!Ring!First(n, Ring!Items), n)
  BY <1>0, <1>1, <1>5
<1>7. QED
  BY <1>5, <1>6 DEF Ring!Ring!Next

LEMMA BufferRsetCapacity ==
    ASSUME NEW f, NEW N, NEW s, Holds(cBuffer, f, N, s), NEW n \in 0 .. MaxCapacity,
           Ring!Did(<<"rset_capacity", n>>, Ring!rset_capacity(cBuffer, n))
    PROVE  BufferStep
<1>0. /\ Ring!Items = s /\ Ring!capacity(cBuffer) = N /\ cBuffer = At(N, f, s) /\ Fits(N, f, s)
      /\ s \in Seq(Values) /\ n \in Nat /\ n <= MaxCapacity
  BY BufferIs, BufferConstants
<1>1. PICK w, r, q : w = <<"rset_capacity", n>> /\ r = Ring!Ring!Latest(n, s) /\ q = Ring!Least(n, Len(s))
  OBVIOUS
<1>2. r = Back(s, q)
  BY <1>0, <1>1, Restricted
<1>3. Becomes(cBuffer', n, r) /\ cCall' = w
  <2>1. Becomes(Ring!rset_capacity(At(N, f, s), n), n, Back(s, q))
    BY <1>0, <1>1, SetCapacityIs
  <2>2. QED
    BY <1>0, <1>1, <1>2, <2>1 DEF Ring!Did
<1>4. Calls(w, n, r)
  <2>1. w[1] # "linearize"
    BY <1>1
  <2>2. QED
    BY <1>0, <1>3, <2>1 DEF Calls
<1>5. Ring!Ring!Sized(w, r, n) /\ (Ring!Ring!Next => BufferStep)
  BY <1>4, CallIs
<1>6. Ring!Ring!Sized(<<"rset_capacity", n>>, Ring!Ring!Latest(n, Ring!Items), n)
  BY <1>0, <1>1, <1>5
<1>7. QED
  BY <1>5, <1>6 DEF Ring!Ring!Next

LEMMA BufferResize ==
    ASSUME NEW f, NEW N, NEW s, Holds(cBuffer, f, N, s), NEW n \in 0 .. MaxCapacity,
           NEW x \in Values, Ring!Did(<<"resize", n, x>>, Ring!resize(cBuffer, n, x))
    PROVE  BufferStep
<1>0. /\ Ring!Items = s /\ Ring!capacity(cBuffer) = N /\ cBuffer = At(N, f, s) /\ Fits(N, f, s)
      /\ s \in Seq(Values) /\ n \in Nat /\ n <= MaxCapacity /\ N <= MaxCapacity
      /\ N \in Nat /\ Len(s) \in 0 .. N
  BY BufferIs, BufferConstants
<1>1. PICK w, u, r, M :
        /\ w = <<"resize", n, x>> /\ u = s \o Ring!Ring!Copies(n, x)
        /\ r = Ring!Ring!First(n, u) /\ M = IF n > N THEN n ELSE N
  OBVIOUS
<1>2. u = Inserted(s, Len(s), n, x) /\ u \in Seq(Values)
  <2>1. u = Inserted(s, Len(s), n, x)
    BY <1>0, <1>1, AddedAtEnds
  <2>2. Len(s) \in 0 .. Len(s)
    BY <1>0
  <2>3. Inserted(s, Len(s), n, x) \in Seq(Values)
    BY <1>0, <2>2, InsertedIs
  <2>4. QED
    BY <2>1, <2>3
<1>3. r = IF n > Len(s) THEN Inserted(s, Len(s), n - Len(s), x) ELSE Front(s, n)
  <2>1. r = Early(n, u)
    BY <1>0, <1>1, <1>2, Restricted
  <2>2. Early(n, Inserted(s, Len(s), n, x)) =
          IF n > Len(s) THEN Inserted(s, Len(s), n - Len(s), x) ELSE Front(s, n)
    BY <1>0, Resized
  <2>3. QED
    BY <1>2, <2>1, <2>2
<1>4. Becomes(cBuffer', M, r) /\ cCall' = w /\ M <= MaxCapacity
  <2>1. cBuffer' = Ring!resize(At(N, f, s), n, x) /\ cCall' = w
    BY <1>0, <1>1 DEF Ring!Did
  <2>2. CASE n > Len(s)
    <3>1. Becomes(Ring!resize(At(N, f, s), n, x), M, Inserted(s, Len(s), n - Len(s), x))
      BY <1>0, <1>1, <2>2, ResizeIs
    <3>2. QED
      BY <1>0, <1>1, <1>3, <2>1, <2>2, <3>1
  <2>3. CASE ~(n > Len(s))
    <3>1. Becomes(Ring!resize(At(N, f, s), n, x), N, Front(s, n))
      BY <1>0, <1>1, <2>3, ResizeIs
    <3>2. M = N
      BY <1>0, <1>1, <2>3
    <3>3. QED
      BY <1>0, <1>3, <2>1, <2>3, <3>1, <3>2
  <2>4. QED
    BY <2>2, <2>3
<1>5. Calls(w, M, r)
  <2>1. w[1] # "linearize"
    BY <1>1
  <2>2. QED
    BY <1>4, <2>1 DEF Calls
<1>6. Ring!Ring!Sized(w, r, M) /\ (Ring!Ring!Next => BufferStep)
  BY <1>5, CallIs
<1>7. Ring!Ring!Sized(<<"resize", n, x>>, Ring!Ring!First(n, Ring!Items \o Ring!Ring!Copies(n, x)),
                      IF n > Ring!capacity(cBuffer) THEN n ELSE Ring!capacity(cBuffer))
  BY <1>0, <1>1, <1>6
<1>8. QED
  BY <1>6, <1>7 DEF Ring!Ring!Next

LEMMA BufferRresize ==
    ASSUME NEW f, NEW N, NEW s, Holds(cBuffer, f, N, s), NEW n \in 0 .. MaxCapacity,
           NEW x \in Values, Ring!Did(<<"rresize", n, x>>, Ring!rresize(cBuffer, n, x))
    PROVE  BufferStep
<1>0. /\ Ring!Items = s /\ Ring!capacity(cBuffer) = N /\ cBuffer = At(N, f, s) /\ Fits(N, f, s)
      /\ s \in Seq(Values) /\ n \in Nat /\ n <= MaxCapacity /\ N <= MaxCapacity
      /\ N \in Nat /\ Len(s) \in 0 .. N
  BY BufferIs, BufferConstants
<1>1. PICK w, u, r, M :
        /\ w = <<"rresize", n, x>> /\ u = Ring!Ring!Copies(n, x) \o s
        /\ r = Ring!Ring!Latest(n, u) /\ M = IF n > N THEN n ELSE N
  OBVIOUS
<1>2. u = Inserted(s, 0, n, x) /\ u \in Seq(Values)
  <2>1. u = Inserted(s, 0, n, x)
    BY <1>0, <1>1, AddedAtEnds
  <2>2. 0 \in 0 .. Len(s)
    BY <1>0
  <2>3. Inserted(s, 0, n, x) \in Seq(Values)
    BY <1>0, <2>2, InsertedIs
  <2>4. QED
    BY <2>1, <2>3
<1>3. r = IF n > Len(s) THEN Inserted(s, 0, n - Len(s), x) ELSE Back(s, n)
  <2>1. r = Late(n, u)
    BY <1>0, <1>1, <1>2, Restricted
  <2>2. Late(n, Inserted(s, 0, n, x)) =
          IF n > Len(s) THEN Inserted(s, 0, n - Len(s), x) ELSE Back(s, n)
    BY <1>0, Resized
  <2>3. QED
    BY <1>2, <2>1, <2>2
<1>4. Becomes(cBuffer', M, r) /\ cCall' = w /\ M <= MaxCapacity
  <2>1. cBuffer' = Ring!rresize(At(N, f, s), n, x) /\ cCall' = w
    BY <1>0, <1>1 DEF Ring!Did
  <2>2. CASE n > Len(s)
    <3>1. Becomes(Ring!rresize(At(N, f, s), n, x), M, Inserted(s, 0, n - Len(s), x))
      BY <1>0, <1>1, <2>2, ResizeIs
    <3>2. QED
      BY <1>0, <1>1, <1>3, <2>1, <2>2, <3>1
  <2>3. CASE ~(n > Len(s))
    <3>1. Becomes(Ring!rresize(At(N, f, s), n, x), N, Back(s, n))
      BY <1>0, <1>1, <2>3, ResizeIs
    <3>2. M = N
      BY <1>0, <1>1, <2>3
    <3>3. QED
      BY <1>0, <1>3, <2>1, <2>3, <3>1, <3>2
  <2>4. QED
    BY <2>2, <2>3
<1>5. Calls(w, M, r)
  <2>1. w[1] # "linearize"
    BY <1>1
  <2>2. QED
    BY <1>4, <2>1 DEF Calls
<1>6. Ring!Ring!Sized(w, r, M) /\ (Ring!Ring!Next => BufferStep)
  BY <1>5, CallIs
<1>7. Ring!Ring!Sized(<<"rresize", n, x>>, Ring!Ring!Latest(n, Ring!Ring!Copies(n, x) \o Ring!Items),
                      IF n > Ring!capacity(cBuffer) THEN n ELSE Ring!capacity(cBuffer))
  BY <1>0, <1>1, <1>6
<1>8. QED
  BY <1>6, <1>7 DEF Ring!Ring!Next

LEMMA BufferAssign ==
    ASSUME NEW f, NEW N, NEW s, Holds(cBuffer, f, N, s), NEW n \in 0 .. MaxCapacity,
           NEW m \in n .. MaxCapacity, NEW x \in Values,
           Ring!Did(<<"assign", m, n, x>>, Ring!assign_n(cBuffer, m, n, x))
    PROVE  BufferStep
<1>0. /\ cBuffer = At(N, f, s) /\ Fits(N, f, s)
      /\ n \in Nat /\ n \in 0 .. m /\ n <= m /\ m \in Nat /\ m <= MaxCapacity /\ m \in 0 .. MaxCapacity
  BY BufferIs, BufferConstants
<1>1. PICK w, r : w = <<"assign", m, n, x>> /\ r = Ring!Ring!Copies(n, x)
  OBVIOUS
<1>2. Becomes(cBuffer', m, r) /\ cCall' = w
  <2>1. Becomes(Ring!assign_n(At(N, f, s), m, n, x), m, Ring!Ring!Copies(n, x))
    BY <1>0, AssignIs
  <2>2. QED
    BY <1>0, <1>1, <2>1 DEF Ring!Did
<1>3. Calls(w, m, r)
  <2>1. w[1] # "linearize"
    BY <1>1
  <2>2. QED
    BY <1>0, <1>2, <2>1 DEF Calls
<1>4. Ring!Ring!Sized(w, r, m) /\ (Ring!Ring!Next => BufferStep)
  BY <1>3, CallIs
<1>5. Ring!Ring!Sized(<<"assign", m, n, x>>, Ring!Ring!Copies(n, x), m)
  BY <1>1, <1>4
<1>6. QED
  BY <1>0, <1>4, <1>5 DEF Ring!Ring!Next

LEMMA BufferStorage ==
    ASSUME NEW f, NEW N, NEW s, Holds(cBuffer, f, N, s), Ring!Storage
    PROVE  BufferStep
<1>1. PICK n \in 0 .. MaxCapacity :
        \/ Ring!Did(<<"set_capacity", n>>, Ring!set_capacity(cBuffer, n))
        \/ Ring!Did(<<"rset_capacity", n>>, Ring!rset_capacity(cBuffer, n))
        \/ \E x \in Values :
             \/ Ring!Did(<<"resize", n, x>>, Ring!resize(cBuffer, n, x))
             \/ Ring!Did(<<"rresize", n, x>>, Ring!rresize(cBuffer, n, x))
             \/ \E m \in n .. MaxCapacity :
                  Ring!Did(<<"assign", m, n, x>>, Ring!assign_n(cBuffer, m, n, x))
  BY DEF Ring!Storage
<1>2. CASE Ring!Did(<<"set_capacity", n>>, Ring!set_capacity(cBuffer, n))
  BY <1>2, BufferSetCapacity
<1>3. CASE Ring!Did(<<"rset_capacity", n>>, Ring!rset_capacity(cBuffer, n))
  BY <1>3, BufferRsetCapacity
<1>4. ASSUME NEW x \in Values, Ring!Did(<<"resize", n, x>>, Ring!resize(cBuffer, n, x))
      PROVE  BufferStep
  BY <1>4, BufferResize
<1>5. ASSUME NEW x \in Values, Ring!Did(<<"rresize", n, x>>, Ring!rresize(cBuffer, n, x))
      PROVE  BufferStep
  BY <1>5, BufferRresize
<1>6. ASSUME NEW x \in Values, NEW m \in n .. MaxCapacity,
             Ring!Did(<<"assign", m, n, x>>, Ring!assign_n(cBuffer, m, n, x))
      PROVE  BufferStep
  BY <1>6, BufferAssign
<1>7. QED
  BY <1>1, <1>2, <1>3, <1>4, <1>5, <1>6

----------------------------------------------------------------------------
(* The invariant *)

\* The buffer holds a list from one of its slots on.
BufferHolds == \E N, s : Becomes(cBuffer, N, s) /\ N <= MaxCapacity

\* It does until an insertion strays, and what linearize() left does not wrap.
BufferInv ==
    /\ cStrayed \in BOOLEAN /\ Ring!Linearized
    /\ cStrayed \/ BufferHolds

LEMMA BufferStarts == ASSUME Ring!Init PROVE Becomes(cBuffer, 0, << >>) /\ BufferInv
<1>1. cBuffer = [slots |-> << >>, first |-> 0, last |-> 0, size |-> 0, ok |-> TRUE]
  BY DEF Ring!Init, Ring!Fresh
<1>2. Layout(0, 0, Content(0, << >>)) = << >>
  <2>1. \A v : [p \in 1 .. 0 |-> v[Minus(0, p - 1, 0)]] = << >>
    OBVIOUS
  <2>2. QED
    BY <2>1 DEF Layout
<1>3. Plus(0, 0, 0) = 0 /\ Len(<< >>) = 0 /\ << >> \in Seq(Values)
  BY DEF Plus
<1>4. At(0, 0, << >>) = cBuffer
  BY <1>1, <1>2, <1>3 DEF At, Rec
<1>5. Fits(0, 0, << >>)
  BY <1>3 DEF Fits
<1>6. Becomes(cBuffer, 0, << >>) /\ 0 <= MaxCapacity
  BY <1>4, <1>5, BufferConstants DEF Becomes
<1>7. Ring!Linearized
  BY <1>1 DEF Ring!Linearized
<1>8. BufferHolds /\ cStrayed \in BOOLEAN
  BY <1>6 DEF BufferHolds, Ring!Init
<1>9. QED
  BY <1>6, <1>7, <1>8 DEF BufferInv

LEMMA BufferMoved ==
    ASSUME BufferHolds, cStrayed \in BOOLEAN, Ring!Next
    PROVE  /\ cStrayed' \in BOOLEAN /\ Ring!Linearized'
           /\ cStrayed' \/ BufferStep
<1>1. PICK N, s : Becomes(cBuffer, N, s) /\ N <= MaxCapacity
  BY DEF BufferHolds
<1>2. PICK f : Holds(cBuffer, f, N, s)
  BY <1>1 DEF Becomes, Holds
<1>3. ASSUME Ring!PushPop PROVE BufferStep
  <2>1. \/ \E x \in Values : /\ Ring!capacity(cBuffer) > 0
                             /\ Ring!Did(<<"push_back", x>>, Ring!push_back(cBuffer, x))
        \/ \E x \in Values : Ring!Did(<<"push_front", x>>, Ring!push_front(cBuffer, x))
        \/ cBuffer.size > 0 /\ Ring!Did(<<"pop_back">>, Ring!pop_back(cBuffer))
        \/ cBuffer.size > 0 /\ Ring!Did(<<"pop_front">>, Ring!pop_front(cBuffer))
    BY <1>3 DEF Ring!PushPop
  <2>2. ASSUME NEW x \in Values, Ring!capacity(cBuffer) > 0,
               Ring!Did(<<"push_back", x>>, Ring!push_back(cBuffer, x))
        PROVE  BufferStep
    BY <1>2, <2>2, BufferPushBack
  <2>3. ASSUME NEW x \in Values,
               Ring!Did(<<"push_front", x>>, Ring!push_front(cBuffer, x))
        PROVE  BufferStep
    BY <1>2, <2>3, BufferPushFront
  <2>4. QED
    BY <1>2, <2>1, <2>2, <2>3, BufferPops
<1>4. ASSUME Ring!PushPop \/ Ring!Insert \/ Ring!Erase \/ Ring!Storage \/ Ring!Whole,
             UNCHANGED cStrayed
      PROVE  cStrayed' \in BOOLEAN /\ BufferStep
  BY <1>2, <1>3, <1>4, BufferInserts, BufferErases, BufferStorage, BufferWhole
<1>5. BufferStep => Ring!Linearized'
  BY DEF BufferStep
<1>6. QED
  BY <1>2, <1>4, <1>5, BufferInsertsSome DEF Ring!Next

LEMMA BufferStays == ASSUME BufferInv, [Ring!Next]_ringVars PROVE BufferInv'
<1>1. CASE Ring!Next
  <2>1. BufferHolds /\ cStrayed \in BOOLEAN
    BY <1>1 DEF BufferInv, Ring!Next
  <2>2. BufferStep => BufferHolds'
    BY DEF BufferStep, BufferHolds
  <2>3. QED
    BY <1>1, <2>1, <2>2, BufferMoved DEF BufferInv
<1>2. CASE UNCHANGED ringVars
  BY <1>2 DEF ringVars, BufferInv, BufferHolds, Ring!Linearized, Ring!capacity
<1>3. QED
  BY <1>1, <1>2

LEMMA BufferTypes == ASSUME BufferInv PROVE Ring!TypeOK
<1>0. CASE cStrayed
  BY <1>0 DEF BufferInv, Ring!TypeOK
<1> SUFFICES ASSUME BufferHolds, cStrayed \in BOOLEAN PROVE Ring!TypeOK
  BY <1>0 DEF BufferInv
<1>1. PICK N, s : Becomes(cBuffer, N, s) /\ N <= MaxCapacity
  BY DEF BufferHolds
<1>2. PICK f : cBuffer = At(N, f, s) /\ Fits(N, f, s)
  BY <1>1 DEF Becomes
<1>3. /\ N \in Nat /\ Len(s) \in 0 .. N
      /\ cBuffer.first = f /\ cBuffer.size = Len(s) /\ cBuffer.ok
      /\ Ring!capacity(cBuffer) = N
      /\ N # 0 => f \in 0 .. N - 1 /\ cBuffer.last \in 0 .. N - 1
      /\ N = 0 => f = 0 /\ cBuffer.last = 0
      /\ Content(N, s) \in [0 .. N - 1 -> Cells]
      /\ cBuffer = Rec(N, f, Content(N, s), f, cBuffer.last, Len(s))
  BY <1>2, AtIs
<1>4. cBuffer.slots \in Seq(Cells)
  <2>1. PICK t : t = Content(N, s)
    OBVIOUS
  <2>2. cBuffer.slots = Layout(N, f, t)
    BY <1>3, <2>1 DEF Rec
  <2>3. \A p \in 1 .. N : t[Minus(N, p - 1, f)] \in Cells
    <3>1. \A p \in 1 .. N : N # 0 /\ p - 1 \in 0 .. N - 1
      BY <1>3
    <3>2. \A p \in 1 .. N : Minus(N, p - 1, f) \in 0 .. N - 1
      BY <1>3, <3>1, Around
    <3>3. QED
      BY <1>3, <2>1, <3>2
  <2>4. Layout(N, f, t) \in [1 .. N -> Cells]
    BY <2>3 DEF Layout
  <2>5. QED
    BY <1>3, <2>2, <2>4
<1>5. {cBuffer.first, cBuffer.last} \subseteq
        (IF Ring!capacity(cBuffer) = 0 THEN {0} ELSE 0 .. Ring!capacity(cBuffer) - 1)
  BY <1>3
<1>6. cBuffer.ok \in BOOLEAN
  BY <1>2 DEF At, Rec
<1>7. QED
  BY <1>1, <1>3, <1>4, <1>5, <1>6 DEF Ring!TypeOK, Cells

LEMMA BufferLives == ASSUME BufferInv PROVE Ring!LifetimesRespected /\ Ring!LiveFromFirst
<1>0. CASE cStrayed
  BY <1>0 DEF BufferInv, Ring!LifetimesRespected, Ring!LiveFromFirst
<1> SUFFICES ASSUME BufferHolds, cStrayed \in BOOLEAN PROVE Ring!LifetimesRespected /\ Ring!LiveFromFirst
  BY <1>0 DEF BufferInv
<1>1. PICK N, s : Becomes(cBuffer, N, s) /\ N <= MaxCapacity
  BY DEF BufferHolds
<1>2. PICK f : cBuffer = At(N, f, s) /\ Fits(N, f, s)
  BY <1>1 DEF Becomes
<1>3. PICK t, l : t = Content(N, s) /\ l = cBuffer.last
  OBVIOUS
<1>4. /\ N \in Nat /\ Len(s) \in 0 .. N /\ s \in Seq(Values)
      /\ cBuffer.first = f /\ l = Plus(N, f, Len(s)) /\ cBuffer.size = Len(s) /\ cBuffer.ok
      /\ Ring!capacity(cBuffer) = N
      /\ N # 0 => f \in 0 .. N - 1
      /\ t \in [0 .. N - 1 -> Cells]
      /\ cBuffer = Rec(N, f, t, f, l, Len(s))
  BY <1>2, <1>3, AtIs
<1>5. \A p, n : Ring!add(cBuffer, p, n) = Plus(N, p, n)
  BY <1>4, Pointers DEF IsRec
<1>6. ASSUME NEW i \in 0 .. N - 1
      PROVE  (Ring!Get(cBuffer, Ring!add(cBuffer, f, i)) # Raw) = (i < Len(s))
  <2>1. PICK p : p = Ring!add(cBuffer, f, i)
    OBVIOUS
  <2>2. IsSlot(p, i, cBuffer, N, f, t, f, l, Len(s))
    <3>1. N # 0
      BY <1>4
    <3>2. QED
      BY <1>4, <1>5, <2>1, <3>1 DEF IsSlot
  <2>3. Ring!Get(cBuffer, p) = t[i]
    <3>1. Raw \in Cells
      BY DEF Cells
    <3>2. QED
      BY <2>2, <3>1, SetIs
  <2>4. t[i] = IF i < Len(s) THEN s[i + 1] ELSE Raw
    BY <1>3 DEF Content
  <2>5. i < Len(s) => s[i + 1] \in Values
    BY <1>4
  <2>6. (t[i] # Raw) <=> (i < Len(s))
    BY <2>4, <2>5, BufferConstants
  <2>7. QED
    BY <2>1, <2>3, <2>6
<1>7. Ring!LifetimesRespected
  BY <1>4 DEF Ring!LifetimesRespected
<1>8. Ring!LiveFromFirst
  BY <1>3, <1>4, <1>5, <1>6 DEF Ring!LiveFromFirst
<1>9. QED
  BY <1>7, <1>8

\* The buffer's invariant: after every call, up to an insertion that strays, the
\* objects lie from one slot on, wrapping at the end of the storage, each
\* constructed and destroyed in turn.
THEOREM BufferInvariant == Spec => []BufferInv
<1>1. ASSUME Init PROVE BufferInv
  BY <1>1, BufferStarts DEF Init
<1>2. ASSUME BufferInv, [Next]_mcvars PROVE BufferInv'
  BY <1>2, BufferMoves, BufferStays
<1>3. QED
  BY <1>1, <1>2, PTL DEF Spec

\* Under the calls of a list of bounded length the items of the buffer change as
\* that list does: what is added to a full buffer replaces items at the other end.
\* It does so up to an insertion that strays.
THEOREM BufferIsARing == Spec => Ring!IsARing
<1>1. ASSUME Init PROVE Ring!Ring!Init
  <2>1. Ring!Init
    BY <1>1 DEF Init
  <2>2. Becomes(cBuffer, 0, << >>) /\ cCall = <<"none">>
    BY <2>1, BufferStarts DEF Ring!Init
  <2>3. Ring!Items = ItemsOf(cBuffer)
    BY DEF Ring!Items, ItemsOf
  <2>4. Ring!Items = << >> /\ Ring!capacity(cBuffer) = 0
    BY <2>2, <2>3, ItemsAre
  <2>5. QED
    BY <2>2, <2>4 DEF Ring!Ring!Init
<1>2. BufferInv /\ [Next]_mcvars =>
        [Ring!Ring!Next \/ cStrayed']_<<Ring!Items, Ring!capacity(cBuffer), cCall>>
  <2>1. SUFFICES ASSUME BufferInv, [Next]_mcvars, ~cStrayed'
        PROVE  [Ring!Ring!Next]_<<Ring!Items, Ring!capacity(cBuffer), cCall>>
    OBVIOUS
  <2>2. [Ring!Next]_ringVars
    BY <2>1, BufferMoves
  <2>3. CASE Ring!Next
    <3>1. BufferHolds /\ cStrayed \in BOOLEAN
      BY <2>1, <2>3 DEF BufferInv, Ring!Next
    <3>2. QED
      BY <2>1, <2>3, <3>1, BufferMoved DEF BufferStep
  <2>4. CASE UNCHANGED ringVars
    <3>1. cBuffer' = cBuffer /\ cCall' = cCall
      BY <2>4 DEF ringVars
    <3>2. Ring!Items' = Ring!Items /\ Ring!capacity(cBuffer)' = Ring!capacity(cBuffer)
      BY <3>1 DEF Ring!Items, Ring!Item, Ring!Get, Ring!add, Ring!capacity
    <3>3. QED
      BY <3>1, <3>2
  <2>5. QED
    BY <2>2, <2>3, <2>4
<1>3. QED
  BY <1>1, <1>2, BufferInvariant, PTL DEF Spec, Ring!IsARing
=============================================================================
