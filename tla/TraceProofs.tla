---------------------------- MODULE TraceProofs ----------------------------
(***************************************************************************)
(* Proofs about Trace for every number of clients, names, formatters and   *)
(* queue slots, when calls of initialize() do not overlap others' calls of *)
(* initialize() and finalize().  Of the lifecycle: the globals outlive     *)
(* every call, and no sink is used after it was unregistered.  Of the      *)
(* records: none is thrown away, each sink gets them in order, once, and   *)
(* misses none, and flush() returns after all that were put before it are  *)
(* taken.                                                                  *)
(***************************************************************************)
EXTENDS Trace, TLAPS, FiniteSetTheorems, SequenceTheorems

\* The types a step of the lifecycle needs.
LEMMA CoreTypes ==
    ASSUME TypeOK
    PROVE  /\ refs \in Nat /\ holders \subseteq Clients
           /\ pc \in [Clients -> PCs]
           /\ IsFiniteSet(Owners)
           /\ Cardinality(Owners) \in Nat
           /\ Cardinality(Owners) = 0 <=> Owners = {}
<1>1. holders \subseteq Clients /\ refs \in Nat /\ pc \in [Clients -> PCs]
  BY DEF TypeOK
<1>2. Owners \in SUBSET Clients
  BY <1>1 DEF Owners
<1>3. IsFiniteSet(Owners)
  BY <1>2, FS_Subset, TraceAssumption
<1>4. QED
  BY <1>1, <1>3, FS_CardinalityType, FS_EmptySet

\* Owners changes only where a client's stage or its reference does.
LEMMA OwnersStay ==
    ASSUME TypeOK, NEW t \in Clients, NEW l \in PCs,
           pc' = [pc EXCEPT ![t] = l], holders' = holders,
           l \in Counted <=> pc[t] \in Counted
    PROVE  Owners' = Owners
<1>1. pc \in [Clients -> PCs]
  BY DEF TypeOK
<1>2. \A u \in Clients : pc'[u] \in Counted <=> pc[u] \in Counted
  BY <1>1
<1>3. QED
  BY <1>2 DEF Owners

CoreInv == OwnersInv /\ AloneInv /\ GlobalsInv /\ WriterInv

\* A client inside an ordinary call has a reference.
LEMMA InACall ==
    ASSUME CoreInv, NEW t \in Clients,
           pc[t] \in {"spin", "spin_test", "write_list", "write_push", "write_set"}
    PROVE  t \in holders
BY DEF CoreInv, OwnersInv, Building, TearingDown

\* A step inside an ordinary call, which leaves the globals, the references
\* and the writer thread alone, keeps the lifecycle's invariant.
LEMMA CallKeepsCore ==
    ASSUME TypeOK, CoreInv, NEW t \in holders,
           NEW l \in PCs \ (Building \cup TearingDown),
           pc' = [pc EXCEPT ![t] = l],
           UNCHANGED <<refs, global, stopFlag, writerThread, holders, wpc>>
    PROVE  CoreInv'
<1>1. t \in Clients /\ pc \in [Clients -> PCs] /\ holders \subseteq Clients
  BY CoreTypes
<1>2. pc[t] \notin Building \cup TearingDown /\ l \notin Counted /\ pc[t] \notin Counted
  BY <1>1 DEF CoreInv, OwnersInv, Counted, TearingDown
<1>3. Owners' = Owners
  BY <1>1, <1>2, OwnersStay
<1>4. OwnersInv'
  BY <1>1, <1>2, <1>3 DEF CoreInv, OwnersInv
<1>5. \A u \in Clients : pc[u] \notin Alone
  <2>1. \A u \in Clients : u # t => pc[u] \notin Alone
    BY <1>1 DEF CoreInv, AloneInv
  <2>2. QED
    BY <1>2, <2>1 DEF Alone
<1>6. AloneInv'
  BY <1>1, <1>5 DEF AloneInv, Alone
<1>7. GlobalsInv'
  BY <1>1, <1>2, <1>3 DEF CoreInv, GlobalsInv, Building
<1>8. WriterInv'
  BY <1>1 DEF CoreInv, WriterInv, Building, TearingDown
<1>9. QED
  BY <1>4, <1>6, <1>7, <1>8 DEF CoreInv

\* The same for a step inside the flush() of a client that gave up its
\* reference but is still counted.
LEMMA FlushKeepsCore ==
    ASSUME TypeOK, CoreInv, NEW t \in Clients,
           pc[t] \in {"fin_spin", "fin_test"},
           NEW l \in {"fin_spin", "fin_test", "fin_count"},
           pc' = [pc EXCEPT ![t] = l],
           UNCHANGED <<refs, global, stopFlag, writerThread, holders, wpc>>
    PROVE  CoreInv'
<1>1. pc \in [Clients -> PCs] /\ holders \subseteq Clients /\ l \in PCs
  BY CoreTypes DEF PCs, TearingDown
<1>2. l \in Counted /\ pc[t] \in Counted /\ t \notin holders
  BY <1>1 DEF CoreInv, OwnersInv, Counted, TearingDown
<1>3. Owners' = Owners /\ t \in Owners
  BY <1>1, <1>2, OwnersStay DEF Owners
<1>4. OwnersInv'
  BY <1>1, <1>2, <1>3 DEF CoreInv, OwnersInv, TearingDown, Building
<1>5. \A u \in Clients : pc[u] \notin Alone
  <2>1. \A u \in Clients : u # t => pc[u] \notin Alone
    BY <1>1 DEF CoreInv, AloneInv
  <2>2. pc[t] \notin Alone
    BY DEF Alone, Building, Counted, TearingDown
  <2>3. QED
    BY <2>1, <2>2
<1>6. AloneInv'
  BY <1>1, <1>5, <1>2 DEF AloneInv, Alone, Building, Counted
<1>7. GlobalsInv'
  BY <1>1, <1>2, <1>3 DEF CoreInv, GlobalsInv, TearingDown
<1>8. WriterInv'
  BY <1>1 DEF CoreInv, WriterInv
<1>9. QED
  BY <1>4, <1>6, <1>7, <1>8 DEF CoreInv

\* Who builds the globals or tears them down has the library to itself.
LEMMA AloneFacts ==
    ASSUME TypeOK, CoreInv, NEW t \in Clients, pc[t] \in Alone
    PROVE  /\ holders = {}
           /\ \A u \in Clients : u # t => pc[u] = "idle"
           /\ Owners = IF pc[t] \in Counted THEN {t} ELSE {}
<1>1. pc \in [Clients -> PCs] /\ holders \subseteq Clients
  BY CoreTypes
<1>2. \A u \in Clients : u # t => pc[u] = "idle" /\ u \notin holders
  BY DEF CoreInv, AloneInv
<1>3. t \notin holders
  BY DEF CoreInv, OwnersInv, Alone
<1>4. "idle" \notin Counted
  BY DEF Counted, Building
<1>5. QED
  BY <1>1, <1>2, <1>3, <1>4 DEF Owners

\* The steps of the last finalize(), from its stop flag to its null pointer.
LEMMA TearDownKeepsCore ==
    ASSUME TypeOK, CoreInv, NEW t \in Clients,
           pc[t] \in TearingDown \ Counted,
           NEW l \in (TearingDown \ Counted) \cup {"idle"},
           pc' = [pc EXCEPT ![t] = l],
           UNCHANGED <<refs, holders>>,
           global' <=> l # "idle",
           WriterInv'
    PROVE  CoreInv'
<1>1. pc \in [Clients -> PCs] /\ holders \subseteq Clients /\ l \in PCs
  BY CoreTypes DEF PCs, TearingDown
<1>2. /\ holders = {} /\ Owners = {}
      /\ \A u \in Clients : u # t => pc[u] = "idle"
  BY AloneFacts DEF Alone
<1>3. Owners' = Owners
  BY <1>1, OwnersStay DEF Counted, Building
<1>4. OwnersInv'
  BY <1>1, <1>2, <1>3 DEF CoreInv, OwnersInv
<1>5. AloneInv'
  BY <1>1, <1>2 DEF AloneInv, Alone, Building, TearingDown
<1>6. GlobalsInv'
  BY <1>1, <1>2, <1>3 DEF GlobalsInv, TearingDown
<1>7. QED
  BY <1>4, <1>5, <1>6 DEF CoreInv

\* A step of the writer that does not end it.
LEMMA WriterKeepsCore ==
    ASSUME TypeOK, CoreInv, UNCHANGED <<core, pc>>, wpc # "none", wpc' # "none"
    PROVE  CoreInv'
<1>1. Owners' = Owners
  BY DEF Owners, core
<1>2. QED
  BY <1>1 DEF CoreInv, OwnersInv, AloneInv, GlobalsInv, WriterInv, core

LEMMA InitBeginKeepsCore ==
    ASSUME TypeOK, CoreInv, ~Overlap, NEW t \in Clients, InitBegin(t)
    PROVE  CoreInv'
<1>1. /\ pc \in [Clients -> PCs] /\ holders \subseteq Clients /\ refs \in Nat
      /\ IsFiniteSet(Owners)
  BY CoreTypes
<1>2. /\ pc[t] = "idle" /\ t \notin holders /\ t \notin Owners
      /\ \A u \in Clients : pc[u] \notin Building \cup TearingDown
      /\ UNCHANGED <<global, stopFlag, writerThread, wpc>>
  BY DEF InitBegin, Building, TearingDown, Counted, Owners, writer
<1>3. refs' = refs + 1 /\ Cardinality(Owners \cup {t}) = refs + 1
  BY <1>1, <1>2, FS_AddElement DEF InitBegin, CoreInv, OwnersInv
<1>4. CASE refs + 1 > 1
  <2>1. holders' = holders \cup {t} /\ pc' = pc
    BY <1>4 DEF InitBegin
  <2>2. Owners' = Owners \cup {t}
    BY <2>1 DEF Owners
  <2>3. global /\ ~stopFlag
    <3>1. Owners # {}
      BY <1>1, <1>4, CoreTypes DEF CoreInv, OwnersInv
    <3>2. PICK u \in Owners : TRUE
      BY <3>1
    <3>3. u \in Clients /\ pc[u] # "init_build"
      BY <1>1, <1>2 DEF Owners, Building
    <3>4. QED
      BY <3>3 DEF CoreInv, GlobalsInv
  <2>4. OwnersInv'
    BY <1>2, <1>3, <2>1, <2>2 DEF CoreInv, OwnersInv
  <2>5. AloneInv'
    BY <1>2, <2>1 DEF AloneInv, Alone
  <2>6. GlobalsInv'
    BY <1>2, <2>1, <2>2, <2>3 DEF CoreInv, GlobalsInv
  <2>7. WriterInv'
    BY <1>2, <2>1 DEF CoreInv, WriterInv
  <2>8. QED
    BY <2>4, <2>5, <2>6, <2>7 DEF CoreInv
<1>5. CASE ~(refs + 1 > 1)
  <2>1. holders' = holders /\ pc' = [pc EXCEPT ![t] = "init_build"]
    BY <1>5 DEF InitBegin, Goto
  <2>2. Owners = {} /\ holders = {}
    BY <1>1, <1>5, CoreTypes DEF CoreInv, OwnersInv, Owners
  <2>3. \A u \in Clients : pc[u] = "idle"
    BY <1>1, <1>2, <2>2 DEF CoreInv, OwnersInv
  <2>4. ~global
    BY <2>2, <2>3 DEF CoreInv, GlobalsInv
  <2>5. Owners' = Owners \cup {t}
    BY <1>1, <2>1, <2>2, <2>3 DEF Owners, Counted, Building
  <2>6. OwnersInv'
    BY <1>1, <1>3, <2>1, <2>2, <2>3, <2>5 DEF OwnersInv, Building
  <2>7. AloneInv'
    BY <1>1, <2>1, <2>2, <2>3 DEF AloneInv, Alone, Building, TearingDown
  <2>8. GlobalsInv'
    BY <1>1, <1>2, <2>1, <2>2, <2>3, <2>4, <2>5 DEF GlobalsInv, TearingDown
  <2>9. WriterInv'
    BY <1>1, <1>2, <2>1, <2>4 DEF CoreInv, WriterInv
  <2>10. QED
    BY <2>6, <2>7, <2>8, <2>9 DEF CoreInv
<1>6. QED
  BY <1>4, <1>5

LEMMA InitBuildKeepsCore ==
    ASSUME TypeOK, CoreInv, NEW t \in Clients, InitBuild(t)
    PROVE  CoreInv'
<1>1. /\ pc \in [Clients -> PCs] /\ holders \subseteq Clients
      /\ pc[t] = "init_build" /\ pc[t] \in Alone /\ pc[t] \in Counted
  BY CoreTypes DEF InitBuild, Alone, Counted, Building
<1>2. /\ holders = {} /\ Owners = {t}
      /\ \A u \in Clients : u # t => pc[u] = "idle"
  BY <1>1, AloneFacts
<1>3. /\ pc' = [pc EXCEPT ![t] = "init_thread"]
      /\ UNCHANGED <<refs, holders, wpc>>
      /\ global' /\ ~stopFlag' /\ writerThread' = "null"
  BY DEF InitBuild, Goto
<1>4. Owners' = Owners
  BY <1>1, <1>3, OwnersStay DEF Counted, Building, PCs
<1>5. OwnersInv'
  BY <1>1, <1>2, <1>3, <1>4 DEF CoreInv, OwnersInv, Building
<1>6. AloneInv'
  BY <1>1, <1>2, <1>3 DEF AloneInv, Alone, Building, TearingDown
<1>7. GlobalsInv'
  BY <1>1, <1>2, <1>3 DEF GlobalsInv, TearingDown
<1>8. WriterInv'
  <2>1. wpc = "none"
    BY <1>1 DEF CoreInv, GlobalsInv, WriterInv
  <2>2. QED
    BY <1>3, <2>1 DEF WriterInv
<1>9. QED
  BY <1>5, <1>6, <1>7, <1>8 DEF CoreInv

LEMMA InitThreadKeepsCore ==
    ASSUME TypeOK, CoreInv, NEW t \in Clients, InitThread(t)
    PROVE  CoreInv'
<1>1. /\ pc \in [Clients -> PCs] /\ holders \subseteq Clients
      /\ pc[t] = "init_thread" /\ pc[t] \in Alone /\ pc[t] \in Counted
  BY CoreTypes DEF InitThread, Alone, Counted, Building
<1>2. /\ holders = {} /\ Owners = {t}
      /\ \A u \in Clients : u # t => pc[u] = "idle"
  BY <1>1, AloneFacts
<1>3. /\ pc' = [pc EXCEPT ![t] = "idle"] /\ holders' = {t}
      /\ UNCHANGED <<refs, global, stopFlag>>
  BY <1>2 DEF InitThread, Goto
<1>4. \A u \in Clients : pc'[u] = "idle"
  BY <1>1, <1>2, <1>3
<1>5. Owners' = Owners
  BY <1>2, <1>3, <1>4 DEF Owners, Counted, Building
<1>6. OwnersInv'
  BY <1>3, <1>4, <1>5 DEF CoreInv, OwnersInv, Building, TearingDown
<1>7. AloneInv'
  BY <1>4 DEF AloneInv, Alone, Building, TearingDown
<1>8. global /\ ~stopFlag
  BY <1>1, <1>2 DEF CoreInv, GlobalsInv
<1>9. GlobalsInv'
  BY <1>3, <1>4, <1>8 DEF GlobalsInv, TearingDown
<1>10. WriterInv'
  BY <1>1, <1>3, <1>4, <1>8 DEF CoreInv, WriterInv, InitThread
<1>11. QED
  BY <1>6, <1>7, <1>9, <1>10 DEF CoreInv

LEMMA InitFailKeepsCore ==
    ASSUME TypeOK, CoreInv, NEW t \in Clients, InitFail(t)
    PROVE  CoreInv'
<1>1. /\ pc \in [Clients -> PCs] /\ holders \subseteq Clients
      /\ pc[t] = "init_thread" /\ pc[t] \in Alone /\ pc[t] \in Counted
  BY CoreTypes DEF InitFail, Alone, Counted, Building
<1>2. /\ holders = {} /\ Owners = {t}
      /\ \A u \in Clients : u # t => pc[u] = "idle"
  BY <1>1, AloneFacts
<1>3. PICK l \in {"fin_spin", "fin_count"} : pc' = [pc EXCEPT ![t] = l]
  BY DEF InitFail, Flush, Goto
<1>4. UNCHANGED <<refs, holders, global, stopFlag, writerThread, wpc>>
  BY DEF InitFail, core, writer
<1>5. Owners' = Owners
  BY <1>1, <1>3, <1>4, OwnersStay DEF Counted, PCs, TearingDown
<1>6. OwnersInv'
  BY <1>1, <1>2, <1>3, <1>4, <1>5 DEF CoreInv, OwnersInv, TearingDown
<1>7. AloneInv'
  BY <1>1, <1>2, <1>3, <1>4 DEF AloneInv, Alone, Building, Counted, TearingDown
<1>8. global /\ ~stopFlag
  BY <1>1, <1>2 DEF CoreInv, GlobalsInv
<1>9. GlobalsInv'
  BY <1>1, <1>2, <1>3, <1>4, <1>8 DEF GlobalsInv
<1>10. WriterInv'
  BY <1>1, <1>2, <1>3, <1>4 DEF CoreInv, WriterInv
<1>11. QED
  BY <1>6, <1>7, <1>9, <1>10 DEF CoreInv

LEMMA FinBeginKeepsCore ==
    ASSUME TypeOK, CoreInv, NEW t \in Clients, FinBegin(t)
    PROVE  CoreInv'
<1>1. /\ pc \in [Clients -> PCs] /\ holders \subseteq Clients
      /\ pc[t] = "idle" /\ t \in holders /\ t \in Owners
  BY CoreTypes DEF FinBegin, Owners
<1>2. PICK l \in {"fin_spin", "fin_count"} : pc' = [pc EXCEPT ![t] = l]
  BY DEF FinBegin, Flush, Goto
<1>3. /\ UNCHANGED <<refs, global, stopFlag, writerThread, wpc>>
      /\ holders' = holders \ {t}
  BY DEF FinBegin, writer
<1>4. Owners' = Owners
  BY <1>1, <1>2, <1>3 DEF Owners, Counted
<1>5. OwnersInv'
  BY <1>1, <1>2, <1>3, <1>4 DEF CoreInv, OwnersInv, TearingDown
<1>6. AloneInv'
  <2>1. \A u \in Clients : pc[u] \notin Alone
    BY <1>1 DEF CoreInv, AloneInv, Alone, Building, TearingDown
  <2>2. QED
    BY <1>1, <1>2, <2>1 DEF AloneInv, Alone, Building, Counted
<1>7. global /\ ~stopFlag
  BY <1>1 DEF CoreInv, GlobalsInv
<1>8. GlobalsInv'
  BY <1>1, <1>2, <1>3, <1>4, <1>7 DEF CoreInv, GlobalsInv
<1>9. WriterInv'
  BY <1>1, <1>2, <1>3 DEF CoreInv, WriterInv
<1>10. QED
  BY <1>5, <1>6, <1>8, <1>9 DEF CoreInv

LEMMA FinCountKeepsCore ==
    ASSUME TypeOK, CoreInv, NEW t \in Clients, FinCount(t)
    PROVE  CoreInv'
<1>1. /\ pc \in [Clients -> PCs] /\ holders \subseteq Clients /\ refs \in Nat
      /\ IsFiniteSet(Owners)
      /\ pc[t] = "fin_count" /\ t \notin holders /\ t \in Owners
  BY CoreTypes DEF FinCount, Owners, Counted, CoreInv, OwnersInv, TearingDown
<1>2. global
  BY <1>1 DEF CoreInv, GlobalsInv, TearingDown
<1>3. PICK l \in {"idle", "fin_stop"} :
         pc' = [pc EXCEPT ![t] = l] /\ (l = "idle" <=> refs - 1 # 0)
  BY <1>2 DEF FinCount, Goto
<1>4. UNCHANGED <<global, stopFlag, writerThread, holders, wpc>> /\ refs' = refs - 1
  BY DEF FinCount, writer
<1>5. Owners' = Owners \ {t}
  BY <1>1, <1>3, <1>4 DEF Owners, Counted, Building
<1>6. Cardinality(Owners \ {t}) = refs - 1
  BY <1>1, FS_RemoveElement DEF CoreInv, OwnersInv
<1>7. OwnersInv'
  BY <1>1, <1>3, <1>4, <1>5, <1>6 DEF CoreInv, OwnersInv, TearingDown
<1>8. \A u \in Clients : pc[u] \notin Alone
  BY <1>1 DEF CoreInv, AloneInv, Alone, Building, TearingDown, Counted
<1>9. WriterInv'
  BY <1>1, <1>3, <1>4 DEF CoreInv, WriterInv
<1>10. Owners \ {t} = {} <=> refs - 1 = 0
  BY <1>1, <1>6, FS_RemoveElement, FS_EmptySet
<1>11. AloneInv' /\ GlobalsInv'
  <2>1. CASE l = "idle"
    <3>1. PICK u \in Owners \ {t} : TRUE
      BY <1>3, <1>10, <2>1
    <3>2. u \in Clients /\ u # t /\ (u \in holders \/ pc[u] \notin {"idle", "init_build"})
      BY <1>1, <1>8, <3>1 DEF Owners, Counted, Alone, Building
    <3>3. AloneInv'
      BY <1>1, <1>3, <1>8, <2>1 DEF AloneInv, Alone, Building, TearingDown
    <3>4. GlobalsInv'
      BY <1>1, <1>2, <1>3, <1>4, <1>5, <2>1, <3>2 DEF CoreInv, GlobalsInv
    <3>5. QED
      BY <3>3, <3>4
  <2>2. CASE l = "fin_stop"
    <3>1. Owners = {t}
      BY <1>1, <1>3, <1>10, <2>2
    <3>2. \A u \in Clients : u # t => pc[u] = "idle" /\ u \notin holders
      <4>1. \A u \in Clients : u # t => pc[u] \notin Counted /\ u \notin holders
        BY <3>1 DEF Owners
      <4>2. QED
        BY <1>1, <1>8, <4>1 DEF CoreInv, OwnersInv, Alone
    <3>3. AloneInv'
      BY <1>1, <1>3, <1>4, <3>2 DEF AloneInv, Alone, Building, TearingDown
    <3>4. GlobalsInv'
      BY <1>1, <1>2, <1>3, <1>4, <1>5, <2>2, <3>1, <3>2 DEF GlobalsInv
    <3>5. QED
      BY <3>3, <3>4
  <2>3. QED
    BY <2>1, <2>2
<1>12. QED
  BY <1>7, <1>9, <1>11 DEF CoreInv

\* Every step keeps the lifecycle's invariant.
LEMMA CoreStep ==
    ASSUME TypeOK, CoreInv, ~Overlap, [Next]_vars
    PROVE  CoreInv'
<1>0. holders \subseteq Clients /\ pc \in [Clients -> PCs]
  BY CoreTypes
<1>1. ASSUME NEW t \in Clients, ClientStep(t)
      PROVE  CoreInv'
  <2>1. CASE InitBuild(t)
    BY <2>1, InitBuildKeepsCore
  <2>2. CASE InitThread(t)
    BY <2>2, InitThreadKeepsCore
  <2>3. CASE InitFail(t)
    BY <2>3, InitFailKeepsCore
  <2>4. CASE SpinRead(t)
    <3>1. UNCHANGED <<refs, global, stopFlag, writerThread, holders, wpc>>
      BY <2>4 DEF SpinRead, core, writer
    <3>2. CASE pc[t] = "spin" /\ Goto(t, "spin_test")
      BY <1>0, <3>1, <3>2, CallKeepsCore, InACall DEF Goto, PCs, Building, TearingDown
    <3>3. CASE pc[t] = "fin_spin" /\ Goto(t, "fin_test")
      BY <3>1, <3>3, FlushKeepsCore DEF Goto
    <3>4. QED
      BY <2>4, <3>2, <3>3 DEF SpinRead
  <2>5. CASE SpinTest(t)
    <3>1. UNCHANGED <<refs, global, stopFlag, writerThread, holders, wpc>>
      BY <2>5 DEF SpinTest, core, writer
    <3>2. CASE pc[t] = "spin_test"
      <4>1. PICK l \in {"idle", "spin"} : pc' = [pc EXCEPT ![t] = l]
        BY <2>5, <3>2 DEF SpinTest, Goto
      <4>2. QED
        BY <1>0, <3>1, <3>2, <4>1, CallKeepsCore, InACall DEF PCs, Building, TearingDown
    <3>3. CASE pc[t] = "fin_test"
      <4>1. PICK l \in {"fin_count", "fin_spin"} : pc' = [pc EXCEPT ![t] = l]
        BY <2>5, <3>3 DEF SpinTest, Goto
      <4>2. QED
        BY <3>1, <3>3, <4>1, FlushKeepsCore
    <3>4. QED
      BY <2>5, <3>2, <3>3 DEF SpinTest
  <2>6. CASE FinCount(t)
    BY <2>6, FinCountKeepsCore
  <2>7. CASE FinStop(t)
    <3>1. PICK l \in {"fin_drain", "fin_alert"} :
             pc' = [pc EXCEPT ![t] = l] /\ (l = "fin_drain" => writerThread = "null")
      BY <2>7 DEF FinStop, Goto
    <3>2. /\ pc[t] = "fin_stop" /\ global
          /\ UNCHANGED <<refs, global, writerThread, holders, wpc>>
      BY <2>7 DEF FinStop, writer, CoreInv, GlobalsInv, TearingDown
    <3>3. WriterInv'
      BY <1>0, <3>1, <3>2 DEF CoreInv, WriterInv
    <3>4. QED
      BY <3>1, <3>2, <3>3, TearDownKeepsCore DEF TearingDown, Counted, Building
  <2>8. CASE FinAlert(t)
    <3>1. /\ pc[t] = "fin_alert" /\ pc' = [pc EXCEPT ![t] = "fin_join"] /\ global
          /\ UNCHANGED <<refs, global, writerThread, holders, wpc>>
      BY <2>8 DEF FinAlert, Goto, core, writer, CoreInv, GlobalsInv, TearingDown
    <3>2. WriterInv'
      BY <1>0, <3>1 DEF CoreInv, WriterInv
    <3>3. QED
      BY <3>1, <3>2, TearDownKeepsCore DEF TearingDown, Counted, Building
  <2>9. CASE FinJoin(t)
    <3>1. /\ pc[t] = "fin_join" /\ pc' = [pc EXCEPT ![t] = "fin_drain"] /\ global
          /\ UNCHANGED <<refs, global, holders>>
          /\ writerThread' = "null" /\ wpc' = "none"
      BY <2>9 DEF FinJoin, Goto, CoreInv, GlobalsInv, TearingDown
    <3>2. WriterInv'
      BY <1>0, <3>1 DEF CoreInv, WriterInv
    <3>3. QED
      BY <3>1, <3>2, TearDownKeepsCore DEF TearingDown, Counted, Building
  <2>10. CASE FinDrain(t)
    <3>1. /\ pc[t] = "fin_drain" /\ pc' = [pc EXCEPT ![t] = "fin_clear"] /\ global
          /\ UNCHANGED <<refs, global, writerThread, holders, wpc>>
      BY <2>10 DEF FinDrain, Goto, core, writer, CoreInv, GlobalsInv, TearingDown
    <3>2. WriterInv'
      BY <1>0, <3>1 DEF CoreInv, WriterInv
    <3>3. QED
      BY <3>1, <3>2, TearDownKeepsCore DEF TearingDown, Counted, Building
  <2>11. CASE FinClear(t)
    <3>1. /\ pc[t] = "fin_clear" /\ pc' = [pc EXCEPT ![t] = "fin_null"] /\ global
          /\ UNCHANGED <<refs, global, writerThread, holders, wpc>>
      BY <2>11 DEF FinClear, Goto, core, writer, CoreInv, GlobalsInv, TearingDown
    <3>2. WriterInv'
      BY <1>0, <3>1 DEF CoreInv, WriterInv
    <3>3. QED
      BY <3>1, <3>2, TearDownKeepsCore DEF TearingDown, Counted, Building
  <2>12. CASE FinNull(t)
    <3>1. /\ pc[t] = "fin_null" /\ pc' = [pc EXCEPT ![t] = "idle"] /\ ~global'
          /\ UNCHANGED <<refs, writerThread, holders, wpc>>
      BY <2>12 DEF FinNull, Goto, writer
    <3>2. WriterInv'
      BY <1>0, <3>1 DEF CoreInv, WriterInv
    <3>3. QED
      BY <3>1, <3>2, TearDownKeepsCore DEF TearingDown, Counted, Building
  <2>13. CASE WriteList(t) \/ WritePush(t) \/ WriteSet(t)
    <3>1. PICK l \in {"idle", "write_push", "write_set"} : pc' = [pc EXCEPT ![t] = l]
      BY <2>13 DEF WriteList, WritePush, WriteSet, Goto
    <3>2. /\ UNCHANGED <<refs, global, stopFlag, writerThread, holders, wpc>>
          /\ pc[t] \in {"write_list", "write_push", "write_set"}
      BY <2>13 DEF WriteList, WritePush, WriteSet, core, writer
    <3>3. QED
      BY <1>0, <3>1, <3>2, CallKeepsCore, InACall DEF PCs, Building, TearingDown
  <2>14. QED
    BY <1>1, <2>1, <2>2, <2>3, <2>4, <2>5, <2>6, <2>7, <2>8, <2>9, <2>10,
       <2>11, <2>12, <2>13 DEF ClientStep
<1>2. ASSUME NEW t \in Clients, ClientCall(t)
      PROVE  CoreInv'
  <2>1. CASE InitBegin(t)
    BY <2>1, InitBeginKeepsCore
  <2>2. CASE FinBegin(t)
    BY <2>2, FinBeginKeepsCore
  <2>3. CASE FlushBegin(t) \/ WriteBegin(t)
    <3>1. PICK l \in {"idle", "spin", "write_list"} : pc' = [pc EXCEPT ![t] = l]
      BY <2>3 DEF FlushBegin, Flush, WriteBegin, Goto
    <3>2. /\ UNCHANGED <<refs, global, stopFlag, writerThread, holders, wpc>>
          /\ t \in holders
      BY <2>3 DEF FlushBegin, WriteBegin, core, writer
    <3>3. QED
      BY <3>1, <3>2, CallKeepsCore DEF PCs, Building, TearingDown
  <2>4. ASSUME NEW n \in Names,
               \/ UnregisterSink(t, n)
               \/ \E f \in Formatters : RegisterSink(t, n, f) \/ SetFormatter(t, n, f)
               \/ \E b \in BOOLEAN : SetFilter(t, n, b)
        PROVE  CoreInv'
    <3>1. UNCHANGED <<refs, global, stopFlag, writerThread, holders, wpc, pc>>
      BY <2>4 DEF UnregisterSink, RegisterSink, SetFormatter, SetFilter, core, writer
    <3>2. Owners' = Owners
      BY <3>1 DEF Owners
    <3>3. QED
      BY <3>1, <3>2 DEF CoreInv, OwnersInv, AloneInv, GlobalsInv, WriterInv
  <2>5. QED
    BY <1>2, <2>1, <2>2, <2>3, <2>4 DEF ClientCall
<1>3. CASE WriterStep
  <2>1. UNCHANGED <<core, pc>> /\ wpc # "none" /\ wpc' # "none"
    BY <1>3 DEF WriterStep, WriterStart, WriterTest, WriterLook, WriterWake,
       WriterAlerted, WriterDrain, WriterPop, WriterLock, WriterFilter,
       WriterWrite, WriterUnlock, Visit, others
  <2>2. QED
    BY <2>1, WriterKeepsCore
<1>4. CASE IoCompletes
  BY <1>4, WriterKeepsCore DEF IoCompletes, others
<1>5. CASE UNCHANGED vars
  <2>1. UNCHANGED <<refs, global, stopFlag, writerThread, holders, wpc, pc>>
    BY <1>5 DEF vars, core, writer
  <2>2. Owners' = Owners
    BY <2>1 DEF Owners
  <2>3. QED
    BY <2>1, <2>2 DEF CoreInv, OwnersInv, AloneInv, GlobalsInv, WriterInv
<1>6. QED
  BY <1>1, <1>2, <1>3, <1>4, <1>5 DEF Next

----------------------------------------------------------------------------
(* Types *)

LEMMA NoneIsNoRegistration == None \notin Registration
<1>1. DOMAIN None = {"id"}
  BY DEF None
<1>2. \A r \in Registration : "name" \in DOMAIN r
  BY DEF Registration
<1>3. QED
  BY <1>1, <1>2

\* A list with one place taken out is a list of the same kind.
LEMMA WithoutType ==
    ASSUME NEW S, NEW s \in Seq(S), NEW i \in 1 .. Len(s)
    PROVE  Without(s, i) \in Seq(S)
<1>1. SubSeq(s, 1, i - 1) \in Seq(S) /\ SubSeq(s, i + 1, Len(s)) \in Seq(S)
  BY SubSeqProperties, LenProperties
<1>2. QED
  BY <1>1, ConcatProperties DEF Without

\* The sequences of the state, at their types.
LEMMA Sequences ==
    ASSUME TypeOK
    PROVE  /\ queue \in Seq(Nat \ {0}) /\ sinkList \in Seq(Registration)
           /\ given \in Seq(Seq(Nat))
           /\ Len(queue) \in Nat /\ Len(sinkList) \in Nat /\ Len(given) \in Nat
           /\ DOMAIN sinkList = 1 .. Len(sinkList)
           /\ \A i \in DOMAIN sinkList : sinkList[i] \in Registration
BY DEF TypeOK

\* The state of the clients, apart from that of the channel and the writer.
ClientTypes ==
    /\ refs \in Nat /\ global \in BOOLEAN /\ stopFlag \in BOOLEAN
    /\ writerThread \in {"null", "invalid", "valid"} /\ holders \subseteq Clients
    /\ alert \in BOOLEAN
    /\ pc \in [Clients -> PCs]
    /\ saw \in [Clients -> Nat] /\ asked \in [Clients -> Nat]

ChannelTypes ==
    /\ queue \in Seq(Nat \ {0}) /\ puts \in Nat /\ event \in BOOLEAN
    /\ sinkList \in Seq(Registration) /\ given \in Seq(Seq(Nat))

WriterTypes ==
    /\ wpc \in WriterPCs
    /\ locked \in BOOLEAN /\ (locked <=> wpc \in {"filter", "write", "unlock"})
    /\ rec \in Nat /\ (rec # 0 <=> locked \/ wpc = "lock")
    /\ using \in Registration \cup {None}
    /\ using # None <=> wpc \in {"filter", "write"}

LEMMA TypeParts == TypeOK <=> ClientTypes /\ ChannelTypes /\ WriterTypes
BY DEF TypeOK, ClientTypes, ChannelTypes, WriterTypes

LEMMA InitTypes == Init => TypeOK
<1>1. SUFFICES ASSUME Init PROVE ClientTypes /\ ChannelTypes /\ WriterTypes
  BY TypeParts
<1>2. ClientTypes
  <2>1. /\ refs = 0 /\ global = FALSE /\ stopFlag = FALSE /\ alert = FALSE
        /\ writerThread = "null" /\ holders = {}
        /\ pc = [t \in Clients |-> "idle"]
        /\ saw = [t \in Clients |-> 0] /\ asked = [t \in Clients |-> 0]
    BY <1>1 DEF Init
  <2>2. QED
    BY <2>1 DEF ClientTypes, PCs
<1>3. ChannelTypes
  <2>1. queue = <<>> /\ puts = 0 /\ event = FALSE /\ sinkList = <<>> /\ given = <<>>
    BY <1>1 DEF Init
  <2>2. QED
    BY <2>1, EmptySeq DEF ChannelTypes
<1>4. WriterTypes
  <2>1. wpc = "none" /\ rec = 0 /\ using = None /\ locked = FALSE
    BY <1>1 DEF Init
  <2>2. QED
    BY <2>1 DEF WriterTypes, WriterPCs
<1>5. QED
  BY <1>2, <1>3, <1>4

\* A step inside a call keeps the types.
LEMMA ClientStepTypes ==
    ASSUME TypeOK, CoreInv, NEW t \in Clients, ClientStep(t)
    PROVE  TypeOK'
<1>0. ClientTypes /\ ChannelTypes /\ WriterTypes
  BY TypeParts
<1>1. ClientTypes'
  <2>1. pc' \in [Clients -> PCs] /\ alert' \in BOOLEAN
    <3>1. PICK l \in PCs : Goto(t, l)
      BY DEF ClientStep, InitBuild, InitThread, InitFail, SpinRead, SpinTest,
         FinCount, FinStop, FinAlert, FinJoin, FinDrain, FinClear, FinNull,
         WriteList, WritePush, WriteSet, Flush, PCs, Building, TearingDown
    <3>2. pc' \in [Clients -> PCs]
      BY <1>0, <3>1 DEF Goto, ClientTypes
    <3>3. alert' \in BOOLEAN
      BY <1>0 DEF ClientStep, InitBuild, InitThread, InitFail, SpinRead, SpinTest,
         FinCount, FinStop, FinAlert, FinJoin, FinDrain, FinClear, FinNull,
         WriteList, WritePush, WriteSet, ClientTypes
    <3>4. QED
      BY <3>2, <3>3
  <2>2. refs' \in Nat
    <3>1. CASE FinCount(t)
      <4>1. refs # 0
        BY <3>1, CoreTypes DEF CoreInv, OwnersInv, FinCount, Owners, Counted
      <4>2. QED
        BY <1>0, <3>1, <4>1 DEF FinCount, ClientTypes
    <3>2. CASE ~FinCount(t)
      BY <1>0, <3>2 DEF ClientStep, InitBuild, InitThread, InitFail, SpinRead,
         SpinTest, FinStop, FinAlert, FinJoin, FinDrain, FinClear, FinNull,
         WriteList, WritePush, WriteSet, ClientTypes, core
    <3>3. QED
      BY <3>1, <3>2
  <2>3. /\ global' \in BOOLEAN /\ stopFlag' \in BOOLEAN
        /\ writerThread' \in {"null", "invalid", "valid"} /\ holders' \subseteq Clients
    BY <1>0 DEF ClientStep, InitBuild, InitThread, InitFail, SpinRead, SpinTest,
       FinCount, FinStop, FinAlert, FinJoin, FinDrain, FinClear, FinNull,
       WriteList, WritePush, WriteSet, ClientTypes, core
  <2>4. saw' \in [Clients -> Nat] /\ asked' \in [Clients -> Nat]
    <3>1. /\ saw' = saw \/ \E v \in {0, puts} : saw' = [saw EXCEPT ![t] = v]
          /\ asked' = asked \/ \E v \in {0, puts} : asked' = [asked EXCEPT ![t] = v]
      BY DEF ClientStep, InitBuild, InitThread, InitFail, SpinRead, SpinTest,
         FinCount, FinStop, FinAlert, FinJoin, FinDrain, FinClear, FinNull,
         WriteList, WritePush, WriteSet, Flush, local
    <3>2. puts \in Nat /\ saw \in [Clients -> Nat] /\ asked \in [Clients -> Nat]
      BY <1>0 DEF ClientTypes, ChannelTypes
    <3>3. QED
      BY <3>1, <3>2
  <2>5. QED
    BY <2>1, <2>2, <2>3, <2>4 DEF ClientTypes
<1>2. ChannelTypes'
  <2>1. CASE WritePush(t)
    <3>1. Append(queue, puts + 1) \in Seq(Nat \ {0})
      BY <1>0, AppendProperties DEF ChannelTypes
    <3>2. /\ queue' \in {queue, Append(queue, puts + 1)} /\ puts' \in {puts, puts + 1}
          /\ UNCHANGED <<event, sinkList, given>>
      BY <2>1 DEF WritePush, sinks
    <3>3. queue' \in Seq(Nat \ {0})
      BY <1>0, <3>1, <3>2 DEF ChannelTypes
    <3>4. puts' \in Nat
      BY <1>0, <3>2 DEF ChannelTypes
    <3>5. QED
      BY <1>0, <3>2, <3>3, <3>4 DEF ChannelTypes
  <2>2. CASE ~WritePush(t)
    <3>1. queue' \in {queue, <<>>} /\ sinkList' \in {sinkList, <<>>}
      BY <2>2 DEF ClientStep, InitBuild, InitThread, InitFail, SpinRead, SpinTest,
         FinCount, FinStop, FinAlert, FinJoin, FinDrain, FinClear, FinNull,
         WriteList, WriteSet, channel, sinks
    <3>2. UNCHANGED <<puts, given>> /\ event' \in {event, TRUE, FALSE}
      BY <2>2 DEF ClientStep, InitBuild, InitThread, InitFail, SpinRead, SpinTest,
         FinCount, FinStop, FinAlert, FinJoin, FinDrain, FinClear, FinNull,
         WriteList, WriteSet, channel, sinks
    <3>3. QED
      BY <1>0, <3>1, <3>2, EmptySeq DEF ChannelTypes
  <2>3. QED
    BY <2>1, <2>2
<1>3. WriterTypes'
  <2>1. CASE InitBuild(t)
    <3>1. wpc = "none"
      BY <2>1 DEF InitBuild, CoreInv, GlobalsInv, WriterInv
    <3>2. QED
      BY <1>0, <2>1, <3>1 DEF InitBuild, WriterTypes
  <2>2. CASE InitThread(t)
    <3>1. wpc = "none"
      BY <2>2 DEF InitThread, CoreInv, WriterInv
    <3>2. wpc' \in {"none", "start"} /\ UNCHANGED <<rec, using, locked>>
      BY <2>2, <3>1 DEF InitThread
    <3>3. QED
      BY <1>0, <3>1, <3>2 DEF WriterTypes, WriterPCs
  <2>3. CASE FinJoin(t)
    <3>1. wpc \in {"none", "done"}
      BY <2>3 DEF FinJoin, CoreInv, WriterInv
    <3>2. wpc' = "none" /\ UNCHANGED <<rec, using, locked>>
      BY <2>3 DEF FinJoin
    <3>3. QED
      BY <1>0, <3>1, <3>2 DEF WriterTypes, WriterPCs
  <2>4. CASE ~(InitBuild(t) \/ InitThread(t) \/ FinJoin(t))
    <3>1. UNCHANGED <<wpc, rec, using, locked>>
      BY <2>4 DEF ClientStep, InitFail, SpinRead, SpinTest, FinCount, FinStop,
         FinAlert, FinDrain, FinClear, FinNull, WriteList, WritePush, WriteSet, writer
    <3>2. QED
      BY <1>0, <3>1 DEF WriterTypes
  <2>5. QED
    BY <2>1, <2>2, <2>3, <2>4
<1>4. QED
  BY <1>1, <1>2, <1>3 DEF TypeOK, ClientTypes, ChannelTypes, WriterTypes

\* A call that begins, or that is one section under the mutex, keeps the types.
LEMMA ClientCallTypes ==
    ASSUME TypeOK, NEW t \in Clients, ClientCall(t)
    PROVE  TypeOK'
<1>0. ClientTypes /\ ChannelTypes /\ WriterTypes
  BY TypeParts
<1>1. CASE InitBegin(t) \/ FinBegin(t) \/ FlushBegin(t) \/ WriteBegin(t)
  <2>1. /\ pc' = pc \/ \E l \in PCs : pc' = [pc EXCEPT ![t] = l]
        /\ refs' \in {refs, refs + 1}
        /\ holders' \in {holders, holders \cup {t}, holders \ {t}}
        /\ asked' = asked \/ asked' = [asked EXCEPT ![t] = puts]
        /\ UNCHANGED <<global, stopFlag, writerThread, alert, saw>>
    BY <1>1 DEF InitBegin, FinBegin, FlushBegin, WriteBegin, Goto, Flush, core,
       local, PCs, Building, TearingDown
  <2>2. ClientTypes'
    <3>1. puts \in Nat /\ pc \in [Clients -> PCs] /\ asked \in [Clients -> Nat]
      BY <1>0 DEF ClientTypes, ChannelTypes
    <3>2. pc' \in [Clients -> PCs]
      BY <2>1, <3>1
    <3>3. asked' \in [Clients -> Nat]
      BY <2>1, <3>1
    <3>4. refs' \in Nat /\ holders' \subseteq Clients
      BY <1>0, <2>1 DEF ClientTypes
    <3>5. QED
      BY <1>0, <2>1, <3>2, <3>3, <3>4 DEF ClientTypes
  <2>3. UNCHANGED <<channel, sinks, writer>>
    BY <1>1 DEF InitBegin, FinBegin, FlushBegin, WriteBegin
  <2>4. ChannelTypes' /\ WriterTypes'
    BY <1>0, <2>3 DEF ChannelTypes, WriterTypes, channel, sinks, writer
  <2>5. QED
    BY <2>2, <2>4 DEF TypeOK, ClientTypes, ChannelTypes, WriterTypes
<1>2. ASSUME NEW n \in Names,
             \/ UnregisterSink(t, n)
             \/ \E f \in Formatters : RegisterSink(t, n, f) \/ SetFormatter(t, n, f)
             \/ \E b \in BOOLEAN : SetFilter(t, n, b)
      PROVE  TypeOK'
  <2>1. UNCHANGED <<core, channel, writer, alert, pc, local>>
    BY <1>2 DEF UnregisterSink, RegisterSink, SetFormatter, SetFilter
  <2>2. sinkList' \in Seq(Registration) /\ given' \in Seq(Seq(Nat))
    <3>0. /\ sinkList \in Seq(Registration) /\ given \in Seq(Seq(Nat)) /\ puts \in Nat
          /\ Len(given) \in Nat /\ DOMAIN sinkList = 1 .. Len(sinkList)
          /\ \A i \in DOMAIN sinkList : sinkList[i] \in Registration
      BY <1>0, Sequences DEF ChannelTypes
    <3>1. CASE UnregisterSink(t, n)
      BY <3>0, <3>1, WithoutType DEF UnregisterSink
    <3>2. ASSUME NEW f \in Formatters, RegisterSink(t, n, f)
          PROVE  sinkList' \in Seq(Registration) /\ given' \in Seq(Seq(Nat))
      <4> DEFINE r == [id |-> Len(given) + 1, name |-> n, passes |-> TRUE,
                       formatter |-> f, since |-> puts, steady |-> TRUE]
      <4>1. r \in Registration
        BY <3>0 DEF Registration
      <4>2. sinkList' = Append(sinkList, r) /\ given' = Append(given, <<>>)
        BY <3>2 DEF RegisterSink
      <4> HIDE DEF r
      <4>3. sinkList' \in Seq(Registration)
        BY <3>0, <4>1, <4>2, AppendProperties
      <4>4. given' \in Seq(Seq(Nat))
        BY <3>0, <4>2, AppendProperties, EmptySeq
      <4>5. QED
        BY <4>3, <4>4
    <3>3. ASSUME NEW f \in Formatters, SetFormatter(t, n, f)
          PROVE  sinkList' \in Seq(Registration) /\ given' \in Seq(Seq(Nat))
      <4>1. PICK i \in DOMAIN sinkList : sinkList' = [sinkList EXCEPT ![i].formatter = f]
        BY <3>3 DEF SetFormatter
      <4>2. [sinkList[i] EXCEPT !.formatter = f] \in Registration
        BY <3>0, <4>1 DEF Registration
      <4>3. sinkList' \in Seq(Registration)
        BY <3>0, <4>1, <4>2, ExceptSeq
      <4>4. QED
        BY <3>0, <3>3, <4>3 DEF SetFormatter
    <3>4. ASSUME NEW b \in BOOLEAN, SetFilter(t, n, b)
          PROVE  sinkList' \in Seq(Registration) /\ given' \in Seq(Seq(Nat))
      <4>1. PICK i \in DOMAIN sinkList :
               sinkList' = [sinkList EXCEPT ![i] = [@ EXCEPT !.passes = b, !.steady = FALSE]]
        BY <3>4 DEF SetFilter
      <4>2. [sinkList[i] EXCEPT !.passes = b, !.steady = FALSE] \in Registration
        BY <3>0, <4>1 DEF Registration
      <4>3. sinkList' \in Seq(Registration)
        BY <3>0, <4>1, <4>2, ExceptSeq
      <4>4. QED
        BY <3>0, <3>4, <4>3 DEF SetFilter
    <3>5. QED
      BY <1>2, <3>1, <3>2, <3>3, <3>4
  <2>3. QED
    BY <1>0, <2>1, <2>2 DEF TypeOK, ClientTypes, ChannelTypes, WriterTypes, core,
       channel, writer, local
<1>3. QED
  BY <1>1, <1>2 DEF ClientCall

\* A step of the writer, or of a sink's I/O, keeps the types.
LEMMA WriterStepTypes ==
    ASSUME TypeOK, WriterStep \/ IoCompletes
    PROVE  TypeOK'
<1>0. ClientTypes /\ ChannelTypes /\ WriterTypes
  BY TypeParts
<1>1. ClientTypes'
  <2>1. UNCHANGED <<core, pc, local>> /\ alert' \in {alert, FALSE}
    BY DEF WriterStep, IoCompletes, WriterStart, WriterTest, WriterLook, WriterWake,
       WriterAlerted, WriterDrain, WriterPop, WriterLock, WriterFilter, WriterWrite,
       WriterUnlock, others
  <2>2. QED
    BY <1>0, <2>1 DEF ClientTypes, core, local
<1>2. ChannelTypes'
  <2>1. UNCHANGED <<sinkList, puts>> /\ event' \in {event, FALSE}
    BY DEF WriterStep, IoCompletes, WriterStart, WriterTest, WriterLook, WriterWake,
       WriterAlerted, WriterDrain, WriterPop, WriterLock, WriterFilter, WriterWrite,
       WriterUnlock, others
  <2>2. queue' \in Seq(Nat \ {0})
    <3>1. queue' = queue \/ (queue # <<>> /\ queue' = Tail(queue))
      BY DEF WriterStep, IoCompletes, WriterStart, WriterTest, WriterLook, WriterWake,
         WriterAlerted, WriterDrain, WriterPop, WriterLock, WriterFilter, WriterWrite,
         WriterUnlock
    <3>2. queue \in Seq(Nat \ {0})
      BY <1>0 DEF ChannelTypes
    <3>3. queue # <<>> => Tail(queue) \in Seq(Nat \ {0})
      BY <3>2, HeadTailProperties
    <3>4. QED
      BY <3>1, <3>2, <3>3
  <2>3. given' \in Seq(Seq(Nat))
    <3>1. CASE WriterWrite
      <4>1. given' = [given EXCEPT ![using.id] = Append(given[using.id], rec)]
        BY <3>1 DEF WriterWrite
      <4>2. given \in Seq(Seq(Nat)) /\ DOMAIN given = 1 .. Len(given) /\ rec \in Nat
        BY <1>0, LenProperties DEF ChannelTypes, WriterTypes
      <4>3. CASE using.id \in DOMAIN given
        <5>1. given[using.id] \in Seq(Nat)
          BY <4>2, <4>3, ElementOfSeq
        <5>2. Append(given[using.id], rec) \in Seq(Nat)
          BY <4>2, <5>1, AppendProperties
        <5>3. QED
          BY <4>1, <4>2, <4>3, <5>2, ExceptSeq
      <4>4. CASE using.id \notin DOMAIN given
        <5>1. given' = given
          BY <4>1, <4>2, <4>4, LenProperties
        <5>2. QED
          BY <4>2, <5>1
      <4>5. QED
        BY <4>3, <4>4
    <3>2. CASE ~WriterWrite
      <4>1. given' = given
        BY <3>2 DEF WriterStep, IoCompletes, WriterStart, WriterTest, WriterLook,
           WriterWake, WriterAlerted, WriterDrain, WriterPop, WriterLock,
           WriterFilter, WriterUnlock
      <4>2. QED
        BY <1>0, <4>1 DEF ChannelTypes
    <3>3. QED
      BY <3>1, <3>2
  <2>4. QED
    BY <1>0, <2>1, <2>2, <2>3 DEF ChannelTypes
<1>3. WriterTypes'
  <2>0. \A i : Visit(i) => /\ using' \in Registration \cup {None}
                           /\ using' # None <=> wpc' = "filter"
                           /\ wpc' \in {"filter", "unlock"}
    BY Sequences, NoneIsNoRegistration DEF Visit
  <2>1. CASE WriterStart \/ WriterTest \/ WriterLook \/ WriterWake \/ WriterAlerted
               \/ WriterDrain \/ IoCompletes
    <3>1. /\ UNCHANGED <<rec, using, locked>>
          /\ wpc \in {"start", "test", "look", "wait", "drain"}
          /\ wpc' \in {"test", "done", "look", "wait", "drain", "pop"}
      BY <2>1 DEF WriterStart, WriterTest, WriterLook, WriterWake, WriterAlerted,
         WriterDrain, IoCompletes
    <3>2. QED
      BY <1>0, <3>1 DEF WriterTypes, WriterPCs
  <2>2. CASE WriterPop
    <3>1. CASE queue = <<>>
      BY <1>0, <2>2, <3>1 DEF WriterPop, WriterTypes, WriterPCs
    <3>2. CASE queue # <<>>
      <4>1. Head(queue) \in Nat \ {0}
        BY <3>2, Sequences, HeadTailProperties
      <4>2. wpc' = "lock" /\ rec' = Head(queue) /\ UNCHANGED <<using, locked>> /\ wpc = "pop"
        BY <2>2, <3>2 DEF WriterPop
      <4>3. QED
        BY <1>0, <4>1, <4>2 DEF WriterTypes, WriterPCs
    <3>3. QED
      BY <3>1, <3>2
  <2>3. CASE WriterLock
    BY <1>0, <2>0, <2>3 DEF WriterLock, WriterTypes, WriterPCs
  <2>4. CASE WriterFilter
    BY <1>0, <2>0, <2>4 DEF WriterFilter, WriterTypes, WriterPCs
  <2>5. CASE WriterWrite
    BY <1>0, <2>0, <2>5 DEF WriterWrite, WriterTypes, WriterPCs
  <2>6. CASE WriterUnlock
    BY <1>0, <2>6 DEF WriterUnlock, WriterTypes, WriterPCs
  <2>7. QED
    BY <2>1, <2>2, <2>3, <2>4, <2>5, <2>6 DEF WriterStep
<1>4. QED
  BY <1>1, <1>2, <1>3 DEF TypeOK, ClientTypes, ChannelTypes, WriterTypes

----------------------------------------------------------------------------
(* The sinks *)

\* Every step keeps the registration the writer is at in the list.
LEMMA SinkStep ==
    ASSUME TypeOK, CoreInv, SinkInUseIsRegistered, [Next]_vars
    PROVE  SinkInUseIsRegistered'
<1>0. wpc \in {"filter", "write"} => locked
  BY DEF TypeOK
<1>1. ASSUME NEW t \in Clients, ClientStep(t)
      PROVE  SinkInUseIsRegistered'
  <2>1. CASE InitBuild(t)
    BY <2>1 DEF InitBuild, CoreInv, GlobalsInv, WriterInv, SinkInUseIsRegistered
  <2>2. CASE InitThread(t)
    BY <2>2 DEF InitThread, CoreInv, WriterInv, SinkInUseIsRegistered
  <2>3. CASE FinJoin(t)
    BY <2>3 DEF FinJoin, SinkInUseIsRegistered
  <2>4. CASE FinClear(t)
    BY <1>0, <2>4 DEF FinClear, writer, SinkInUseIsRegistered
  <2>5. CASE ~(InitBuild(t) \/ InitThread(t) \/ FinJoin(t) \/ FinClear(t))
    <3>1. UNCHANGED <<wpc, using, sinkList>>
      BY <1>1, <2>5 DEF ClientStep, InitFail, SpinRead, SpinTest, FinCount, FinStop,
         FinAlert, FinDrain, FinNull, WriteList, WritePush, WriteSet, writer, sinks
    <3>2. QED
      BY <3>1 DEF SinkInUseIsRegistered
  <2>6. QED
    BY <2>1, <2>2, <2>3, <2>4, <2>5
<1>2. ASSUME NEW t \in Clients, ClientCall(t)
      PROVE  SinkInUseIsRegistered'
  <2>1. UNCHANGED <<wpc, using>> /\ (locked => sinkList' = sinkList)
    BY <1>2 DEF ClientCall, InitBegin, FinBegin, FlushBegin, WriteBegin, RegisterSink,
       UnregisterSink, SetFormatter, SetFilter, InMutex, writer, sinks
  <2>2. QED
    BY <1>0, <2>1 DEF SinkInUseIsRegistered
<1>3. CASE WriterStep \/ IoCompletes
  <2>1. sinkList' = sinkList
    BY <1>3 DEF WriterStep, IoCompletes, WriterStart, WriterTest, WriterLook, WriterWake,
       WriterAlerted, WriterDrain, WriterPop, WriterLock, WriterFilter, WriterWrite,
       WriterUnlock, others
  <2>2. CASE wpc' \in {"filter", "write"}
    <3>1. \/ wpc \in {"filter", "write"} /\ using' = using
          \/ \E i \in DOMAIN sinkList : using' = sinkList[i]
      BY <1>3, <2>2 DEF WriterStep, IoCompletes, WriterStart, WriterTest, WriterLook,
         WriterWake, WriterAlerted, WriterDrain, WriterPop, WriterLock, WriterFilter,
         WriterWrite, WriterUnlock, Visit
    <3>2. QED
      BY <2>1, <3>1 DEF SinkInUseIsRegistered
  <2>3. QED
    BY <2>2 DEF SinkInUseIsRegistered
<1>4. CASE UNCHANGED vars
  BY <1>4 DEF vars, writer, sinks, SinkInUseIsRegistered
<1>5. QED
  BY <1>1, <1>2, <1>3, <1>4 DEF Next

----------------------------------------------------------------------------
(* Theorems about the lifecycle *)

\* The types, the references, the lone builder, the globals, the writer and
\* the registration in use together are inductive: initialize(), finalize()
\* and the writer of Trace.cxx never leave them.
THEOREM InductiveInvariant == ASSUME ~Overlap PROVE Spec => []IndInv
<1>1. Init => IndInv
  <2>1. SUFFICES ASSUME Init PROVE IndInv
    OBVIOUS
  <2>2. TypeOK
    BY <2>1, InitTypes
  <2>3. /\ refs = 0 /\ global = FALSE /\ holders = {} /\ wpc = "none"
        /\ writerThread = "null" /\ \A t \in Clients : pc[t] = "idle"
    BY <2>1 DEF Init
  <2>4. Owners = {}
    BY <2>3 DEF Owners, Counted, Building
  <2>5. OwnersInv
    BY <2>3, <2>4, FS_EmptySet DEF OwnersInv
  <2>6. AloneInv /\ GlobalsInv /\ WriterInv
    BY <2>3, <2>4 DEF AloneInv, Alone, Building, TearingDown, GlobalsInv, WriterInv
  <2>7. SinkInUseIsRegistered
    BY <2>3 DEF SinkInUseIsRegistered
  <2>8. QED
    BY <2>2, <2>5, <2>6, <2>7 DEF IndInv
<1>2. IndInv /\ [Next]_vars => IndInv'
  <2>1. SUFFICES ASSUME IndInv, [Next]_vars PROVE IndInv'
    OBVIOUS
  <2>2. TypeOK /\ CoreInv /\ SinkInUseIsRegistered
    BY <2>1 DEF IndInv, CoreInv
  <2>3. CoreInv'
    BY <2>1, <2>2, CoreStep
  <2>4. SinkInUseIsRegistered'
    BY <2>1, <2>2, SinkStep
  <2>5. TypeOK'
    <3>1. CASE UNCHANGED vars
      BY <2>2, <3>1 DEF TypeOK, vars, core, channel, sinks, writer, local
    <3>2. QED
      BY <2>1, <2>2, <3>1, ClientStepTypes, ClientCallTypes, WriterStepTypes DEF Next
  <2>6. QED
    BY <2>3, <2>4, <2>5 DEF IndInv, CoreInv
<1>3. QED
  BY <1>1, <1>2, PTL DEF Spec

\* Every variable of the dispatcher keeps its type, and the writer has the
\* mutex, a record and a registration exactly where pumpEvents() has them.
THEOREM TypeCorrect == ASSUME ~Overlap PROVE Spec => []TypeOK
<1>1. IndInv => TypeOK
  BY DEF IndInv
<1>2. QED
  BY <1>1, InductiveInvariant, PTL

\* With any number of threads, as long as initialize() does not overlap
\* another initialize() or finalize(), the globals of Trace.cxx exist for every
\* holder of a reference, every call past its null check, and the writer.
THEOREM GlobalsLive == ASSUME ~Overlap PROVE Spec => []GlobalsOutliveCalls
<1>1. IndInv => GlobalsOutliveCalls
  <2>1. SUFFICES ASSUME IndInv PROVE GlobalsOutliveCalls
    OBVIOUS
  <2>2. OwnersInv /\ GlobalsInv /\ WriterInv /\ holders \subseteq Clients
    BY <2>1 DEF IndInv, TypeOK
  <2>3. holders \subseteq Owners /\ \A t \in holders : pc[t] # "init_build"
    BY <2>2 DEF Owners, OwnersInv, Building
  <2>4. holders # {} => global /\ ~stopFlag
    BY <2>2, <2>3 DEF GlobalsInv
  <2>5. ASSUME NEW t \in Clients, pc[t] \notin {"idle", "init_build", "fin_count"}
        PROVE  global
    <3>1. CASE pc[t] \in TearingDown
      BY <2>2, <3>1 DEF GlobalsInv
    <3>2. CASE pc[t] \notin TearingDown
      <4>1. t \in Owners
        BY <2>2, <2>3, <2>5, <3>2 DEF OwnersInv, Owners, Counted, Building
      <4>2. QED
        BY <2>2, <2>5, <4>1 DEF GlobalsInv
    <3>3. QED
      BY <3>1, <3>2
  <2>6. QED
    BY <2>2, <2>4, <2>5 DEF GlobalsOutliveCalls, WriterInv
<1>2. QED
  BY <1>1, InductiveInvariant, PTL

\* Under the same assumption, whatever unregisterSink(), setFilter() or
\* setFormatter() of any thread does meanwhile, the registration whose filter,
\* formatter or sink the writer is calling is still in the list, unchanged.
THEOREM NoUseAfterUnregister == ASSUME ~Overlap PROVE Spec => []SinkInUseIsRegistered
<1>1. IndInv => SinkInUseIsRegistered
  BY DEF IndInv
<1>2. QED
  BY <1>1, InductiveInvariant, PTL

----------------------------------------------------------------------------
(* The queue is never thrown away *)

\* The steps that change the queue, the count of puts, the references or the
\* state of a flush() each keep somebody who is going to flush.
LEMMA DrainStep ==
    ASSUME IndInv, DrainInv, TakenInv, [Next]_vars
    PROVE  DrainInv'
<1>0. /\ TypeOK /\ CoreInv /\ pc \in [Clients -> PCs] /\ holders \subseteq Clients
      /\ saw \in [Clients -> Nat] /\ puts \in Nat /\ queue \in Seq(Nat \ {0})
      /\ Len(queue) \in Nat
  BY DEF IndInv, CoreInv, TypeOK
<1>1. ASSUME NEW t \in Clients, t \in holders', holders' \subseteq Clients
      PROVE  DrainInv'
  BY <1>1 DEF DrainInv
<1>2. ASSUME NEW t \in Clients, queue' = queue, puts' = puts,
             holders' = holders, \A u \in Clients \ {t} : pc'[u] = pc[u] /\ saw'[u] = saw[u],
             pc[t] \notin {"fin_spin", "fin_test"}
      PROVE  DrainInv'
  BY <1>2 DEF DrainInv
<1>3. ASSUME NEW t \in Clients, ClientStep(t)
      PROVE  DrainInv'
  <2>1. CASE InitBuild(t) \/ FinDrain(t)
    BY <2>1 DEF InitBuild, FinDrain, DrainInv
  <2>2. CASE InitThread(t)
    BY <1>0, <1>1, <2>2 DEF InitThread
  <2>3. CASE WritePush(t) \/ WriteList(t) \/ WriteSet(t)
    <3>1. t \in holders /\ holders' = holders
      BY <1>0, <2>3, InACall DEF WritePush, WriteList, WriteSet, core
    <3>2. QED
      BY <1>0, <1>1, <3>1
  <2>4. CASE \/ InitFail(t) \/ FinCount(t) \/ FinStop(t) \/ FinAlert(t) \/ FinJoin(t)
             \/ FinClear(t) \/ FinNull(t)
    <3>1. /\ pc[t] \notin {"fin_spin", "fin_test"}
          /\ UNCHANGED <<queue, puts, holders, saw>>
          /\ \E l : pc' = [pc EXCEPT ![t] = l]
      BY <2>4 DEF InitFail, FinCount, FinStop, FinAlert, FinJoin, FinClear, FinNull,
         Flush, Goto, core, channel, local
    <3>2. QED
      BY <1>0, <1>2, <3>1
  <2>5. CASE SpinRead(t)
    <3>1. /\ UNCHANGED <<queue, puts, holders>> /\ saw' = [saw EXCEPT ![t] = puts]
          /\ \/ pc[t] = "spin"
             \/ pc[t] = "fin_spin" /\ pc' = [pc EXCEPT ![t] = "fin_test"]
      BY <2>5 DEF SpinRead, Goto, core, channel
    <3>2. CASE pc[t] = "spin"
      BY <1>0, <1>1, <3>1, <3>2, InACall
    <3>3. CASE pc[t] = "fin_spin"
      BY <1>0, <3>1, <3>3 DEF DrainInv
    <3>4. QED
      BY <3>1, <3>2, <3>3
  <2>6. CASE SpinTest(t)
    <3>1. /\ UNCHANGED <<queue, puts, holders>> /\ saw' = [saw EXCEPT ![t] = 0]
          /\ \/ pc[t] = "spin_test"
             \/ /\ pc[t] = "fin_test"
                /\ pc' = [pc EXCEPT ![t] = IF IsDrained(t) THEN "fin_count" ELSE "fin_spin"]
      BY <2>6 DEF SpinTest, Goto, core, channel
    <3>2. CASE pc[t] = "spin_test"
      BY <1>0, <1>1, <3>1, <3>2, InACall
    <3>3. CASE pc[t] = "fin_test" /\ ~IsDrained(t)
      BY <1>0, <3>1, <3>3 DEF DrainInv
    <3>4. CASE pc[t] = "fin_test" /\ IsDrained(t)
      <4>1. saw[t] = puts => queue = <<>>
        BY <1>0, <3>4 DEF IsDrained, Taken
      <4>2. QED
        BY <1>0, <3>1, <3>4, <4>1 DEF DrainInv
    <3>5. QED
      BY <3>1, <3>2, <3>3, <3>4
  <2>7. QED
    BY <1>3, <2>1, <2>2, <2>3, <2>4, <2>5, <2>6 DEF ClientStep
<1>4. ASSUME NEW t \in Clients, ClientCall(t)
      PROVE  DrainInv'
  <2>1. CASE InitBegin(t)
    <3>1. CASE holders' = holders
      BY <1>0, <1>2, <2>1, <3>1 DEF InitBegin, Goto, channel, local
    <3>2. CASE holders' = holders \cup {t}
      BY <1>0, <1>1, <3>2
    <3>3. QED
      BY <2>1, <3>1, <3>2 DEF InitBegin
  <2>2. CASE FinBegin(t)
    <3>1. t \in holders /\ t \in Owners /\ pc[t] = "idle"
      BY <1>0, <2>2 DEF FinBegin, Owners
    <3>2. global /\ ~stopFlag
      BY <1>0, <3>1 DEF CoreInv, GlobalsInv
    <3>3. pc' = [pc EXCEPT ![t] = "fin_spin"]
      BY <2>2, <3>2 DEF FinBegin, Flush, Goto
    <3>4. QED
      BY <1>0, <3>3 DEF DrainInv
  <2>3. CASE ~InitBegin(t) /\ ~FinBegin(t)
    <3>1. t \in holders /\ holders' = holders
      BY <1>4, <2>3 DEF ClientCall, FlushBegin, WriteBegin, UnregisterSink,
         RegisterSink, SetFormatter, SetFilter, InMutex, core
    <3>2. QED
      BY <1>0, <1>1, <3>1
  <2>4. QED
    BY <2>1, <2>2, <2>3
<1>5. CASE WriterStep \/ IoCompletes \/ UNCHANGED vars
  <2>1. /\ UNCHANGED <<puts, holders, pc, saw>>
        /\ queue' = queue \/ (queue # <<>> /\ queue' = Tail(queue))
    BY <1>5 DEF WriterStep, IoCompletes, WriterStart, WriterTest, WriterLook, WriterWake,
       WriterAlerted, WriterDrain, WriterPop, WriterLock, WriterFilter, WriterWrite,
       WriterUnlock, others, core, local, vars, channel
  <2>2. QED
    BY <2>1 DEF DrainInv
<1>6. QED
  BY <1>3, <1>4, <1>5 DEF Next

\* finalize() finds the queue empty when it comes to drain it, and
\* initialize() when it builds a new one.
LEMMA DrainedAlone ==
    ASSUME IndInv, DrainInv, NEW t \in Clients,
           pc[t] \in {"init_build", "fin_drain", "fin_clear", "fin_null"}
    PROVE  queue = <<>>
<1>1. TypeOK /\ CoreInv /\ pc[t] \in Alone
  BY DEF IndInv, CoreInv, Alone, Building, TearingDown, Counted
<1>2. holders = {} /\ \A u \in Clients : u # t => pc[u] = "idle"
  BY <1>1, AloneFacts
<1>3. QED
  BY <1>2 DEF DrainInv

----------------------------------------------------------------------------
(* What the sinks are given *)

Rest == TakenInv /\ ListInv /\ GivenInv /\ RoundInv /\ NoneSkipped

\* The types the steps below need.
QueueTypes == /\ queue \in Seq(Nat \ {0}) /\ Len(queue) \in Nat /\ puts \in Nat
              /\ DOMAIN queue = 1 .. Len(queue) /\ rec \in Nat
              /\ Taken \in Nat /\ Taken = puts - Len(queue)
GivenTypes == /\ given \in Seq(Seq(Nat)) /\ Len(given) \in Nat
              /\ DOMAIN given = 1 .. Len(given)
              /\ \A i \in DOMAIN given :
                    /\ given[i] \in Seq(Nat) /\ Len(given[i]) \in Nat
                    /\ DOMAIN given[i] = 1 .. Len(given[i])
                    /\ \A j \in DOMAIN given[i] : given[i][j] \in Nat
ListTypes == /\ sinkList \in Seq(Registration) /\ Len(sinkList) \in Nat
             /\ DOMAIN sinkList = 1 .. Len(sinkList)
             /\ \A i \in DOMAIN sinkList :
                   /\ sinkList[i] \in Registration /\ sinkList[i].id \in DOMAIN given
                   /\ sinkList[i].id \in Nat /\ sinkList[i].since \in Nat

LEMMA RecordTypes ==
    ASSUME IndInv, Rest
    PROVE  QueueTypes /\ GivenTypes /\ ListTypes
<1>1. TypeOK /\ TakenInv /\ ListInv
  BY DEF IndInv, Rest
<1>2. /\ queue \in Seq(Nat \ {0}) /\ puts \in Nat /\ Taken \in Nat /\ rec \in Nat
      /\ given \in Seq(Seq(Nat)) /\ sinkList \in Seq(Registration)
  BY <1>1 DEF TypeOK, TakenInv
<1>3. DOMAIN given = 1 .. Len(given) /\ \A i \in DOMAIN given : given[i] \in Seq(Nat)
  BY <1>2
<1>4. \A s \in Seq(Nat) : /\ Len(s) \in Nat /\ DOMAIN s = 1 .. Len(s)
                          /\ \A j \in DOMAIN s : s[j] \in Nat
  OBVIOUS
<1>5. \A i \in DOMAIN sinkList : sinkList[i] \in Registration /\ sinkList[i].id \in DOMAIN given
  BY <1>1, <1>2 DEF ListInv
<1>6. \A r \in Registration : r.id \in Nat /\ r.since \in Nat
  BY DEF Registration
<1>7. QED
  BY <1>2, <1>3, <1>4, <1>5, <1>6 DEF Taken, QueueTypes, GivenTypes, ListTypes

\* The registration in use is at its place in the list.
LEMMA PlaceInList ==
    ASSUME IndInv, Rest, wpc \in {"filter", "write"}
    PROVE  /\ Place(using) \in DOMAIN sinkList /\ sinkList[Place(using)] = using
           /\ locked /\ rec = Taken /\ rec # 0
<1>1. PICK i \in DOMAIN sinkList : sinkList[i] = using
  BY DEF IndInv, SinkInUseIsRegistered
<1>2. \A j \in DOMAIN sinkList : sinkList[j].id = using.id => j = i
  <2>1. ListTypes /\ ListInv
    BY RecordTypes DEF Rest
  <2>2. QED
    BY <1>1, <2>1 DEF ListTypes, ListInv
<1>3. Place(using) \in DOMAIN sinkList /\ sinkList[Place(using)].id = using.id
  BY <1>1 DEF Place
<1>4. locked /\ rec # 0
  BY DEF IndInv, TypeOK
<1>5. QED
  BY <1>1, <1>2, <1>3, <1>4 DEF Rest, TakenInv

\* A step that touches neither records nor registrations.
LEMMA QuietStep ==
    ASSUME IndInv, Rest, UNCHANGED <<queue, puts, sinkList, given, rec, using>>,
           \/ wpc' = wpc
           \/ /\ wpc \notin {"lock", "filter", "write", "unlock"}
              /\ wpc' \notin {"lock", "filter", "write", "unlock"}
    PROVE  Rest'
<1>1. Taken' = Taken
  BY DEF Taken
<1>2. \A r : (Ahead(r)' => Ahead(r)) /\ (Passed(r)' => Passed(r))
  BY DEF Ahead, Passed
<1>3. TakenInv' /\ ListInv' /\ GivenInv' /\ NoneSkipped'
  BY <1>1 DEF Rest, TakenInv, ListInv, GivenInv, GivenInOrder, NoneSkipped
<1>4. RoundInv'
  BY <1>2 DEF Rest, RoundInv
<1>5. QED
  BY <1>3, <1>4 DEF Rest

\* A put has the number after the last one's.
LEMMA PutStep ==
    ASSUME IndInv, Rest, UNCHANGED <<sinkList, given, rec, using, wpc>>,
           queue' = Append(queue, puts + 1), puts' = puts + 1
    PROVE  Rest'
<1>0. /\ queue \in Seq(Nat \ {0}) /\ Len(queue) \in Nat /\ puts \in Nat /\ Taken \in Nat
      /\ DOMAIN queue = 1 .. Len(queue)
  BY RecordTypes DEF QueueTypes
<1>1. /\ Len(queue') = Len(queue) + 1 /\ DOMAIN queue' = 1 .. Len(queue) + 1
      /\ \A i \in 1 .. Len(queue) : queue'[i] = queue[i]
      /\ queue'[Len(queue) + 1] = puts + 1
  BY <1>0, AppendProperties, LenProperties
<1>2. Taken' = Taken /\ puts + 1 = Taken + (Len(queue) + 1)
  BY <1>0, <1>1 DEF Taken
<1>3. TakenInv'
  BY <1>0, <1>1, <1>2 DEF Rest, TakenInv
<1>4. ListInv' /\ GivenInv' /\ NoneSkipped'
  BY <1>2 DEF Rest, ListInv, GivenInv, GivenInOrder, NoneSkipped
<1>5. RoundInv'
  BY DEF Rest, RoundInv, Ahead, Passed
<1>6. QED
  BY <1>3, <1>4, <1>5 DEF Rest

\* The list is emptied, with the queue empty and no record in hand.
LEMMA EmptyListStep ==
    ASSUME IndInv, Rest, UNCHANGED <<queue, puts, given, rec>>, sinkList' = <<>>
    PROVE  Rest'
<1>1. Taken' = Taken
  BY DEF Taken
<1>2. QED
  BY <1>1 DEF Rest, TakenInv, ListInv, GivenInv, GivenInOrder, NoneSkipped, RoundInv

\* A new registration comes last, knows how many records were put before it,
\* and has none.
LEMMA RegisterStep ==
    ASSUME IndInv, Rest, NEW t \in Clients, NEW n \in Names, NEW f \in Formatters,
           RegisterSink(t, n, f)
    PROVE  Rest'
<1> DEFINE r == [id |-> Len(given) + 1, name |-> n, passes |-> TRUE,
                 formatter |-> f, since |-> puts, steady |-> TRUE]
           m == Len(sinkList) + 1
<1>0. QueueTypes /\ GivenTypes /\ ListTypes
  BY RecordTypes
<1>1. /\ sinkList' = Append(sinkList, r) /\ given' = Append(given, <<>>)
      /\ UNCHANGED <<queue, puts, rec, wpc, using>> /\ ~locked
  BY DEF RegisterSink, InMutex, channel, writer
<1>2. wpc \notin {"filter", "write", "unlock"}
  BY <1>1 DEF IndInv, TypeOK
<1>3. r \in Registration /\ r.id = Len(given) + 1 /\ r.since = puts /\ r.passes
  BY <1>0 DEF Registration, QueueTypes, GivenTypes
<1> HIDE DEF r
<1>4. /\ DOMAIN sinkList' = 1 .. m /\ sinkList'[m] = r
      /\ \A i \in 1 .. Len(sinkList) : sinkList'[i] = sinkList[i]
  BY <1>0, <1>1, <1>3, AppendProperties, LenProperties DEF ListTypes
<1>5. /\ DOMAIN given' = 1 .. Len(given) + 1 /\ given'[r.id] = <<>>
      /\ \A i \in DOMAIN given : given'[i] = given[i]
  BY <1>0, <1>1, <1>3, AppendProperties, LenProperties, EmptySeq DEF GivenTypes
<1>6. Taken' = Taken /\ Taken <= puts
  BY <1>0, <1>1 DEF Taken, QueueTypes
<1>7. TakenInv'
  BY <1>1, <1>6 DEF Rest, TakenInv
<1>8. \A i \in DOMAIN given' : \/ i \in DOMAIN given /\ given'[i] = given[i]
                               \/ i = r.id /\ DOMAIN given'[i] = {}
  <2>1. DOMAIN given = 1 .. Len(given) /\ Len(given) \in Nat
    BY <1>0 DEF GivenTypes
  <2>2. \A i \in 1 .. Len(given) + 1 : i = Len(given) + 1 \/ i \in 1 .. Len(given)
    BY <2>1
  <2>3. DOMAIN given'[r.id] = {}
    BY <1>5
  <2>4. QED
    BY <1>3, <1>5, <2>1, <2>2, <2>3
<1>9. \A i \in DOMAIN sinkList' :
         \/ i = m /\ sinkList'[i] = r
         \/ /\ i \in DOMAIN sinkList /\ i < m /\ sinkList'[i] = sinkList[i]
            /\ sinkList[i].id \in DOMAIN given /\ sinkList[i].id < r.id
            /\ given'[sinkList[i].id] = given[sinkList[i].id]
  <2>1. /\ DOMAIN sinkList = 1 .. Len(sinkList) /\ Len(sinkList) \in Nat
        /\ DOMAIN given = 1 .. Len(given) /\ Len(given) \in Nat
        /\ \A i \in DOMAIN sinkList : sinkList[i].id \in DOMAIN given
    BY <1>0 DEF ListTypes, GivenTypes
  <2>2. \A i \in 1 .. m : i = m \/ (i \in 1 .. Len(sinkList) /\ i < m)
    BY <2>1
  <2>3. \A i \in DOMAIN sinkList : sinkList[i].id < r.id
    BY <1>3, <2>1
  <2>4. QED
    BY <1>4, <1>5, <2>1, <2>2, <2>3
<1>10. GivenInv'
  BY <1>6, <1>8 DEF Rest, GivenInv, GivenInOrder
<1>11. ListInv'
  <2>1. m \in DOMAIN sinkList' /\ r.id \in DOMAIN given' /\ DOMAIN given \subseteq DOMAIN given'
    BY <1>0, <1>3, <1>4, <1>5 DEF ListTypes, GivenTypes
  <2>2. \A i, j \in DOMAIN sinkList' : j < i => sinkList'[j] = sinkList[j] /\ j \in DOMAIN sinkList
    BY <1>0, <1>4, <1>9 DEF ListTypes
  <2>3. QED
    BY <1>3, <1>9, <2>1, <2>2 DEF Rest, ListInv
<1>12. RoundInv'
  <2>1. \A x \in Registration : (Ahead(x)' => Ahead(x)) /\ ~Passed(x)'
    BY <1>1, <1>2 DEF Ahead, Passed
  <2>2. DOMAIN given'[r.id] = {} /\ \A i \in DOMAIN sinkList : sinkList[i] \in Registration
    BY <1>0, <1>5 DEF ListTypes
  <2>3. QED
    BY <1>1, <1>3, <1>9, <2>1, <2>2 DEF Rest, RoundInv
<1>13. NoneSkipped'
  <2>1. r.since + 1 .. Taken = {}
    BY <1>0, <1>3, <1>6 DEF QueueTypes
  <2>2. QED
    BY <1>1, <1>3, <1>6, <1>9, <2>1 DEF Rest, NoneSkipped
<1>14. QED
  BY <1>7, <1>10, <1>11, <1>12, <1>13 DEF Rest

\* A change of the list between two records: registrations are taken out or
\* replaced in place, the rest keep their order.
LEMMA ListStep ==
    ASSUME IndInv, Rest, ~locked, UNCHANGED <<queue, puts, given, rec, wpc, using>>,
           NEW h \in [DOMAIN sinkList' -> DOMAIN sinkList],
           \A j, k \in DOMAIN sinkList' : j < k => h[j] < h[k],
           \A j \in DOMAIN sinkList' :
              /\ sinkList'[j].id = sinkList[h[j]].id
              /\ sinkList'[j].since = sinkList[h[j]].since
              /\ sinkList'[j].steady => sinkList[h[j]].steady /\ sinkList'[j].passes
    PROVE  Rest'
<1>1. Taken' = Taken /\ wpc \notin {"filter", "write", "unlock"}
  BY DEF Taken, IndInv, TypeOK
<1>2. TakenInv' /\ GivenInv'
  BY <1>1 DEF Rest, TakenInv, GivenInv, GivenInOrder
<1>3. ListInv'
  BY DEF Rest, ListInv
<1>4. RoundInv'
  BY <1>1 DEF Rest, RoundInv, Ahead, Passed
<1>5. NoneSkipped'
  BY <1>1 DEF Rest, NoneSkipped
<1>6. QED
  BY <1>2, <1>3, <1>4, <1>5 DEF Rest

LEMMA UnregisterStep ==
    ASSUME IndInv, Rest, NEW t \in Clients, NEW n \in Names, UnregisterSink(t, n)
    PROVE  Rest'
<1>1. PICK i \in DOMAIN sinkList : sinkList' = Without(sinkList, i)
  BY DEF UnregisterSink
<1>2. /\ ~locked /\ UNCHANGED <<queue, puts, given, rec, wpc, using>>
  BY DEF UnregisterSink, InMutex, channel, writer
<1> DEFINE m == Len(sinkList)
           left == SubSeq(sinkList, 1, i - 1)
           right == SubSeq(sinkList, i + 1, m)
           h == [j \in 1 .. m - 1 |-> IF j < i THEN j ELSE j + 1]
<1>3. /\ sinkList \in Seq(Registration) /\ m \in Nat /\ i \in 1 .. m
      /\ DOMAIN sinkList = 1 .. m /\ \A j \in 1 .. m : sinkList[j] \in Registration
  BY RecordTypes DEF ListTypes
<1>4. /\ left \in Seq(Registration) /\ Len(left) = i - 1
      /\ \A j \in 1 .. i - 1 : left[j] = sinkList[j]
  <2>1. \A j \in 1 .. i - 1 : sinkList[j] \in Registration
    BY <1>3
  <2>2. QED
    BY <1>3, <2>1, SubSeqProperties
<1>5. /\ right \in Seq(Registration) /\ Len(right) = m - i
      /\ \A j \in 1 .. m - i : right[j] = sinkList[i + j]
  <2>1. \A j \in i + 1 .. m : sinkList[j] \in Registration
    BY <1>3
  <2>2. /\ right \in Seq(Registration)
        /\ Len(right) = IF i + 1 <= m THEN m - (i + 1) + 1 ELSE 0
        /\ \A j \in 1 .. m - (i + 1) + 1 : right[j] = sinkList[(i + 1) + j - 1]
    BY <1>3, <2>1, SubSeqProperties
  <2> HIDE DEF left, right
  <2>3. /\ m - (i + 1) + 1 = m - i /\ (i + 1 <= m <=> m - i > 0) /\ m - i >= 0
        /\ \A j \in 1 .. m - i : (i + 1) + j - 1 = i + j
    BY <1>3
  <2>4. QED
    BY <1>3, <2>2, <2>3
<1>6. /\ Len(sinkList') = m - 1 /\ DOMAIN sinkList' = 1 .. m - 1
      /\ \A j \in 1 .. m - 1 : sinkList'[j] = IF j <= i - 1 THEN left[j]
                                                            ELSE right[j - (i - 1)]
  <2>1. sinkList' = left \o right
    BY <1>1 DEF Without
  <2> HIDE DEF left, right
  <2>2. /\ sinkList' \in Seq(Registration) /\ Len(sinkList') = Len(left) + Len(right)
        /\ \A j \in 1 .. Len(left) + Len(right) :
              sinkList'[j] = IF j <= Len(left) THEN left[j] ELSE right[j - Len(left)]
    <3>1. left \in Seq(Registration) /\ right \in Seq(Registration)
      BY <1>4, <1>5
    <3>2. QED
      BY <2>1, <3>1, ConcatProperties
  <2>3. (i - 1) + (m - i) = m - 1
    BY <1>3
  <2>4. DOMAIN sinkList' = 1 .. Len(sinkList')
    BY <2>2
  <2>5. QED
    BY <1>4, <1>5, <2>2, <2>3, <2>4
<1> HIDE DEF left, right
<1>7. \A j \in 1 .. m - 1 : sinkList'[j] = sinkList[h[j]]
  <2>1. ASSUME NEW j \in 1 .. m - 1, j < i
        PROVE  sinkList'[j] = sinkList[h[j]]
    <3>1. j <= i - 1 /\ j \in 1 .. i - 1
      BY <1>3, <2>1
    <3>2. QED
      BY <1>4, <1>6, <2>1, <3>1
  <2>2. ASSUME NEW j \in 1 .. m - 1, ~(j < i)
        PROVE  sinkList'[j] = sinkList[h[j]]
    <3>1. ~(j <= i - 1) /\ j - (i - 1) \in 1 .. m - i /\ i + (j - (i - 1)) = j + 1
      BY <1>3, <2>2
    <3>2. h[j] = j + 1
      BY <2>2
    <3> HIDE DEF h
    <3>3. QED
      BY <1>5, <1>6, <3>1, <3>2
  <2>3. QED
    BY <2>1, <2>2
<1>8. h \in [DOMAIN sinkList' -> DOMAIN sinkList]
  BY <1>3, <1>6
<1>9. \A j, k \in DOMAIN sinkList' : j < k => h[j] < h[k]
  BY <1>3, <1>6
<1> HIDE DEF h
<1>10. \A j \in DOMAIN sinkList' : sinkList'[j].steady => sinkList'[j].passes
  BY <1>6, <1>7, <1>8 DEF Rest, ListInv
<1>11. QED
  BY <1>2, <1>6, <1>7, <1>8, <1>9, <1>10, ListStep

LEMMA ReplaceStep ==
    ASSUME IndInv, Rest, NEW t \in Clients, NEW n \in Names,
           \/ \E f \in Formatters : SetFormatter(t, n, f)
           \/ \E b \in BOOLEAN : SetFilter(t, n, b)
    PROVE  Rest'
<1>1. /\ ~locked /\ UNCHANGED <<queue, puts, given, rec, wpc, using>>
  BY DEF SetFormatter, SetFilter, InMutex, channel, writer
<1>2. /\ DOMAIN sinkList' = DOMAIN sinkList
      /\ \A j \in DOMAIN sinkList :
            /\ sinkList'[j].id = sinkList[j].id
            /\ sinkList'[j].since = sinkList[j].since
            /\ sinkList'[j].steady => sinkList[j].steady /\ sinkList'[j].passes
  <2>0. \A j \in DOMAIN sinkList : /\ sinkList[j] \in Registration
                                   /\ sinkList[j].steady => sinkList[j].passes
    BY RecordTypes DEF ListTypes, Rest, ListInv
  <2>1. ASSUME NEW f \in Formatters, NEW i \in DOMAIN sinkList,
               sinkList' = [sinkList EXCEPT ![i].formatter = f]
        PROVE  <1>2!:
    BY <2>0, <2>1 DEF Registration
  <2>2. ASSUME NEW b \in BOOLEAN, NEW i \in DOMAIN sinkList,
               sinkList' = [sinkList EXCEPT ![i] = [@ EXCEPT !.passes = b, !.steady = FALSE]]
        PROVE  <1>2!:
    BY <2>0, <2>2 DEF Registration
  <2>3. QED
    BY <2>1, <2>2 DEF SetFormatter, SetFilter
<1> DEFINE h == [j \in DOMAIN sinkList |-> j]
<1>3. h \in [DOMAIN sinkList' -> DOMAIN sinkList] /\ \A j \in DOMAIN sinkList : h[j] = j
  BY <1>2
<1> HIDE DEF h
<1>4. QED
  BY <1>1, <1>2, <1>3, ListStep

\* The writer takes the record that follows the last one, which no sink has.
LEMMA PopStep ==
    ASSUME IndInv, Rest, WriterPop
    PROVE  Rest'
<1>0. QueueTypes /\ GivenTypes /\ ListTypes /\ wpc = "pop" /\ rec = 0
  BY RecordTypes DEF WriterPop, IndInv, TypeOK
<1>1. UNCHANGED <<puts, sinkList, given, using>>
  BY DEF WriterPop, others
<1>2. CASE queue = <<>>
  BY <1>0, <1>1, <1>2, QuietStep DEF WriterPop
<1>3. CASE queue # <<>>
  <2>1. /\ wpc' = "lock" /\ rec' = Head(queue) /\ queue' = Tail(queue)
    BY <1>3 DEF WriterPop
  <2>2. /\ Len(queue') = Len(queue) - 1 /\ Len(queue) > 0
        /\ DOMAIN queue' = 1 .. Len(queue')
        /\ \A i \in DOMAIN queue' : queue'[i] = queue[i + 1]
        /\ Head(queue) = queue[1]
    BY <1>0, <1>3, <2>1, HeadTailProperties, EmptySeq, LenProperties DEF QueueTypes
  <2>3. Taken' = Taken + 1 /\ Taken + 1 \in Nat
    BY <1>0, <1>1, <2>2 DEF Taken, QueueTypes
  <2>4. rec' = Taken'
    BY <1>0, <2>1, <2>2, <2>3 DEF Rest, TakenInv, QueueTypes
  <2>5. TakenInv'
    <3>1. \A i \in DOMAIN queue' : i + 1 \in DOMAIN queue /\ queue[i + 1] = Taken + (i + 1)
      BY <1>0, <2>2 DEF Rest, TakenInv, QueueTypes
    <3>2. \A i \in DOMAIN queue' : queue'[i] = Taken' + i
      BY <1>0, <2>2, <2>3, <3>1 DEF QueueTypes
    <3>3. QED
      BY <2>3, <2>4, <3>2 DEF TakenInv
  <2>6. ListInv' /\ GivenInOrder'
    BY <1>1 DEF Rest, ListInv, GivenInv, GivenInOrder
  <2>7. GivenInv'
    BY <1>0, <1>1, <2>3, <2>6 DEF Rest, GivenInv, GivenTypes, QueueTypes
  <2>8. RoundInv'
    <3>1. \A i \in DOMAIN given : \A j \in DOMAIN given[i] : given[i][j] < rec'
      BY <1>0, <2>3, <2>4 DEF Rest, GivenInv, GivenTypes, QueueTypes
    <3>2. QED
      BY <1>0, <1>1, <2>1, <3>1 DEF RoundInv, Ahead, Passed, ListTypes
  <2>9. NoneSkipped'
    <3>1. ASSUME NEW i \in DOMAIN sinkList, sinkList[i].steady,
                 NEW n \in sinkList[i].since + 1 .. Taken', n # rec'
          PROVE  \E j \in DOMAIN given[sinkList[i].id] : given[sinkList[i].id][j] = n
      <4>1. n \in sinkList[i].since + 1 .. Taken /\ n # rec
        BY <1>0, <2>3, <2>4, <3>1 DEF ListTypes, QueueTypes
      <4>2. QED
        BY <3>1, <4>1 DEF Rest, NoneSkipped
    <3>2. QED
      BY <1>1, <3>1 DEF NoneSkipped
  <2>10. QED
    BY <2>5, <2>6, <2>7, <2>8, <2>9 DEF Rest
<1>4. QED
  BY <1>2, <1>3

\* From place p of the list the writer moves to the next: what was ahead of it
\* is, but for p, and p is passed.
LEMMA VisitNext ==
    ASSUME IndInv, Rest, NEW p \in DOMAIN sinkList, using = sinkList[p],
           wpc \in {"filter", "write"}, Visit(p + 1), UNCHANGED sinkList
    PROVE  \A i \in DOMAIN sinkList :
              /\ Ahead(sinkList[i])' => i # p /\ Ahead(sinkList[i])
              /\ Passed(sinkList[i])' => i = p \/ Passed(sinkList[i])
<1>0. ListTypes /\ ListInv
  BY RecordTypes DEF Rest
<1>1. SUFFICES ASSUME NEW i \in DOMAIN sinkList
               PROVE  /\ (Ahead(sinkList[i])' => i # p /\ Ahead(sinkList[i]))
                      /\ (Passed(sinkList[i])' => i = p \/ Passed(sinkList[i]))
  OBVIOUS
<1>2. \A j, k \in DOMAIN sinkList :
         j < k => sinkList[j].id < sinkList[k].id
  BY <1>0 DEF ListInv
<1>3. \A j \in DOMAIN sinkList : j \in Int /\ sinkList[j].id \in Int
  BY <1>0 DEF ListTypes
<1>4. /\ i < p => Passed(sinkList[i])
      /\ i > p => Ahead(sinkList[i])
  BY <1>2, <1>3 DEF Passed, Ahead
<1>5. CASE p + 1 \in DOMAIN sinkList
  <2>1. using' = sinkList[p + 1] /\ wpc' = "filter"
    BY <1>5 DEF Visit
  <2>2. /\ Ahead(sinkList[i])' <=> sinkList[i].id >= sinkList[p + 1].id
        /\ Passed(sinkList[i])' <=> sinkList[i].id < sinkList[p + 1].id
    BY <2>1 DEF Ahead, Passed
  <2>3. QED
    BY <1>2, <1>3, <1>4, <1>5, <2>1, <2>2
<1>6. CASE p + 1 \notin DOMAIN sinkList
  <2>1. wpc' = "unlock" /\ i <= p
    BY <1>0, <1>6 DEF Visit, ListTypes
  <2>2. QED
    BY <1>3, <1>4, <2>1 DEF Ahead
<1>7. QED
  BY <1>5, <1>6

\* The writer takes the mutex: it is at the first place, all are ahead.
LEMMA LockStep ==
    ASSUME IndInv, Rest, WriterLock
    PROVE  Rest'
<1>0. ListTypes /\ ListInv /\ wpc = "lock"
  BY RecordTypes DEF Rest, WriterLock
<1>1. UNCHANGED <<queue, puts, sinkList, given, rec>> /\ Visit(1)
  BY DEF WriterLock, others
<1>2. Taken' = Taken
  BY <1>1 DEF Taken
<1>3. TakenInv' /\ ListInv' /\ GivenInv' /\ NoneSkipped'
  BY <1>1, <1>2 DEF Rest, TakenInv, ListInv, GivenInv, GivenInOrder, NoneSkipped
<1>4. \A i \in DOMAIN sinkList : Ahead(sinkList[i]) /\ ~Passed(sinkList[i])'
  <2>1. CASE 1 \in DOMAIN sinkList
    <3>1. using' = sinkList[1] /\ wpc' = "filter"
      BY <1>1, <2>1 DEF Visit
    <3>2. \A i \in DOMAIN sinkList : ~(sinkList[i].id < sinkList[1].id)
      BY <1>0, <2>1 DEF ListTypes, ListInv
    <3>3. QED
      BY <1>0, <1>1, <3>1, <3>2 DEF Ahead, Passed
  <2>2. CASE 1 \notin DOMAIN sinkList
    BY <1>0, <2>2 DEF ListTypes
  <2>3. QED
    BY <2>1, <2>2
<1>5. RoundInv'
  BY <1>1, <1>4 DEF Rest, RoundInv
<1>6. QED
  BY <1>3, <1>5 DEF Rest

\* A filter that does not pass all is not the first one.
LEMMA FilterStep ==
    ASSUME IndInv, Rest, WriterFilter
    PROVE  Rest'
<1>0. wpc = "filter" /\ UNCHANGED <<queue, puts, sinkList, given, rec>>
  BY DEF WriterFilter, others
<1>1. Taken' = Taken
  BY <1>0 DEF Taken
<1>2. TakenInv' /\ ListInv' /\ GivenInv' /\ NoneSkipped'
  BY <1>0, <1>1 DEF Rest, TakenInv, ListInv, GivenInv, GivenInOrder, NoneSkipped
<1>3. RoundInv'
  <2>1. CASE using.passes
    <3>1. using' = using /\ wpc' = "write"
      BY <2>1 DEF WriterFilter
    <3>2. \A r : (Ahead(r)' => Ahead(r)) /\ (Passed(r)' => Passed(r))
      BY <1>0, <3>1 DEF Ahead, Passed
    <3>3. QED
      BY <1>0, <3>2 DEF Rest, RoundInv
  <2>2. CASE ~using.passes
    <3> DEFINE p == Place(using)
    <3>1. p \in DOMAIN sinkList /\ sinkList[p] = using
      BY <1>0, PlaceInList
    <3>2. Visit(p + 1)
      BY <2>2 DEF WriterFilter
    <3> HIDE DEF p
    <3>3. \A i \in DOMAIN sinkList :
             /\ Ahead(sinkList[i])' => i # p /\ Ahead(sinkList[i])
             /\ Passed(sinkList[i])' => i = p \/ Passed(sinkList[i])
      BY <1>0, <3>1, <3>2, VisitNext
    <3>4. ~sinkList[p].steady
      BY <2>2, <3>1 DEF Rest, ListInv
    <3>5. QED
      BY <1>0, <3>3, <3>4 DEF Rest, RoundInv
  <2>3. QED
    BY <2>1, <2>2
<1>4. QED
  BY <1>2, <1>3 DEF Rest

\* The sink gets the record, and all it had are earlier.
LEMMA WriteStep ==
    ASSUME IndInv, Rest, WriterWrite
    PROVE  Rest'
<1> DEFINE p == Place(using)
           g == using.id
<1>0. wpc = "write" /\ UNCHANGED <<queue, puts, sinkList, rec>> /\ Visit(p + 1)
  BY DEF WriterWrite, others
<1>1. p \in DOMAIN sinkList /\ sinkList[p] = using /\ rec = Taken
  BY <1>0, PlaceInList
<1>2. QueueTypes /\ GivenTypes /\ ListTypes
  BY RecordTypes
<1> HIDE DEF p
<1>3. g \in DOMAIN given
  BY <1>1, <1>2 DEF ListTypes
<1>4. given' = [given EXCEPT ![g] = Append(given[g], rec)]
  BY DEF WriterWrite
<1>5. \A i \in DOMAIN sinkList : sinkList[i].id = g <=> i = p
  BY <1>1, <1>2 DEF Rest, ListInv, ListTypes
<1>6. \A i \in DOMAIN sinkList :
         /\ Ahead(sinkList[i])' => i # p /\ Ahead(sinkList[i])
         /\ Passed(sinkList[i])' => i = p \/ Passed(sinkList[i])
  BY <1>0, <1>1, VisitNext
<1> DEFINE l == Len(given[g])
<1>7. /\ given[g] \in Seq(Nat) /\ rec \in Nat /\ l \in Nat /\ DOMAIN given[g] = 1 .. l
      /\ \A j \in 1 .. l : given[g][j] \in Nat
  BY <1>2, <1>3 DEF GivenTypes, QueueTypes
<1>8. /\ DOMAIN given' = DOMAIN given
      /\ \A i \in DOMAIN given \ {g} : given'[i] = given[i]
      /\ given'[g] = Append(given[g], rec)
  BY <1>2, <1>3, <1>4 DEF GivenTypes
<1>9. /\ DOMAIN given'[g] = 1 .. l + 1 /\ given'[g][l + 1] = rec
      /\ \A j \in 1 .. l : given'[g][j] = given[g][j]
  BY <1>7, <1>8, AppendProperties, LenProperties
<1>10. \A j \in 1 .. l : given[g][j] < rec
  <2>1. Ahead(sinkList[p])
    BY <1>0, <1>1, <1>2 DEF Ahead, ListTypes
  <2>2. QED
    BY <1>1, <1>7, <2>1 DEF Rest, RoundInv
<1> HIDE DEF g, l
<1>11. \A n : (\E j \in DOMAIN given[g] : given[g][j] = n)
                 => \E j \in DOMAIN given'[g] : given'[g][j] = n
  BY <1>7, <1>9
<1>12. Taken' = Taken
  BY <1>0 DEF Taken
<1>13. TakenInv' /\ ListInv'
  BY <1>0, <1>8, <1>12 DEF Rest, TakenInv, ListInv
<1>14. GivenInv'
  <2>1. \A j, k \in DOMAIN given'[g] : j < k => given'[g][j] < given'[g][k]
    <3>1. SUFFICES ASSUME NEW j \in 1 .. l + 1, NEW k \in 1 .. l + 1, j < k
                   PROVE  given'[g][j] < given'[g][k]
      BY <1>9
    <3>2. j \in 1 .. l /\ (k \in 1 .. l \/ k = l + 1)
      BY <1>7, <3>1
    <3>3. k \in 1 .. l => given[g][j] < given[g][k]
      BY <1>3, <1>7, <3>1, <3>2 DEF Rest, GivenInv, GivenInOrder
    <3>4. QED
      BY <1>9, <1>10, <3>2, <3>3
  <2>2. GivenInOrder'
    BY <1>8, <2>1 DEF Rest, GivenInv, GivenInOrder
  <2>3. \A j \in 1 .. l + 1 : given'[g][j] <= Taken
    <3>1. SUFFICES ASSUME NEW j \in 1 .. l + 1 PROVE given'[g][j] <= Taken
      OBVIOUS
    <3>2. j \in 1 .. l \/ j = l + 1
      BY <1>7
    <3>3. QED
      BY <1>1, <1>7, <1>9, <1>10, <3>2
  <2>4. QED
    BY <1>8, <1>9, <1>12, <2>2, <2>3 DEF Rest, GivenInv
<1>15. RoundInv'
  <2>1. ASSUME NEW i \in DOMAIN sinkList, i # p
        PROVE  given'[sinkList[i].id] = given[sinkList[i].id]
    BY <1>2, <1>5, <1>8, <2>1 DEF ListTypes
  <2>2. \E j \in DOMAIN given'[g] : given'[g][j] = rec
    BY <1>7, <1>9
  <2>3. sinkList[p].id = g
    BY <1>1 DEF g
  <2>4. QED
    BY <1>0, <1>6, <2>1, <2>2, <2>3 DEF Rest, RoundInv
<1>16. NoneSkipped'
  <2>1. ASSUME NEW i \in DOMAIN sinkList, NEW n,
               \E j \in DOMAIN given[sinkList[i].id] : given[sinkList[i].id][j] = n
        PROVE  \E j \in DOMAIN given'[sinkList[i].id] : given'[sinkList[i].id][j] = n
    BY <1>2, <1>8, <1>11, <2>1 DEF ListTypes
  <2>2. QED
    BY <1>0, <1>12, <2>1 DEF Rest, NoneSkipped
<1>17. QED
  BY <1>13, <1>14, <1>15, <1>16 DEF Rest

\* The writer is done with the record: every registration was passed.
LEMMA UnlockStep ==
    ASSUME IndInv, Rest, WriterUnlock
    PROVE  Rest'
<1>0. /\ UNCHANGED <<queue, puts, sinkList, given, using>> /\ rec' = 0
      /\ wpc = "unlock" /\ wpc' = "pop"
  BY DEF WriterUnlock, others
<1>1. Taken' = Taken
  BY <1>0 DEF Taken
<1>2. TakenInv' /\ ListInv' /\ GivenInv'
  BY <1>0, <1>1 DEF Rest, TakenInv, ListInv, GivenInv, GivenInOrder
<1>3. RoundInv'
  BY <1>0 DEF RoundInv, Ahead, Passed
<1>4. NoneSkipped'
  <2>1. ASSUME NEW i \in DOMAIN sinkList, sinkList[i].steady,
               NEW n \in sinkList[i].since + 1 .. Taken
        PROVE  \E j \in DOMAIN given[sinkList[i].id] : given[sinkList[i].id][j] = n
    <3>1. CASE n # rec
      BY <2>1, <3>1 DEF Rest, NoneSkipped
    <3>2. CASE n = rec
      <4>1. sinkList[i].since < rec /\ Passed(sinkList[i])
        BY <1>0, <3>2, RecordTypes DEF Passed, ListTypes, QueueTypes
      <4>2. QED
        BY <2>1, <3>2, <4>1 DEF Rest, RoundInv
    <3>3. QED
      BY <3>1, <3>2
  <2>2. QED
    BY <1>0, <1>1, <2>1 DEF NoneSkipped
<1>5. QED
  BY <1>2, <1>3, <1>4 DEF Rest

\* Every step of a client or of the writer keeps them.
LEMMA RestStep ==
    ASSUME IndInv, DrainInv, Rest, [Next]_vars
    PROVE  Rest'
<1>0. /\ locked <=> wpc \in {"filter", "write", "unlock"}
      /\ \A t \in Clients : pc[t] \in {"init_build", "init_thread", "fin_drain", "fin_clear"}
                                => wpc = "none"
      /\ CoreInv
  <2>1. \A t \in Clients : pc[t] = "init_build" => wpc = "none"
    BY DEF IndInv, GlobalsInv, WriterInv
  <2>2. QED
    BY <2>1 DEF IndInv, TypeOK, WriterInv, CoreInv
<1>1. ASSUME NEW t \in Clients, ClientStep(t)
      PROVE  Rest'
  <2>1. CASE InitBuild(t) \/ FinDrain(t) \/ FinClear(t)
    <3>1. queue = <<>>
      BY <2>1, DrainedAlone DEF InitBuild, FinDrain, FinClear
    <3>2. UNCHANGED <<queue, puts, given, rec, using, wpc>>
      BY <2>1, <3>1 DEF InitBuild, FinDrain, FinClear, channel, sinks, writer
    <3>3. sinkList' = sinkList \/ sinkList' = <<>>
      BY <2>1 DEF InitBuild, FinDrain, FinClear, sinks
    <3>4. QED
      BY <3>2, <3>3, QuietStep, EmptyListStep
  <2>2. CASE InitThread(t) \/ FinJoin(t)
    <3>1. /\ UNCHANGED <<queue, puts, sinkList, given, rec, using>>
          /\ wpc \in {"none", "done"} \/ wpc' = "none"
      BY <1>0, <2>2 DEF InitThread, FinJoin, channel, sinks
    <3>2. wpc \notin {"lock", "filter", "write", "unlock"}
      <4>1. CASE InitThread(t)
        BY <1>0, <4>1 DEF InitThread
      <4>2. CASE FinJoin(t)
        BY <4>2 DEF FinJoin, IndInv, TypeOK, WriterInv
      <4>3. QED
        BY <2>2, <4>1, <4>2
    <3>3. wpc' \in {wpc, "start", "none"}
      BY <2>2 DEF InitThread, FinJoin
    <3>4. QED
      BY <3>1, <3>2, <3>3, QuietStep
  <2>3. CASE WritePush(t) /\ puts' = puts + 1
    <3>1. queue' = Append(queue, puts + 1)
      BY <2>3, RecordTypes DEF WritePush, QueueTypes
    <3>2. QED
      BY <2>3, <3>1, PutStep DEF WritePush, sinks, writer
  <2>4. CASE \/ InitFail(t) \/ SpinRead(t) \/ SpinTest(t)
             \/ FinCount(t) \/ FinStop(t) \/ FinAlert(t) \/ FinNull(t)
             \/ WriteList(t) \/ (WritePush(t) /\ puts' # puts + 1) \/ WriteSet(t)
    <3>1. UNCHANGED <<queue, puts, sinkList, given, rec, using, wpc>>
      BY <2>4 DEF InitFail, SpinRead, SpinTest, FinCount, FinStop, FinAlert, FinNull,
         WriteList, WritePush, WriteSet, channel, sinks, writer
    <3>2. QED
      BY <3>1, QuietStep
  <2>5. QED
    BY <1>1, <2>1, <2>2, <2>3, <2>4 DEF ClientStep
<1>2. ASSUME NEW t \in Clients, ClientCall(t)
      PROVE  Rest'
  <2>1. CASE InitBegin(t) \/ FinBegin(t) \/ FlushBegin(t) \/ WriteBegin(t)
    <3>1. UNCHANGED <<queue, puts, sinkList, given, rec, using, wpc>>
      BY <2>1 DEF InitBegin, FinBegin, FlushBegin, WriteBegin, channel, sinks, writer
    <3>2. QED
      BY <3>1, QuietStep
  <2>2. QED
    BY <1>2, <2>1, UnregisterStep, RegisterStep, ReplaceStep DEF ClientCall
<1>3. CASE WriterStep \/ IoCompletes
  <2>1. CASE WriterPop \/ WriterLock \/ WriterFilter \/ WriterWrite \/ WriterUnlock
    BY <2>1, PopStep, LockStep, FilterStep, WriteStep, UnlockStep
  <2>2. CASE ~(WriterPop \/ WriterLock \/ WriterFilter \/ WriterWrite \/ WriterUnlock)
    <3>1. /\ UNCHANGED <<queue, puts, sinkList, given, rec, using>>
          /\ wpc \in {"start", "test", "look", "wait", "drain"}
          /\ wpc' \in {"test", "done", "look", "wait", "drain", "pop"}
      BY <1>3, <2>2 DEF WriterStep, IoCompletes, WriterStart, WriterTest, WriterLook,
         WriterWake, WriterAlerted, WriterDrain, others
    <3>2. QED
      BY <3>1, QuietStep
  <2>3. QED
    BY <2>1, <2>2
<1>4. CASE UNCHANGED vars
  BY <1>4, QuietStep DEF vars, channel, sinks, writer
<1>5. QED
  BY <1>1, <1>2, <1>3, <1>4 DEF Next

----------------------------------------------------------------------------
(* flush() *)

\* What a flush() has read of m_puts is not older than its call.
LEMMA FlushStep ==
    ASSUME TypeOK, FlushInv, [Next]_vars
    PROVE  FlushInv'
<1>0. /\ pc \in [Clients -> PCs] /\ puts \in Nat
      /\ saw \in [Clients -> Nat] /\ asked \in [Clients -> Nat]
  BY DEF TypeOK
<1>1. ASSUME NEW t \in Clients, puts' = puts \/ puts' = puts + 1,
             \A u \in Clients \ {t} : pc'[u] = pc[u] /\ saw'[u] = saw[u] /\ asked'[u] = asked[u],
             /\ pc'[t] \in {"spin", "fin_spin", "spin_test", "fin_test"} => asked'[t] <= puts'
             /\ pc'[t] \in {"spin_test", "fin_test"} => asked'[t] <= saw'[t] /\ saw'[t] <= puts'
      PROVE  FlushInv'
  BY <1>0, <1>1 DEF FlushInv
<1>2. ASSUME NEW t \in Clients, ClientStep(t)
      PROVE  FlushInv'
  <2>1. CASE SpinRead(t)
    <3>1. /\ UNCHANGED <<puts, asked>> /\ saw' = [saw EXCEPT ![t] = puts]
          /\ pc[t] \in {"spin", "fin_spin"}
          /\ \E l : pc' = [pc EXCEPT ![t] = l]
      BY <2>1 DEF SpinRead, Goto, channel
    <3>2. asked[t] <= puts
      BY <3>1 DEF FlushInv
    <3>3. QED
      BY <1>0, <1>1, <3>1, <3>2
  <2>2. CASE SpinTest(t)
    <3>1. /\ UNCHANGED puts /\ saw' = [saw EXCEPT ![t] = 0]
          /\ asked' = [asked EXCEPT ![t] = 0] \/ asked' = asked
          /\ pc[t] \in {"spin_test", "fin_test"}
          /\ \E l \in {"idle", "spin", "fin_count", "fin_spin"} : pc' = [pc EXCEPT ![t] = l]
      BY <2>2 DEF SpinTest, Goto, channel
    <3>2. asked[t] <= puts
      BY <3>1 DEF FlushInv
    <3>3. QED
      BY <1>0, <1>1, <3>1, <3>2
  <2>3. CASE InitFail(t)
    <3>1. /\ UNCHANGED <<puts, saw>>
          /\ \/ pc' = [pc EXCEPT ![t] = "fin_spin"] /\ asked' = [asked EXCEPT ![t] = puts]
             \/ pc' = [pc EXCEPT ![t] = "fin_count"] /\ asked' = asked
      BY <2>3 DEF InitFail, Flush, Goto, channel
    <3>2. QED
      BY <1>0, <1>1, <3>1
  <2>4. CASE ~SpinRead(t) /\ ~SpinTest(t) /\ ~InitFail(t)
    <3>1. /\ UNCHANGED <<saw, asked>>
          /\ puts' = puts \/ puts' = puts + 1
          /\ \E l \in PCs \ {"spin", "fin_spin", "spin_test", "fin_test"} :
                pc' = [pc EXCEPT ![t] = l]
      BY <1>2, <2>4 DEF ClientStep, InitBuild, InitThread, FinCount, FinStop, FinAlert,
         FinJoin, FinDrain, FinClear, FinNull, WriteList, WritePush, WriteSet, Goto,
         channel, local, PCs, Building, TearingDown
    <3>2. QED
      BY <1>0, <1>1, <3>1
  <2>5. QED
    BY <2>1, <2>2, <2>3, <2>4
<1>3. ASSUME NEW t \in Clients, ClientCall(t)
      PROVE  FlushInv'
  <2>1. CASE FlushBegin(t) \/ FinBegin(t)
    <3>1. /\ UNCHANGED <<puts, saw>>
          /\ \/ /\ \E l \in {"spin", "fin_spin"} : pc' = [pc EXCEPT ![t] = l]
                /\ asked' = [asked EXCEPT ![t] = puts]
             \/ /\ \E l \in {"idle", "fin_count"} : pc' = [pc EXCEPT ![t] = l]
                /\ asked' = asked
      BY <2>1 DEF FlushBegin, FinBegin, Flush, Goto, channel
    <3>2. QED
      BY <1>0, <1>1, <3>1
  <2>2. CASE ~FlushBegin(t) /\ ~FinBegin(t)
    <3>1. /\ UNCHANGED <<puts, saw, asked>>
          /\ \/ pc' = pc
             \/ \E l \in {"init_build", "write_list"} : pc' = [pc EXCEPT ![t] = l]
      BY <1>3, <2>2 DEF ClientCall, InitBegin, WriteBegin, UnregisterSink, RegisterSink,
         SetFormatter, SetFilter, Goto, channel, local
    <3>2. QED
      BY <1>0, <1>1, <3>1 DEF FlushInv
  <2>3. QED
    BY <2>1, <2>2
<1>4. CASE WriterStep \/ IoCompletes \/ UNCHANGED vars
  <2>1. UNCHANGED <<puts, pc, saw, asked>>
    BY <1>4 DEF WriterStep, IoCompletes, WriterStart, WriterTest, WriterLook, WriterWake,
       WriterAlerted, WriterDrain, WriterPop, WriterLock, WriterFilter, WriterWrite,
       WriterUnlock, others, local, vars, channel
  <2>2. QED
    BY <2>1 DEF FlushInv
<1>5. QED
  BY <1>2, <1>3, <1>4 DEF Next

----------------------------------------------------------------------------
(* Theorems about the records *)

\* The way of a record is inductive: somebody flushes before the globals go,
\* the queue holds the records that follow the one taken last, and that one
\* goes down the list of sinks once.
THEOREM RecordInvariant == ASSUME ~Overlap PROVE Spec => [](RecordInv /\ FlushInv)
<1>1. Init => RecordInv /\ FlushInv
  <2>1. SUFFICES ASSUME Init PROVE RecordInv /\ FlushInv
    OBVIOUS
  <2>2. /\ queue = <<>> /\ puts = 0 /\ sinkList = <<>> /\ given = <<>> /\ rec = 0
        /\ \A t \in Clients : pc[t] = "idle"
    BY <2>1 DEF Init
  <2>3. Taken = 0
    <3>1. Len(queue) = 0 /\ puts = 0
      BY <2>2
    <3>2. QED
      BY <3>1 DEF Taken
  <2>4. QED
    BY <2>2, <2>3 DEF RecordInv, DrainInv, TakenInv, ListInv, GivenInv, GivenInOrder,
       RoundInv, NoneSkipped, FlushInv
<1>2. IndInv /\ RecordInv /\ FlushInv /\ [Next]_vars => (RecordInv /\ FlushInv)'
  <2>1. SUFFICES ASSUME IndInv, RecordInv, FlushInv, [Next]_vars
                 PROVE  (RecordInv /\ FlushInv)'
    OBVIOUS
  <2>2. DrainInv /\ TakenInv /\ Rest
    BY <2>1 DEF RecordInv, Rest
  <2>3. DrainInv'
    BY <2>1, <2>2, DrainStep
  <2>4. Rest'
    BY <2>1, <2>2, RestStep
  <2>5. FlushInv'
    BY <2>1, FlushStep DEF IndInv
  <2>6. QED
    BY <2>3, <2>4, <2>5 DEF RecordInv, Rest
<1>3. QED
  BY <1>1, <1>2, InductiveInvariant, PTL DEF Spec

\* With any number of threads and sinks, what a sink was given is in the order
\* of the puts, and nothing was given to it twice.
THEOREM InOrderAndOnce == ASSUME ~Overlap PROVE Spec => []GivenInOrder
<1>1. RecordInv => GivenInOrder
  BY DEF RecordInv, GivenInv
<1>2. QED
  BY <1>1, RecordInvariant, PTL

\* A sink with its first filter misses no record that was put since it was
\* registered and taken by the writer.
THEOREM NoRecordSkipped == ASSUME ~Overlap PROVE Spec => []NoneSkipped
<1>1. RecordInv => NoneSkipped
  BY DEF RecordInv
<1>2. QED
  BY <1>1, RecordInvariant, PTL

\* finalize() drains a queue that is already empty, since every holder flushes
\* before it gives up its reference.
THEOREM NoRecordThrownAway == ASSUME ~Overlap PROVE Spec => []NothingThrownAway
<1>1. IndInv /\ RecordInv => NothingThrownAway
  BY DrainedAlone DEF RecordInv, NothingThrownAway
<1>2. QED
  BY <1>1, InductiveInvariant, RecordInvariant, PTL

\* A flush() that returns has seen the writer take every record put before the
\* call, although empty() reads m_puts and m_gets one after the other.
THEOREM FlushWaitsForAll == ASSUME ~Overlap PROVE Spec => FlushTakesAll
<1> DEFINE A == \A t \in Clients :
                   (pc[t] \in {"spin_test", "fin_test"} /\ pc'[t] \in {"idle", "fin_count"})
                      => Taken >= asked[t]
<1>1. IndInv /\ FlushInv /\ [Next]_vars => [A]_vars
  <2>1. SUFFICES ASSUME IndInv, FlushInv, Next, NEW t \in Clients,
                        pc[t] \in {"spin_test", "fin_test"},
                        pc'[t] \in {"idle", "fin_count"}
                 PROVE  Taken >= asked[t]
    BY DEF A
  <2>2. /\ TypeOK /\ pc \in [Clients -> PCs]
        /\ saw[t] \in Nat /\ asked[t] \in Nat /\ asked[t] <= saw[t]
    BY <2>1 DEF IndInv, TypeOK, FlushInv
  <2>3. \E u \in Clients : ClientStep(u) \/ ClientCall(u)
    <3>1. WriterStep \/ IoCompletes => pc' = pc
      BY DEF WriterStep, IoCompletes, WriterStart, WriterTest, WriterLook, WriterWake,
         WriterAlerted, WriterDrain, WriterPop, WriterLock, WriterFilter, WriterWrite,
         WriterUnlock, others
    <3>2. QED
      BY <2>1, <3>1 DEF Next
  <2>4. PICK u \in Clients : ClientStep(u) \/ ClientCall(u)
    BY <2>3
  <2>5. u = t
    <3>1. pc' = pc \/ \E l : pc' = [pc EXCEPT ![u] = l]
      BY <2>4 DEF ClientStep, ClientCall, InitBuild, InitThread, InitFail, SpinRead,
         SpinTest, FinCount, FinStop, FinAlert, FinJoin, FinDrain, FinClear, FinNull,
         WriteList, WritePush, WriteSet, InitBegin, FinBegin, FlushBegin, WriteBegin,
         UnregisterSink, RegisterSink, SetFormatter, SetFilter, Flush, Goto
    <3>2. QED
      BY <2>1, <2>2, <3>1
  <2>6. SpinTest(t)
    <3>1. pc' # pc
      BY <2>1
    <3>2. ~ClientCall(t)
      BY <2>1, <3>1 DEF ClientCall, InitBegin, FinBegin, FlushBegin, WriteBegin,
         UnregisterSink, RegisterSink, SetFormatter, SetFilter
    <3>3. QED
      BY <2>1, <2>4, <2>5, <3>2 DEF ClientStep, InitBuild, InitThread, InitFail,
         SpinRead, FinCount, FinStop, FinAlert, FinJoin, FinDrain, FinClear, FinNull,
         WriteList, WritePush, WriteSet
  <2>7. IsDrained(t)
    BY <2>1, <2>2, <2>6 DEF SpinTest, Goto
  <2>8. QED
    BY <2>2, <2>7 DEF IsDrained
<1>2. QED
  BY <1>1, InductiveInvariant, RecordInvariant, PTL DEF Spec, FlushTakesAll
=============================================================================
