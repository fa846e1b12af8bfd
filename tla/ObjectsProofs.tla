--------------------------- MODULE ObjectsProofs ---------------------------
(***************************************************************************)
(* Proofs about the components of MCObjects, for every value of the        *)
(* constants: the rundown guard, the library's initialization, the         *)
(* strings, the intrusive list and the vector.                             *)
(***************************************************************************)
EXTENDS MCObjects, RingLemmas

\* A step of the whole is a step of a component, or leaves it alone.
LEMMA Moves ==
    ASSUME [Next]_mcvars
    PROVE  /\ [Strings!Next]_stringVars /\ [Library!Next]_libraryVars
           /\ [List!Next]_listVars /\ [Vector!Next]_vectorVars
           /\ [Ring!Next]_ringVars /\ [Map!Next]_mapVars /\ [Guard!Next]_guardVars
BY DEF Next, Only, mcvars

LEMMA Starts ==
    ASSUME Init
    PROVE  /\ Strings!Init /\ Library!Init /\ List!Init /\ Vector!Init
           /\ Ring!Init /\ Map!Init /\ Guard!Init
BY DEF Init

----------------------------------------------------------------------------
(* The rundown guard *)

GuardInv == Guard!TypeOK /\ Guard!CountIsInside /\ Guard!ClosedIsEmpty

LEMMA GuardCardinality ==
    /\ IsFiniteSet(Users)
    /\ \A S : Guard!Cardinality(S) = Cardinality(S)
<1>1. \A S : Guard!IsFiniteSet(S) <=> IsFiniteSet(S)
  BY DEF Guard!IsFiniteSet, IsFiniteSet
<1>2. \A S : Guard!Cardinality(S) = Cardinality(S)
  BY <1>1 DEF Guard!Cardinality, Cardinality
<1>3. QED
  BY <1>1, <1>2, ObjectsAssumption DEF Guard!RundownAssumption

LEMMA GuardStep ==
    ASSUME GuardInv, [Guard!Next]_guardVars
    PROVE  GuardInv'
<1>0. /\ gCount \in Nat /\ gActive \in BOOLEAN /\ gEntries \in 0 .. MaxEntries /\ MaxEntries \in Nat
      /\ gPc \in [Users -> {"out", "inc_test", "inc_swap", "in", "dec_swap"}]
      /\ gVal \in [Users -> Nat] /\ gWaiter \in {"idle", "wait", "done"}
      /\ gCount = Cardinality(Guard!Inside)
      /\ gActive \/ gWaiter = "done" => gActive /\ Guard!Inside = {}
      /\ IsFiniteSet(Guard!Inside) /\ Guard!Inside \subseteq Users
  <2>1. Guard!Inside \subseteq Users
    BY DEF Guard!Inside
  <2>2. QED
    BY <2>1, GuardCardinality, FS_Subset, ObjectsAssumption
       DEF GuardInv, Guard!TypeOK, Guard!CountIsInside, Guard!ClosedIsEmpty, Guard!RundownAssumption
<1>1. ASSUME Guard!Inside' = Guard!Inside, gCount' = gCount, gActive' = gActive, gWaiter' = gWaiter \/ gWaiter' = "wait",
             gEntries' \in 0 .. MaxEntries, gVal' \in [Users -> Nat],
             gPc' \in [Users -> {"out", "inc_test", "inc_swap", "in", "dec_swap"}]
      PROVE  GuardInv'
  BY <1>0, <1>1, GuardCardinality DEF GuardInv, Guard!TypeOK, Guard!CountIsInside, Guard!ClosedIsEmpty
<1>2. CASE UNCHANGED guardVars
  BY <1>0, <1>1, <1>2 DEF guardVars, Guard!Inside
<1>3. CASE Guard!WaitBegin
  BY <1>0, <1>1, <1>3 DEF Guard!WaitBegin, Guard!Inside
<1>4. CASE Guard!WaitSwap
  <2>1. /\ gCount = 0 /\ gActive' = TRUE /\ gWaiter' = "done" /\ UNCHANGED <<gCount, gPc, gVal, gEntries>>
    BY <1>4 DEF Guard!WaitSwap
  <2>2. Guard!Inside' = Guard!Inside
    BY <2>1 DEF Guard!Inside
  <2>3. Guard!Inside = {}
    BY <1>0, <2>1, FS_EmptySet
  <2>4. QED
    BY <1>0, <2>1, <2>2, <2>3, GuardCardinality
       DEF GuardInv, Guard!TypeOK, Guard!CountIsInside, Guard!ClosedIsEmpty
<1>5. ASSUME NEW t \in Users, Guard!IncBegin(t)
      PROVE  GuardInv'
  <2>1. gEntries' \in 0 .. MaxEntries
    BY <1>0, <1>5 DEF Guard!IncBegin
  <2>2. Guard!Inside' = Guard!Inside
    BY <1>0, <1>5 DEF Guard!IncBegin, Guard!Goto, Guard!Inside
  <2>3. QED
    BY <1>0, <1>1, <1>5, <2>1, <2>2 DEF Guard!IncBegin, Guard!Goto
<1>6. ASSUME NEW t \in Users, Guard!IncTest(t)
      PROVE  GuardInv'
  <2>1. Guard!Inside' = Guard!Inside
    BY <1>0, <1>6 DEF Guard!IncTest, Guard!Goto, Guard!Inside
  <2>2. QED
    BY <1>0, <1>1, <1>6, <2>1 DEF Guard!IncTest, Guard!Goto
<1>7. ASSUME NEW t \in Users, Guard!IncSwap(t)
      PROVE  GuardInv'
  <2>1. CASE ~gActive /\ gCount = gVal[t]
    <3>1. /\ gPc[t] = "inc_swap" /\ gCount' = gCount + 1 /\ gPc' = [gPc EXCEPT ![t] = "in"]
          /\ UNCHANGED <<gActive, gVal, gWaiter, gEntries>>
      BY <1>7, <2>1 DEF Guard!IncSwap, Guard!Goto
    <3>2. Guard!Inside' = Guard!Inside \cup {t} /\ t \notin Guard!Inside
      BY <1>0, <3>1 DEF Guard!Inside
    <3>3. Cardinality(Guard!Inside') = gCount + 1
      BY <1>0, <3>2, FS_AddElement
    <3>4. QED
      BY <1>0, <2>1, <3>1, <3>3, GuardCardinality
         DEF GuardInv, Guard!TypeOK, Guard!CountIsInside, Guard!ClosedIsEmpty
  <2>2. CASE ~(~gActive /\ gCount = gVal[t])
    <3>1. Guard!Inside' = Guard!Inside
      BY <1>0, <1>7, <2>2 DEF Guard!IncSwap, Guard!Goto, Guard!Inside
    <3>2. QED
      BY <1>0, <1>1, <1>7, <2>2, <3>1 DEF Guard!IncSwap, Guard!Goto
  <2>3. QED
    BY <2>1, <2>2
<1>8. ASSUME NEW t \in Users, Guard!DecBegin(t)
      PROVE  GuardInv'
  <2>1. Guard!Inside' = Guard!Inside
    BY <1>0, <1>8 DEF Guard!DecBegin, Guard!Goto, Guard!Inside
  <2>2. QED
    BY <1>0, <1>1, <1>8, <2>1 DEF Guard!DecBegin, Guard!Goto
<1>9. ASSUME NEW t \in Users, Guard!DecSwap(t)
      PROVE  GuardInv'
  <2>1. /\ gPc[t] = "dec_swap" /\ ~gActive /\ gCount' = gCount - 1 /\ gPc' = [gPc EXCEPT ![t] = "out"]
        /\ UNCHANGED <<gActive, gVal, gWaiter, gEntries>>
    BY <1>9 DEF Guard!DecSwap, Guard!Goto
  <2>2. Guard!Inside' = Guard!Inside \ {t} /\ t \in Guard!Inside
    BY <1>0, <2>1 DEF Guard!Inside
  <2>3. Cardinality(Guard!Inside') = gCount - 1
    BY <1>0, <2>2, FS_RemoveElement
  <2>4. gCount - 1 \in Nat
    <3>1. gCount # 0
      BY <1>0, <2>2, FS_EmptySet
    <3>2. QED
      BY <1>0, <3>1
  <2>5. QED
    BY <1>0, <2>1, <2>3, <2>4, GuardCardinality
       DEF GuardInv, Guard!TypeOK, Guard!CountIsInside, Guard!ClosedIsEmpty
<1>10. QED
  BY <1>2, <1>3, <1>4, <1>5, <1>6, <1>7, <1>8, <1>9 DEF Guard!Next, Guard!UserStep

\* The word of the guard counts the users inside and is closed on nobody, after
\* every step, with any number of users.
THEOREM GuardInvariant == Spec => []GuardInv
<1>1. ASSUME Init PROVE GuardInv
  <2>1. Guard!Init
    BY <1>1, Starts
  <2>2. Guard!Inside = {} /\ Cardinality({}) = 0
    BY <2>1, FS_EmptySet DEF Guard!Init, Guard!Inside
  <2>3. 0 \in 0 .. MaxEntries
    BY ObjectsAssumption DEF Guard!RundownAssumption
  <2>4. /\ gCount = 0 /\ gActive = FALSE /\ gWaiter = "idle" /\ gEntries = 0
        /\ gPc \in [Users -> {"out", "inc_test", "inc_swap", "in", "dec_swap"}] /\ gVal \in [Users -> Nat]
    <3>1. gPc = [t \in Users |-> "out"] /\ gVal = [t \in Users |-> 0]
      BY <2>1 DEF Guard!Init
    <3>2. gCount = 0 /\ gActive = FALSE /\ gWaiter = "idle" /\ gEntries = 0
      BY <2>1 DEF Guard!Init
    <3>3. QED
      BY <3>1, <3>2
  <2>5. Guard!TypeOK
    <3>1. gCount \in Nat /\ gActive \in BOOLEAN /\ gEntries \in 0 .. MaxEntries
      <4>1. gCount = 0 /\ gActive = FALSE /\ gEntries = 0
        BY <2>4
      <4>2. QED
        BY <2>3, <4>1
    <3>2. gWaiter \in {"idle", "wait", "done"}
      BY <2>4
    <3>3. QED
      BY <2>4, <3>1, <3>2 DEF Guard!TypeOK
  <2>6. Guard!CountIsInside
    BY <2>2, <2>4, GuardCardinality DEF Guard!CountIsInside
  <2>7. Guard!ClosedIsEmpty
    BY <2>4 DEF Guard!ClosedIsEmpty
  <2>8. QED
    BY <2>5, <2>6, <2>7 DEF GuardInv
<1>2. GuardInv /\ [Next]_mcvars => GuardInv'
  BY Moves, GuardStep
<1>3. QED
  BY <1>1, <1>2, PTL DEF Spec

\* CountIsInside and ClosedIsEmpty of Rundown, in the part of the graph where
\* the guard moves: the word is the number of users inside whatever exchanges
\* fail in between, and wait() returns to an empty, closed guard.
THEOREM GuardCountsItsUsers == Spec => []GuardIsExact
<1>1. GuardInv => GuardIsExact
  BY DEF GuardInv, GuardIsExact
<1>2. QED
  BY <1>1, GuardInvariant, PTL

LEMMA GateStep ==
    ASSUME GuardInv, [Guard!Next]_guardVars
    PROVE  [Guard!Gate!Next]_<<Guard!Inside, gActive>>
<1>0. /\ gPc \in [Users -> {"out", "inc_test", "inc_swap", "in", "dec_swap"}]
      /\ gActive \in BOOLEAN /\ gCount = Cardinality(Guard!Inside)
      /\ IsFiniteSet(Guard!Inside)
  <2>1. Guard!Inside \subseteq Users
    BY DEF Guard!Inside
  <2>2. QED
    BY <2>1, GuardCardinality, FS_Subset DEF GuardInv, Guard!TypeOK, Guard!CountIsInside
<1>1. CASE UNCHANGED guardVars
  BY <1>1 DEF guardVars, Guard!Inside
<1>2. CASE Guard!WaitBegin
  BY <1>2 DEF Guard!WaitBegin, Guard!Inside
<1>3. CASE Guard!WaitSwap
  <2>1. gCount = 0 /\ gActive' = TRUE /\ Guard!Inside' = Guard!Inside
    BY <1>3 DEF Guard!WaitSwap, Guard!Inside
  <2>2. Guard!Inside = {}
    BY <1>0, <2>1, FS_EmptySet
  <2>3. CASE gActive
    BY <1>0, <2>1, <2>3
  <2>4. CASE ~gActive
    BY <2>1, <2>2, <2>4 DEF Guard!Gate!Next, Guard!Gate!Close
  <2>5. QED
    BY <2>3, <2>4
<1>4. ASSUME NEW t \in Users, Guard!IncBegin(t) \/ Guard!IncTest(t) \/ Guard!DecBegin(t)
      PROVE  Guard!Inside' = Guard!Inside /\ gActive' = gActive
  BY <1>0, <1>4 DEF Guard!IncBegin, Guard!IncTest, Guard!DecBegin, Guard!Goto, Guard!Inside
<1>5. ASSUME NEW t \in Users, Guard!IncSwap(t)
      PROVE  [Guard!Gate!Next]_<<Guard!Inside, gActive>>
  <2>1. CASE ~gActive /\ gCount = gVal[t]
    <3>1. gPc[t] = "inc_swap" /\ gPc' = [gPc EXCEPT ![t] = "in"] /\ gActive' = gActive
      BY <1>5, <2>1 DEF Guard!IncSwap, Guard!Goto
    <3>2. Guard!Inside' = Guard!Inside \cup {t} /\ t \notin Guard!Inside
      BY <1>0, <3>1 DEF Guard!Inside
    <3>3. QED
      BY <2>1, <3>1, <3>2 DEF Guard!Gate!Next, Guard!Gate!Enter
  <2>2. CASE ~(~gActive /\ gCount = gVal[t])
    BY <1>0, <1>5, <2>2 DEF Guard!IncSwap, Guard!Goto, Guard!Inside
  <2>3. QED
    BY <2>1, <2>2
<1>6. ASSUME NEW t \in Users, Guard!DecSwap(t)
      PROVE  [Guard!Gate!Next]_<<Guard!Inside, gActive>>
  <2>1. gPc[t] = "dec_swap" /\ gPc' = [gPc EXCEPT ![t] = "out"] /\ gActive' = gActive
    BY <1>6 DEF Guard!DecSwap, Guard!Goto
  <2>2. Guard!Inside' = Guard!Inside \ {t} /\ t \in Guard!Inside
    BY <1>0, <2>1 DEF Guard!Inside
  <2>3. QED
    BY <1>6, <2>1, <2>2 DEF Guard!Gate!Next, Guard!Gate!Leave
<1>7. QED
  BY <1>1, <1>2, <1>3, <1>4, <1>5, <1>6 DEF Guard!Next, Guard!UserStep

\* Every step of increment(), decrement() and wait() enters, leaves or closes
\* the gate, or does nothing that shows: each call takes effect at one instant.
THEOREM GuardIsAGate == Spec => GuardImplementsGate
<1>1. Init => Guard!Gate!Init
  BY Starts DEF Guard!Init, Guard!Inside, Guard!Gate!Init
<1>2. GuardInv /\ [Next]_mcvars => [Guard!Gate!Next]_<<Guard!Inside, gActive>>
  BY Moves, GateStep
<1>3. QED
  BY <1>1, <1>2, GuardInvariant, PTL
     DEF Spec, GuardImplementsGate, Guard!ImplementsGate, Guard!Gate!Spec

----------------------------------------------------------------------------
(* Initialization and finalization of the library *)

\* Who has raised the count and not lowered it.
Counted == {t \in Callers : iPc[t] \in {"init", "rollback", "failed", "holder"}}

\* The caller that initializes or rolls back is the only one that counts, the
\* one that finalizes was the last; below its index the components are up.  No
\* caller holds what is not up but after one that failed, whose count stays.
LibraryTypes ==
    /\ iRefs \in Nat /\ iCalls \in 0 .. MaxCalls /\ iRefs <= iCalls
    /\ iPc \in [Callers -> {"out", "init", "rollback", "failed", "holder", "fin"}]
    /\ iIndex \in [Callers -> 0 .. Last]
LibraryTurns ==
    \A t \in Callers : Library!Busy(t) =>
        /\ Counted \subseteq {t}
        /\ \A s \in Callers : Library!Busy(s) => s = t
        /\ iIndex[t] \in (IF iPc[t] = "rollback" THEN 2 ELSE 1) .. Last
        /\ iUp = 1 .. (IF iPc[t] = "fin" THEN iIndex[t] ELSE iIndex[t] - 1)
LibraryAtRest ==
    Library!MayEnter =>
        iUp = IF Counted # {} /\ \A t \in Callers : iPc[t] # "failed" THEN 1 .. Last ELSE {}
LibraryInv ==
    LibraryTypes /\ iRefs = Cardinality(Counted) /\ LibraryTurns /\ LibraryAtRest

LEMMA LibraryConstants ==
    IsFiniteSet(Callers) /\ Last \in Nat /\ Last > 0 /\ MaxCalls \in Nat
<1>1. \A S : Library!IsFiniteSet(S) <=> IsFiniteSet(S)
  BY DEF Library!IsFiniteSet, IsFiniteSet
<1>2. QED
  BY <1>1, ObjectsAssumption DEF Library!LibraryAssumption

LEMMA CountedIsFinite == IsFiniteSet(Counted) /\ Cardinality(Counted) \in Nat
<1>1. Counted \subseteq Callers
  BY DEF Counted
<1>2. QED
  BY <1>1, LibraryConstants, FS_Subset, FS_CardinalityType

LEMMA LibraryStep ==
    ASSUME LibraryInv, [Library!Next]_libraryVars
    PROVE  LibraryInv'
<1> USE LibraryConstants
<1>0. /\ iRefs \in Nat /\ iCalls \in 0 .. MaxCalls /\ iRefs <= iCalls
      /\ iPc \in [Callers -> {"out", "init", "rollback", "failed", "holder", "fin"}]
      /\ iIndex \in [Callers -> 0 .. Last]
      /\ iRefs = Cardinality(Counted) /\ LibraryTurns /\ LibraryAtRest
  BY DEF LibraryInv, LibraryTypes
<1>1. CASE UNCHANGED libraryVars
  BY <1>1 DEF libraryVars, LibraryInv, LibraryTypes, LibraryTurns, LibraryAtRest, Counted,
              Library!Busy, Library!MayEnter
<1>2. ASSUME NEW t \in Callers, Library!InitBegin(t)
      PROVE  LibraryInv'
  <2>1. /\ iPc[t] = "out" /\ Library!MayEnter /\ iCalls < MaxCalls
        /\ iCalls' = iCalls + 1 /\ iRefs' = iRefs + 1 /\ iUp' = iUp
        /\ iPc' = [iPc EXCEPT ![t] = IF iRefs = 0 THEN "init" ELSE "holder"]
        /\ iIndex' = [iIndex EXCEPT ![t] = IF iRefs = 0 THEN 1 ELSE 0]
    BY <1>2 DEF Library!InitBegin, Library!Move
  <2>2. Counted' = Counted \cup {t} /\ t \notin Counted
    BY <1>0, <2>1 DEF Counted
  <2>3. iRefs' = Cardinality(Counted')
    BY <1>0, <2>1, <2>2, CountedIsFinite, FS_AddElement
  <2>4. LibraryTypes'
    BY <1>0, <2>1 DEF LibraryTypes
  <2>5. CASE iRefs = 0
    <3>1. Counted = {}
      BY <1>0, <2>5, CountedIsFinite, FS_EmptySet
    <3>2. iUp = {} /\ \A s \in Callers : ~Library!Busy(s)
      BY <1>0, <2>1, <3>1 DEF LibraryAtRest, Library!MayEnter
    <3>3. /\ iPc'[t] = "init" /\ iIndex'[t] = 1 /\ iUp' = 1 .. 1 - 1
          /\ \A s \in Callers : Library!Busy(s)' => s = t
      BY <1>0, <2>1, <2>5, <3>2 DEF Library!Busy
    <3>4. LibraryTurns'
      BY <2>2, <3>1, <3>3 DEF LibraryTurns
    <3>5. LibraryAtRest'
      BY <3>3 DEF LibraryAtRest, Library!MayEnter, Library!Busy
    <3>6. QED
      BY <2>3, <2>4, <3>4, <3>5 DEF LibraryInv
  <2>6. CASE iRefs # 0
    <3>1. Counted # {}
      BY <1>0, <2>6, FS_EmptySet
    <3>2. \A s \in Callers : ~Library!Busy(s)'
      BY <1>0, <2>1, <2>6 DEF Library!Busy, Library!MayEnter
    <3>3. LibraryTurns'
      BY <3>2 DEF LibraryTurns
    <3>4. (\A s \in Callers : iPc[s] # "failed") <=> \A s \in Callers : iPc'[s] # "failed"
      BY <1>0, <2>1, <2>6
    <3>5. LibraryAtRest'
      BY <1>0, <2>1, <2>2, <3>1, <3>4 DEF LibraryAtRest
    <3>6. QED
      BY <2>3, <2>4, <3>3, <3>5 DEF LibraryInv
  <2>7. QED
    BY <2>5, <2>6
<1>3. ASSUME NEW t \in Callers, Library!Busy(t),
             NEW place \in {"init", "rollback", "fin"}, NEW n \in 1 .. Last,
             Library!Move(t, place, n), UNCHANGED <<iRefs, iCalls>>,
             (place = "fin") = (iPc[t] = "fin"), place = "rollback" => n >= 2,
             iUp' = 1 .. (IF place = "fin" THEN n ELSE n - 1)
      PROVE  LibraryInv'
  <2>1. /\ iPc' = [iPc EXCEPT ![t] = place] /\ iIndex' = [iIndex EXCEPT ![t] = n]
    BY <1>3 DEF Library!Move
  <2>2. Counted' = Counted
    BY <1>0, <1>3, <2>1 DEF Counted, Library!Busy
  <2>3. LibraryTypes'
    BY <1>0, <1>3, <2>1 DEF LibraryTypes
  <2>4. /\ Library!Busy(t)' /\ iPc'[t] = place /\ iIndex'[t] = n
        /\ Counted' \subseteq {t} /\ \A s \in Callers : Library!Busy(s)' => s = t
    BY <1>0, <1>3, <2>1, <2>2 DEF LibraryTurns, Library!Busy
  <2>5. LibraryTurns'
    BY <1>3, <2>4 DEF LibraryTurns
  <2>6. LibraryAtRest'
    BY <2>4 DEF LibraryAtRest, Library!MayEnter
  <2>7. QED
    BY <1>0, <1>3, <2>2, <2>3, <2>5, <2>6 DEF LibraryInv
<1>4. ASSUME NEW t \in Callers, Library!Busy(t), NEW place \in {"out", "failed", "holder"},
             Library!Move(t, place, 0), UNCHANGED <<iRefs, iCalls>>,
             (place = "out") = (iPc[t] = "fin"),
             iUp' = IF place = "holder" THEN 1 .. Last ELSE {}
      PROVE  LibraryInv'
  <2>1. /\ iPc' = [iPc EXCEPT ![t] = place] /\ iIndex' = [iIndex EXCEPT ![t] = 0]
    BY <1>4 DEF Library!Move
  <2>2. Counted' = Counted
    BY <1>0, <1>4, <2>1 DEF Counted, Library!Busy
  <2>3. LibraryTypes'
    BY <1>0, <1>4, <2>1 DEF LibraryTypes
  <2>4. Counted \subseteq {t} /\ \A s \in Callers : Library!Busy(s) => s = t
    BY <1>0, <1>4 DEF LibraryTurns
  <2>5. \A s \in Callers : ~Library!Busy(s)'
    BY <1>0, <1>4, <2>1, <2>4 DEF Library!Busy
  <2>6. LibraryTurns'
    BY <2>5 DEF LibraryTurns
  <2>7. CASE place = "out"
    <3>1. Counted' = {}
      BY <1>0, <2>1, <2>2, <2>4, <2>7 DEF Counted
    <3>2. QED
      BY <1>0, <1>4, <2>2, <2>3, <2>6, <2>7, <3>1 DEF LibraryInv, LibraryAtRest
  <2>8. CASE place = "failed"
    <3>1. iPc'[t] = "failed"
      BY <1>0, <2>1, <2>8
    <3>2. QED
      BY <1>0, <1>4, <2>2, <2>3, <2>6, <2>8, <3>1 DEF LibraryInv, LibraryAtRest
  <2>9. CASE place = "holder"
    <3>1. t \in Counted'
      BY <1>0, <2>1, <2>9 DEF Counted
    <3>2. \A s \in Callers : iPc'[s] # "failed"
      BY <1>0, <2>1, <2>2, <2>4, <2>9 DEF Counted
    <3>3. QED
      BY <1>0, <1>4, <2>2, <2>3, <2>6, <2>9, <3>1, <3>2 DEF LibraryInv, LibraryAtRest
  <2>10. QED
    BY <2>7, <2>8, <2>9
<1>5. ASSUME NEW t \in Callers, Library!Busy(t)
      PROVE  /\ iIndex[t] \in (IF iPc[t] = "rollback" THEN 2 ELSE 1) .. Last
             /\ iUp = 1 .. (IF iPc[t] = "fin" THEN iIndex[t] ELSE iIndex[t] - 1)
  BY <1>0, <1>5 DEF LibraryTurns
<1>6. ASSUME NEW t \in Callers, Library!InitComponent(t)
      PROVE  LibraryInv'
  <2>1. /\ iPc[t] = "init" /\ Library!Busy(t) /\ UNCHANGED <<iRefs, iCalls>>
        /\ iIndex[t] \in 1 .. Last /\ iUp = 1 .. iIndex[t] - 1
    BY <1>5, <1>6 DEF Library!InitComponent, Library!Busy
  <2>2. CASE /\ iUp' = iUp \cup {iIndex[t]}
             /\ IF iIndex[t] = Last THEN Library!Move(t, "holder", 0)
                ELSE Library!Move(t, "init", iIndex[t] + 1)
    <3>1. iUp' = 1 .. iIndex[t]
      BY <2>1, <2>2
    <3>2. CASE iIndex[t] = Last
      BY <1>4, <2>1, <2>2, <3>1, <3>2
    <3>3. CASE iIndex[t] # Last
      <4>1. iIndex[t] + 1 \in 1 .. Last /\ iUp' = 1 .. iIndex[t] + 1 - 1
        BY <2>1, <3>1, <3>3
      <4>2. QED
        BY <1>3, <2>1, <2>2, <3>3, <4>1
    <3>4. QED
      BY <3>2, <3>3
  <2>3. CASE /\ Library!Move(t, IF iIndex[t] = 1 THEN "failed" ELSE "rollback",
                                IF iIndex[t] = 1 THEN 0 ELSE iIndex[t])
             /\ iUp' = iUp
    <3>1. CASE iIndex[t] = 1
      <4>1. iUp' = {}
        BY <2>1, <2>3, <3>1
      <4>2. QED
        BY <1>4, <2>1, <2>3, <3>1, <4>1
    <3>2. CASE iIndex[t] # 1
      BY <1>3, <2>1, <2>3, <3>2
    <3>3. QED
      BY <3>1, <3>2
  <2>4. QED
    BY <1>6, <2>2, <2>3 DEF Library!InitComponent
<1>7. ASSUME NEW t \in Callers, Library!Rollback(t)
      PROVE  LibraryInv'
  <2>1. /\ iPc[t] = "rollback" /\ Library!Busy(t) /\ UNCHANGED <<iRefs, iCalls>>
        /\ iIndex[t] \in 2 .. Last /\ iUp = 1 .. iIndex[t] - 1
        /\ iUp' = iUp \ {iIndex[t] - 1}
        /\ IF iIndex[t] = 2 THEN Library!Move(t, "failed", 0)
           ELSE Library!Move(t, "rollback", iIndex[t] - 1)
    BY <1>5, <1>7 DEF Library!Rollback, Library!Busy
  <2>2. iUp' = 1 .. iIndex[t] - 1 - 1
    BY <2>1
  <2>3. CASE iIndex[t] = 2
    <3>1. iUp' = {}
      BY <2>2, <2>3
    <3>2. QED
      BY <1>4, <2>1, <2>3, <3>1
  <2>4. CASE iIndex[t] # 2
    <3>1. iIndex[t] - 1 \in 1 .. Last /\ iIndex[t] - 1 >= 2
      BY <2>1, <2>4
    <3>2. QED
      BY <1>3, <2>1, <2>2, <2>4, <3>1
  <2>5. QED
    BY <2>3, <2>4
<1>8. ASSUME NEW t \in Callers, Library!FinBegin(t)
      PROVE  LibraryInv'
  <2>1. /\ iPc[t] = "holder" /\ Library!MayEnter
        /\ iCalls' = iCalls /\ iRefs' = iRefs - 1 /\ iUp' = iUp
        /\ iPc' = [iPc EXCEPT ![t] = IF iRefs = 1 THEN "fin" ELSE "out"]
        /\ iIndex' = [iIndex EXCEPT ![t] = IF iRefs = 1 THEN Last ELSE 0]
    BY <1>8 DEF Library!FinBegin, Library!Move
  <2>2. Counted' = Counted \ {t} /\ t \in Counted
    BY <1>0, <2>1 DEF Counted
  <2>3. iRefs' = Cardinality(Counted')
    BY <1>0, <2>1, <2>2, CountedIsFinite, FS_RemoveElement
  <2>4. iRefs # 0
    BY <1>0, <2>2, CountedIsFinite, FS_EmptySet
  <2>5. LibraryTypes'
    BY <1>0, <2>1, <2>4 DEF LibraryTypes
  <2>6. CASE iRefs = 1
    <3>1. Counted' = {}
      <4>1. Cardinality(Counted') = 0 /\ IsFiniteSet(Counted')
        BY <1>0, <2>1, <2>2, <2>3, <2>6, CountedIsFinite, FS_RemoveElement
      <4>2. QED
        BY <4>1, FS_EmptySet
    <3>2. \A s \in Callers : iPc[s] # "failed"
      BY <2>1, <2>2, <3>1 DEF Counted
    <3>3. iUp = 1 .. Last /\ \A s \in Callers : ~Library!Busy(s)
      BY <1>0, <2>1, <2>2, <3>2 DEF LibraryAtRest, Library!MayEnter
    <3>4. /\ iPc'[t] = "fin" /\ iIndex'[t] = Last /\ Library!Busy(t)'
          /\ \A s \in Callers : Library!Busy(s)' => s = t
      BY <1>0, <2>1, <2>6, <3>3 DEF Library!Busy
    <3>5. LibraryTurns'
      BY <2>1, <3>1, <3>3, <3>4 DEF LibraryTurns
    <3>6. LibraryAtRest'
      BY <3>4 DEF LibraryAtRest, Library!MayEnter
    <3>7. QED
      BY <2>3, <2>5, <3>5, <3>6 DEF LibraryInv
  <2>7. CASE iRefs # 1
    <3>1. \A s \in Callers : ~Library!Busy(s)'
      BY <1>0, <2>1, <2>7 DEF Library!Busy, Library!MayEnter
    <3>2. LibraryTurns'
      BY <3>1 DEF LibraryTurns
    <3>3. Counted' # {}
      BY <1>0, <2>1, <2>3, <2>4, <2>7, FS_EmptySet
    <3>4. (\A s \in Callers : iPc[s] # "failed") <=> \A s \in Callers : iPc'[s] # "failed"
      BY <1>0, <2>1, <2>7
    <3>5. LibraryAtRest'
      BY <1>0, <2>1, <2>2, <3>3, <3>4 DEF LibraryAtRest
    <3>6. QED
      BY <2>3, <2>5, <3>2, <3>5 DEF LibraryInv
  <2>8. QED
    BY <2>6, <2>7
<1>9. ASSUME NEW t \in Callers, Library!FinComponent(t)
      PROVE  LibraryInv'
  <2>1. /\ iPc[t] = "fin" /\ Library!Busy(t) /\ UNCHANGED <<iRefs, iCalls>>
        /\ iIndex[t] \in 1 .. Last /\ iUp = 1 .. iIndex[t]
        /\ iUp' = iUp \ {iIndex[t]}
        /\ IF iIndex[t] = 1 THEN Library!Move(t, "out", 0)
           ELSE Library!Move(t, "fin", iIndex[t] - 1)
    BY <1>5, <1>9 DEF Library!FinComponent, Library!Busy
  <2>2. iUp' = 1 .. iIndex[t] - 1
    BY <2>1
  <2>3. CASE iIndex[t] = 1
    <3>1. iUp' = {}
      BY <2>2, <2>3
    <3>2. QED
      BY <1>4, <2>1, <2>3, <3>1
  <2>4. CASE iIndex[t] # 1
    <3>1. iIndex[t] - 1 \in 1 .. Last
      BY <2>1, <2>4
    <3>2. QED
      BY <1>3, <2>1, <2>2, <2>4, <3>1
  <2>5. QED
    BY <2>3, <2>4
<1>10. QED
  BY <1>1, <1>2, <1>6, <1>7, <1>8, <1>9 DEF Library!Next

\* The count is that of the callers it stands for, and the table is up to the
\* index of the one that works on it, with any number of callers and components.
THEOREM LibraryInvariant == Spec => []LibraryInv
<1>1. ASSUME Init PROVE LibraryInv
  <2>1. /\ iRefs = 0 /\ iUp = {} /\ iCalls = 0
        /\ iPc = [t \in Callers |-> "out"] /\ iIndex = [t \in Callers |-> 0]
    BY <1>1, Starts DEF Library!Init
  <2>2. Counted = {} /\ Cardinality({}) = 0
    BY <2>1, FS_EmptySet DEF Counted
  <2>3. LibraryTypes
    <3>1. 0 \in 0 .. MaxCalls /\ 0 \in 0 .. Last
      BY LibraryConstants
    <3>2. iIndex \in [Callers -> 0 .. Last]
      BY <2>1, <3>1
    <3>3. iPc \in [Callers -> {"out", "init", "rollback", "failed", "holder", "fin"}]
      BY <2>1
    <3>4. QED
      BY <2>1, <3>1, <3>2, <3>3 DEF LibraryTypes
  <2>4. LibraryTurns
    BY <2>1 DEF LibraryTurns, Library!Busy
  <2>5. LibraryAtRest
    BY <2>1, <2>2 DEF LibraryAtRest
  <2>6. QED
    BY <2>1, <2>2, <2>3, <2>4, <2>5 DEF LibraryInv
<1>2. LibraryInv /\ [Next]_mcvars => LibraryInv'
  BY Moves, LibraryStep
<1>3. QED
  BY <1>1, <1>2, PTL DEF Spec

\* UpInOrder, NothingLeftUp and FinalizedWereUp of Library, in the part of the
\* graph where the library is initialized: components come up in the table's
\* order and go down in reverse, and a finalizer runs only of what is up.
THEOREM LibraryKeepsOrder == Spec => []LibraryIsInOrder
<1>1. ASSUME LibraryInv PROVE LibraryIsInOrder
  <2>0. /\ iPc \in [Callers -> {"out", "init", "rollback", "failed", "holder", "fin"}]
        /\ iIndex \in [Callers -> 0 .. Last] /\ Last \in Nat
    BY <1>1, LibraryConstants DEF LibraryInv, LibraryTypes
  <2>1. ASSUME NEW t \in Callers, Library!Busy(t)
        PROVE  /\ iIndex[t] \in (IF iPc[t] = "rollback" THEN 2 ELSE 1) .. Last
               /\ iUp = 1 .. (IF iPc[t] = "fin" THEN iIndex[t] ELSE iIndex[t] - 1)
    BY <1>1, <2>1 DEF LibraryInv, LibraryTurns
  <2>2. Library!UpInOrder
    <3>1. CASE Library!MayEnter
      <4>1. iUp = 1 .. Last \/ iUp = 1 .. 0
        BY <1>1, <3>1 DEF LibraryInv, LibraryAtRest
      <4>2. Last \in 0 .. Last /\ 0 \in 0 .. Last
        BY <2>0
      <4>3. QED
        BY <4>1, <4>2 DEF Library!UpInOrder
    <3>2. CASE ~Library!MayEnter
      <4>1. PICK t \in Callers : Library!Busy(t)
        BY <3>2 DEF Library!MayEnter
      <4>2. iIndex[t] \in 0 .. Last /\ iIndex[t] - 1 \in 0 .. Last
        BY <2>0, <2>1, <4>1
      <4>3. QED
        BY <2>1, <4>1, <4>2 DEF Library!UpInOrder
    <3>3. QED
      BY <3>1, <3>2
  <2>3. Library!NothingLeftUp
    <3>1. SUFFICES ASSUME \A t \in Callers : iPc[t] \in {"out", "failed"} PROVE iUp = {}
      BY DEF Library!NothingLeftUp
    <3>2. Library!MayEnter
      BY <3>1 DEF Library!MayEnter, Library!Busy
    <3>3. Counted = {} \/ \E t \in Callers : iPc[t] = "failed"
      BY <3>1 DEF Counted
    <3>4. QED
      BY <1>1, <3>2, <3>3 DEF LibraryInv, LibraryAtRest
  <2>4. Library!FinalizedWereUp
    <3>1. ASSUME NEW t \in Callers, iPc[t] = "fin" PROVE iIndex[t] \in iUp
      BY <2>0, <2>1, <3>1 DEF Library!Busy
    <3>2. ASSUME NEW t \in Callers, iPc[t] = "rollback" PROVE iIndex[t] - 1 \in iUp
      BY <2>0, <2>1, <3>2 DEF Library!Busy
    <3>3. QED
      BY <3>1, <3>2 DEF Library!FinalizedWereUp
  <2>5. QED
    BY <2>2, <2>3, <2>4 DEF LibraryIsInOrder
<1>2. QED
  BY <1>1, LibraryInvariant, PTL

----------------------------------------------------------------------------
(* Strings: the counts *)

Refs == Blocks \cup {Empty, Literal}
Locked == {"owned", "write", "scope", "unlock"}
Appending == Locked \cup {"lock", "allocate"}
StringBlocks == [ref : Nat, text : Seq(Letters), capacity : Nat]
StringCalls ==
    [at : {"idle"}]
    \cup [at : {"copy"}, string : Strings!Handles, source : Strings!Handles, block : Refs]
    \cup [at : {"release", "free"}, string : Strings!Handles, block : Refs]
    \cup [at : Appending, string : Strings!Handles, block : Refs, letter : Letters,
          wrote : BOOLEAN]

Sharers(b) == {h \in Strings!Handles : sPtr[h] = b}
Known == Strings!Allocated \cup {Empty, Literal}

StringTypes ==
    /\ sPtr \in [Strings!Handles -> Refs]
    /\ Strings!Allocated \subseteq Blocks
    /\ sHeap \in [Strings!Allocated -> StringBlocks]
    /\ sCall \in [Threads -> StringCalls]

\* A string is changed by its owner only, and not while it is copied; an
\* append() that has locked its block is alone with it; who frees a block is
\* the last to know of it.
StringTurn(t) ==
    /\ sCall[t].at # "idle" => sCall[t].string[1] = t
    /\ sCall[t].at = "copy" =>
         /\ sCall[t].block = sPtr[sCall[t].source]
         /\ \A s \in Threads : sCall[s].at # "idle" => sCall[s].string # sCall[t].source
    /\ sCall[t].at \in Appending => sCall[t].block = sPtr[sCall[t].string]
    /\ sCall[t].at \in Locked =>
         sCall[t].block \in Strings!Allocated /\ sHeap[sCall[t].block].ref = 2
    /\ sCall[t].at \in {"lock", "release"} => sCall[t].block \in Known
    /\ sCall[t].at = "lock" => sCall[t].block \in Strings!Allocated
    /\ sCall[t].at = "free" =>
         /\ sCall[t].block \in Strings!Allocated /\ sHeap[sCall[t].block].ref = 0
         /\ \A s \in Threads : sCall[s].at = "free" /\ sCall[s].block = sCall[t].block => s = t

StringCounts ==
    \A b \in Strings!Allocated :
        sHeap[b].ref = Cardinality(Sharers(b)) + Cardinality(Strings!InCalls(b))

StringInv ==
    /\ StringTypes /\ StringCounts
    /\ \A t \in Threads : StringTurn(t)
    /\ \A h \in Strings!Handles : sPtr[h] \in Known

LEMMA StringConstants ==
    /\ IsFiniteSet(Threads) /\ IsFiniteSet(Strings!Handles)
    /\ Empty \notin Blocks /\ Literal \notin Blocks /\ Empty # Literal
    /\ \A S : Strings!Cardinality(S) = Cardinality(S)
<1>1. \A S : Strings!IsFiniteSet(S) <=> IsFiniteSet(S)
  BY DEF Strings!IsFiniteSet, IsFiniteSet
<1>2. \A S : Strings!Cardinality(S) = Cardinality(S)
  BY <1>1 DEF Strings!Cardinality, Cardinality
<1>3. IsFiniteSet(Threads) /\ IsFiniteSet(Owned)
  BY <1>1, ObjectsAssumption DEF Strings!SharedStringAssumption
<1>4. IsFiniteSet(Strings!Handles)
  BY <1>3, FS_Product DEF Strings!Handles
<1>5. QED
  BY <1>2, <1>3, <1>4, ObjectsAssumption DEF Strings!SharedStringAssumption

\* What the record of a call holds.
LEMMA StringCall ==
    ASSUME StringTypes, NEW t \in Threads
    PROVE  /\ sCall[t].at \in {"idle", "copy", "release", "free"} \cup Appending
           /\ sCall[t].at # "idle" => sCall[t].string \in Strings!Handles /\ sCall[t].block \in Refs
           /\ sCall[t].at = "copy" => sCall[t].source \in Strings!Handles
           /\ sCall[t].at \in Appending => sCall[t].letter \in Letters
<1>1. sCall[t] \in StringCalls
  BY DEF StringTypes
<1>2. QED
  BY <1>1 DEF StringCalls, Appending, Locked

LEMMA StringGoto ==
    ASSUME StringTypes, NEW t \in Threads, NEW place, Strings!Goto(t, place),
           \/ sCall[t].at \in Appending /\ place \in Appending
           \/ sCall[t].at = "release" /\ place = "free"
    PROVE  /\ sCall' \in [Threads -> StringCalls]
           /\ sCall'[t].at = place /\ sCall'[t].string = sCall[t].string
           /\ sCall'[t].block = sCall[t].block
           /\ \A s \in Threads \ {t} : sCall'[s] = sCall[s]
<1>1. sCall[t] \in StringCalls /\ sCall \in [Threads -> StringCalls]
  BY DEF StringTypes
<1>2. sCall' = [sCall EXCEPT ![t] = [sCall[t] EXCEPT !.at = place]]
  BY <1>1 DEF Strings!Goto
<1>3. CASE sCall[t].at \in Appending /\ place \in Appending
  <2>1. sCall[t] \in [at : Appending, string : Strings!Handles, block : Refs,
                      letter : Letters, wrote : BOOLEAN]
    BY <1>1, <1>3 DEF StringCalls, Appending, Locked
  <2>2. [sCall[t] EXCEPT !.at = place] \in StringCalls
    BY <1>3, <2>1 DEF StringCalls
  <2>3. QED
    BY <1>1, <1>2, <2>1, <2>2
<1>4. CASE sCall[t].at = "release" /\ place = "free"
  <2>1. sCall[t] \in [at : {"release", "free"}, string : Strings!Handles, block : Refs]
    BY <1>1, <1>4 DEF StringCalls, Appending, Locked
  <2>2. [sCall[t] EXCEPT !.at = place] \in StringCalls
    BY <1>4, <2>1 DEF StringCalls
  <2>3. QED
    BY <1>1, <1>2, <2>1, <2>2
<1>5. QED
  BY <1>3, <1>4

LEMMA StringReturn ==
    ASSUME StringTypes, NEW t \in Threads, Strings!Return(t)
    PROVE  /\ sCall' \in [Threads -> StringCalls] /\ sCall'[t].at = "idle"
           /\ \A s \in Threads \ {t} : sCall'[s] = sCall[s]
<1>1. Strings!Idle \in StringCalls /\ Strings!Idle.at = "idle"
  BY DEF Strings!Idle, StringCalls
<1>2. QED
  BY <1>1 DEF StringTypes, Strings!Return

LEMMA StringToRelease ==
    ASSUME StringTypes, NEW t \in Threads, NEW h \in Strings!Handles, NEW b \in Refs,
           Strings!ToRelease(t, h, b)
    PROVE  /\ sCall' \in [Threads -> StringCalls]
           /\ sCall'[t].at = "release" /\ sCall'[t].string = h /\ sCall'[t].block = b
           /\ \A s \in Threads \ {t} : sCall'[s] = sCall[s]
<1>1. [at |-> "release", string |-> h, block |-> b] \in StringCalls
  BY DEF StringCalls
<1>2. QED
  BY <1>1 DEF StringTypes, Strings!ToRelease

\* A change of the count of one block.
LEMMA StringRef ==
    ASSUME StringTypes, NEW b \in Strings!Allocated, NEW n \in Nat,
           sHeap' = [sHeap EXCEPT ![b].ref = n]
    PROVE  /\ Strings!Allocated' = Strings!Allocated
           /\ sHeap' \in [Strings!Allocated -> StringBlocks]
           /\ sHeap'[b].ref = n /\ \A x \in Strings!Allocated \ {b} : sHeap'[x] = sHeap[x]
<1>1. sHeap[b] \in StringBlocks /\ sHeap \in [Strings!Allocated -> StringBlocks]
  BY DEF StringTypes
<1>2. [sHeap[b] EXCEPT !.ref = n] \in StringBlocks /\ [sHeap[b] EXCEPT !.ref = n].ref = n
  BY <1>1 DEF StringBlocks
<1>3. sHeap' = [sHeap EXCEPT ![b] = [sHeap[b] EXCEPT !.ref = n]]
  BY <1>1
<1>4. QED
  BY <1>1, <1>2, <1>3 DEF Strings!Allocated

\* A new block.
LEMMA StringAllocate ==
    ASSUME StringTypes, NEW b \in Blocks \ Strings!Allocated, NEW text \in Seq(Letters),
           NEW capacity \in Nat, Strings!Allocate(b, text, capacity)
    PROVE  /\ Strings!Allocated' = Strings!Allocated \cup {b}
           /\ sHeap' \in [Strings!Allocated' -> StringBlocks]
           /\ sHeap'[b].ref = 1 /\ \A x \in Strings!Allocated : sHeap'[x] = sHeap[x]
<1>1. [ref |-> 1, text |-> text, capacity |-> capacity] \in StringBlocks
  BY DEF StringBlocks
<1>2. Strings!Allocated' = Strings!Allocated \cup {b}
  BY DEF Strings!Allocate, Strings!Allocated
<1>3. QED
  BY <1>1, <1>2 DEF Strings!Allocate, StringTypes

\* How many share a block when one string turns to another.
LEMMA SharersMove ==
    ASSUME StringTypes, NEW h \in Strings!Handles, NEW b \in Refs,
           sPtr' = [sPtr EXCEPT ![h] = b], NEW x
    PROVE  /\ Cardinality(Sharers(x)) \in Nat
           /\ x # b /\ x # sPtr[h] => Cardinality(Sharers(x)') = Cardinality(Sharers(x))
           /\ x = b /\ x # sPtr[h] => Cardinality(Sharers(x)') = Cardinality(Sharers(x)) + 1
           /\ x # b /\ x = sPtr[h] => Cardinality(Sharers(x)') = Cardinality(Sharers(x)) - 1
           /\ x = b /\ x = sPtr[h] => Cardinality(Sharers(x)') = Cardinality(Sharers(x))
<1>1. IsFiniteSet(Sharers(x)) /\ Cardinality(Sharers(x)) \in Nat
  <2>1. Sharers(x) \subseteq Strings!Handles
    BY DEF Sharers
  <2>2. QED
    BY <2>1, StringConstants, FS_Subset, FS_CardinalityType
<1>2. Sharers(x)' = IF x = b THEN Sharers(x) \cup {h} ELSE Sharers(x) \ {h}
  BY DEF Sharers, StringTypes
<1>3. h \in Sharers(x) <=> x = sPtr[h]
  BY DEF Sharers
<1>4. /\ Cardinality(Sharers(x) \cup {h}) = (IF h \in Sharers(x) THEN Cardinality(Sharers(x)) ELSE Cardinality(Sharers(x)) + 1)
      /\ Cardinality(Sharers(x) \ {h}) = (IF h \in Sharers(x) THEN Cardinality(Sharers(x)) - 1 ELSE Cardinality(Sharers(x)))
  BY <1>1, FS_AddElement, FS_RemoveElement
<1>5. QED
  BY <1>1, <1>2, <1>3, <1>4

Counting == {"release"} \cup Locked
Counts(t, b) == sCall[t].at \in Counting /\ sCall[t].block = b

\* How many calls count for a block when one of them moves on.
LEMMA CallsMove ==
    ASSUME StringTypes, NEW t \in Threads, \A s \in Threads \ {t} : sCall'[s] = sCall[s], NEW x
    PROVE  /\ Cardinality(Strings!InCalls(x)) \in Nat
           /\ (Counts(t, x) <=> Counts(t, x)') =>
                Cardinality(Strings!InCalls(x)') = Cardinality(Strings!InCalls(x))
           /\ ~Counts(t, x) /\ Counts(t, x)' =>
                Cardinality(Strings!InCalls(x)') = Cardinality(Strings!InCalls(x)) + 1
           /\ Counts(t, x) /\ ~Counts(t, x)' =>
                Cardinality(Strings!InCalls(x)') = Cardinality(Strings!InCalls(x)) - 1
<1> DEFINE C == Strings!InCalls(x)
<1>1. C = {s \in Threads : Counts(s, x)} /\ C' = {s \in Threads : Counts(s, x)'}
  BY DEF Strings!InCalls, Counts, Counting, Locked
<1>2. IsFiniteSet(C) /\ Cardinality(C) \in Nat
  <2>1. C \subseteq Threads
    BY <1>1
  <2>2. QED
    BY <2>1, StringConstants, FS_Subset, FS_CardinalityType
<1>3. \A s \in Threads \ {t} : Counts(s, x)' = Counts(s, x)
  BY DEF Counts
<1>4. C' = IF Counts(t, x)' THEN C \cup {t} ELSE C \ {t}
  BY <1>1, <1>3
<1>5. t \in C <=> Counts(t, x)
  BY <1>1
<1>6. /\ Cardinality(C \cup {t}) = (IF t \in C THEN Cardinality(C) ELSE Cardinality(C) + 1)
      /\ Cardinality(C \ {t}) = (IF t \in C THEN Cardinality(C) - 1 ELSE Cardinality(C))
  BY <1>2, FS_AddElement, FS_RemoveElement
<1>7. C \cup {t} = C \/ t \notin C
  OBVIOUS
<1> HIDE DEF C
<1>8. QED
  BY <1>2, <1>4, <1>5, <1>6 DEF C

\* Two of a set are at least two.
LEMMA AtLeast ==
    ASSUME NEW S, IsFiniteSet(S)
    PROVE  /\ Cardinality(S) \in Nat
           /\ \A x \in S : Cardinality(S) >= 1
           /\ \A x, y \in S : x # y => Cardinality(S) >= 2
<1>1. Cardinality(S) \in Nat /\ \A x \in S : Cardinality(S) # 0
  BY FS_CardinalityType, FS_EmptySet
<1>2. ASSUME NEW x \in S, NEW y \in S, x # y PROVE Cardinality(S) >= 2
  <2>1. IsFiniteSet(S \ {x}) /\ Cardinality(S \ {x}) = Cardinality(S) - 1
    BY FS_RemoveElement
  <2>2. Cardinality(S \ {x}) # 0
    BY <1>2, <2>1, FS_EmptySet
  <2>3. QED
    BY <1>1, <2>1, <2>2
<1>3. QED
  BY <1>1, <1>2

LEMMA CountsAreHigh ==
    ASSUME StringInv, NEW b \in Strings!Allocated
    PROVE  /\ sHeap[b].ref \in Nat
           /\ \A h \in Strings!Handles : sPtr[h] = b => sHeap[b].ref >= 1
           /\ \A t \in Threads : Counts(t, b) => sHeap[b].ref >= 1
           /\ \A h \in Strings!Handles, t \in Threads :
                sPtr[h] = b /\ Counts(t, b) => sHeap[b].ref >= 2
           /\ \A h, g \in Strings!Handles, t \in Threads :
                h # g /\ sPtr[h] = b /\ sPtr[g] = b /\ Counts(t, b) => sHeap[b].ref >= 3
           /\ \A h \in Strings!Handles, s, t \in Threads :
                s # t /\ sPtr[h] = b /\ Counts(s, b) /\ Counts(t, b) => sHeap[b].ref >= 3
<1> DEFINE S == Sharers(b)
           C == Strings!InCalls(b)
<1>1. /\ \A h \in Strings!Handles : sPtr[h] = b => h \in S
      /\ \A t \in Threads : Counts(t, b) => t \in C
  BY DEF Sharers, Strings!InCalls, Counts, Counting, Locked
<1>2. S \subseteq Strings!Handles /\ C \subseteq Threads
  BY DEF Sharers, Strings!InCalls
<1>3. IsFiniteSet(S) /\ IsFiniteSet(C)
  BY <1>2, StringConstants, FS_Subset
<1>4. sHeap[b].ref = Cardinality(S) + Cardinality(C)
  BY DEF StringInv, StringCounts
<1> HIDE DEF S, C
<1>5. /\ Cardinality(S) \in Nat /\ Cardinality(C) \in Nat
      /\ \A x \in S : Cardinality(S) >= 1
      /\ \A x, y \in S : x # y => Cardinality(S) >= 2
      /\ \A x \in C : Cardinality(C) >= 1
      /\ \A x, y \in C : x # y => Cardinality(C) >= 2
  BY <1>3, AtLeast
<1>6. QED
  BY <1>1, <1>4, <1>5

\* The calls of the others, when the step of t leaves them what they rely on.
LEMMA StringOthers ==
    ASSUME StringInv, NEW t \in Threads,
           \A s \in Threads \ {t} : sCall'[s] = sCall[s],
           \A h \in Strings!Handles : h[1] # t => sPtr'[h] = sPtr[h],
           \A s \in Threads \ {t} : sCall[s].at = "copy" =>
               /\ sPtr'[sCall[s].source] = sPtr[sCall[s].source]
               /\ sCall'[t].at # "idle" => sCall'[t].string # sCall[s].source,
           \A s \in Threads \ {t} :
               sCall[s].at \in Appending \cup {"release", "free"} /\ sCall[s].block \in Strings!Allocated =>
                   sCall[s].block \in Strings!Allocated',
           \A s \in Threads \ {t} :
               sCall[s].at \in Locked \cup {"free"} => sHeap'[sCall[s].block].ref = sHeap[sCall[s].block].ref,
           sCall'[t].at = "free" =>
               \A s \in Threads \ {t} : sCall[s].at = "free" => sCall[s].block # sCall'[t].block,
           NEW s \in Threads \ {t}
    PROVE  StringTurn(s)'
<1>1. StringTurn(s) /\ StringTypes
  BY DEF StringInv
<1>2. /\ sCall[s].at # "idle" => sCall[s].string \in Strings!Handles
      /\ sCall'[s] = sCall[s]
  BY <1>1, StringCall
<1>3. sCall'[s].at # "idle" => sCall'[s].string[1] = s
  BY <1>1, <1>2 DEF StringTurn
<1>4. ASSUME sCall'[s].at = "copy"
      PROVE  /\ sCall'[s].block = sPtr'[sCall'[s].source]
             /\ \A r \in Threads : sCall'[r].at # "idle" => sCall'[r].string # sCall'[s].source
  <2>1. sCall[s].at = "copy" /\ sCall[s].block = sPtr[sCall[s].source]
    BY <1>1, <1>2, <1>4 DEF StringTurn
  <2>2. \A r \in Threads \ {t} : sCall'[r].at # "idle" => sCall'[r].string # sCall'[s].source
    BY <1>1, <1>2, <2>1 DEF StringTurn
  <2>3. QED
    BY <1>2, <2>1, <2>2
<1>5. ASSUME sCall'[s].at \in Appending PROVE sCall'[s].block = sPtr'[sCall'[s].string]
  <2>1. sCall[s].at # "idle" /\ sCall[s].at \in Appending
    BY <1>2, <1>5 DEF Appending, Locked
  <2>2. QED
    BY <1>1, <1>2, <2>1 DEF StringTurn
<1>6. ASSUME sCall'[s].at \in Locked
      PROVE  sCall'[s].block \in Strings!Allocated' /\ sHeap'[sCall'[s].block].ref = 2
  BY <1>1, <1>2, <1>6 DEF StringTurn, Appending
<1>7. sCall'[s].at \in {"lock", "release"} => sCall'[s].block \in Known'
  BY <1>1, <1>2 DEF StringTurn, Appending, Known
<1>8. sCall'[s].at = "lock" => sCall'[s].block \in Strings!Allocated'
  BY <1>1, <1>2 DEF StringTurn, Appending
<1>9. ASSUME sCall'[s].at = "free"
      PROVE  /\ sCall'[s].block \in Strings!Allocated' /\ sHeap'[sCall'[s].block].ref = 0
             /\ \A r \in Threads : sCall'[r].at = "free" /\ sCall'[r].block = sCall'[s].block => r = s
  <2>1. /\ sCall[s].block \in Strings!Allocated /\ sHeap[sCall[s].block].ref = 0
        /\ \A r \in Threads : sCall[r].at = "free" /\ sCall[r].block = sCall[s].block => r = s
    BY <1>1, <1>2, <1>9 DEF StringTurn
  <2>2. \A r \in Threads \ {t} : sCall'[r].at = "free" /\ sCall'[r].block = sCall'[s].block => r = s
    BY <1>2, <2>1
  <2>3. QED
    BY <1>2, <1>9, <2>1, <2>2
<1>10. QED
  BY <1>3, <1>4, <1>5, <1>6, <1>7, <1>8, <1>9 DEF StringTurn

\* A step that changes no pointer and no count.
LEMMA StringCallStep ==
    ASSUME StringInv, NEW t \in Threads, UNCHANGED sPtr,
           Strings!Allocated' = Strings!Allocated,
           sHeap' \in [Strings!Allocated -> StringBlocks],
           \A x \in Strings!Allocated : sHeap'[x].ref = sHeap[x].ref,
           sCall' \in [Threads -> StringCalls],
           \A s \in Threads \ {t} : sCall'[s] = sCall[s],
           \A x \in Strings!Allocated : (Counts(t, x) <=> Counts(t, x)'),
           sCall'[t].at # "free",
           \A s \in Threads \ {t} : sCall[s].at = "copy" /\ sCall'[t].at # "idle" =>
               sCall'[t].string # sCall[s].source,
           StringTurn(t)'
    PROVE  StringInv'
<1>1. StringTypes'
  BY DEF StringInv, StringTypes
<1>2. \A s \in Threads \ {t} : sCall[s].at \in Locked \cup {"free"} => sCall[s].block \in Strings!Allocated
  BY DEF StringInv, StringTurn
<1>3. \A s \in Threads \ {t} : StringTurn(s)'
  BY <1>2, StringOthers
<1>4. StringCounts'
  <2>1. ASSUME NEW x \in Strings!Allocated
        PROVE  sHeap'[x].ref = Cardinality(Sharers(x)') + Cardinality(Strings!InCalls(x)')
    <3>1. Sharers(x)' = Sharers(x)
      BY DEF Sharers
    <3>2. Cardinality(Strings!InCalls(x)') = Cardinality(Strings!InCalls(x))
      BY <2>1, CallsMove DEF StringInv
    <3>3. QED
      BY <2>1, <3>1, <3>2 DEF StringInv, StringCounts
  <2>2. QED
    BY <2>1 DEF StringCounts
<1>5. \A h \in Strings!Handles : sPtr'[h] \in Known'
  BY DEF StringInv, Known
<1>6. QED
  BY <1>1, <1>3, <1>4, <1>5 DEF StringInv

\* A step that changes the count of one block, by one reference that a call
\* takes or gives back.
LEMMA StringRefStep ==
    ASSUME StringInv, NEW t \in Threads, UNCHANGED sPtr,
           NEW b \in Strings!Allocated, NEW n \in Nat,
           sHeap' = [sHeap EXCEPT ![b].ref = n],
           sCall' \in [Threads -> StringCalls],
           \A s \in Threads \ {t} : sCall'[s] = sCall[s],
           \/ n = sHeap[b].ref + 1 /\ ~Counts(t, b) /\ Counts(t, b)'
           \/ n = sHeap[b].ref - 1 /\ Counts(t, b) /\ ~Counts(t, b)',
           \A x \in Strings!Allocated \ {b} : (Counts(t, x) <=> Counts(t, x)'),
           \A s \in Threads \ {t} :
               sCall[s].at \in Locked \cup {"free"} => sCall[s].block # b,
           sCall[t].at # "idle", sCall'[t].at # "idle" => sCall'[t].string = sCall[t].string,
           StringTurn(t)'
    PROVE  StringInv'
<1>0. StringTypes
  BY DEF StringInv
<1>1. /\ Strings!Allocated' = Strings!Allocated
      /\ sHeap' \in [Strings!Allocated -> StringBlocks]
      /\ sHeap'[b].ref = n /\ \A x \in Strings!Allocated \ {b} : sHeap'[x] = sHeap[x]
  BY <1>0, StringRef
<1>2. StringTypes'
  BY <1>0, <1>1 DEF StringTypes
<1>3. ASSUME NEW s \in Threads \ {t} PROVE StringTurn(s)'
  <2>1. \A r \in Threads \ {t} :
               sCall[r].at \in Locked \cup {"free"} => sHeap'[sCall[r].block].ref = sHeap[sCall[r].block].ref
    BY <1>1 DEF StringInv, StringTurn
  <2>2. \A r \in Threads \ {t} : sCall[r].at = "copy" => sCall[t].string # sCall[r].source
    BY DEF StringInv, StringTurn
  <2>3. sCall'[t].at = "free" =>
               \A r \in Threads \ {t} : sCall[r].at = "free" => sCall[r].block # sCall'[t].block
    <3>1. SUFFICES ASSUME sCall'[t].at = "free", NEW r \in Threads \ {t}, sCall[r].at = "free"
                   PROVE  sCall[r].block # sCall'[t].block
      OBVIOUS
    <3>2. sCall'[t].block \in Strings!Allocated /\ sHeap'[sCall'[t].block].ref = 0
      BY <1>1, <3>1 DEF StringTurn
    <3>3. CASE sCall'[t].block = b
      BY <3>1, <3>3
    <3>4. CASE sCall'[t].block # b
      <4>1. UNCHANGED sCall[r] /\ \A x \in Threads : sCall'[x].at = "free" /\ sCall'[x].block = sCall'[t].block => x = t
        BY <3>1 DEF StringTurn
      <4>2. QED
        BY <3>1, <4>1
    <3>5. QED
      BY <3>3, <3>4
  <2>4. QED
    BY <1>1, <2>1, <2>2, <2>3, StringOthers
<1>4. StringCounts'
  <2>1. ASSUME NEW x \in Strings!Allocated
        PROVE  sHeap'[x].ref = Cardinality(Sharers(x)') + Cardinality(Strings!InCalls(x)')
    <3>1. Sharers(x)' = Sharers(x)
      BY DEF Sharers
    <3>2. /\ sHeap[x].ref = Cardinality(Sharers(x)) + Cardinality(Strings!InCalls(x))
          /\ Cardinality(Sharers(x)) \in Nat
      <4>1. Sharers(x) \subseteq Strings!Handles
        BY DEF Sharers
      <4>2. QED
        BY <4>1, StringConstants, FS_Subset, FS_CardinalityType DEF StringInv, StringCounts
    <3>3. /\ Cardinality(Strings!InCalls(x)) \in Nat
          /\ (Counts(t, x) <=> Counts(t, x)') =>
               Cardinality(Strings!InCalls(x)') = Cardinality(Strings!InCalls(x))
          /\ ~Counts(t, x) /\ Counts(t, x)' =>
               Cardinality(Strings!InCalls(x)') = Cardinality(Strings!InCalls(x)) + 1
          /\ Counts(t, x) /\ ~Counts(t, x)' =>
               Cardinality(Strings!InCalls(x)') = Cardinality(Strings!InCalls(x)) - 1
      BY <1>0, CallsMove
    <3>4. CASE x = b
      BY <1>1, <3>1, <3>2, <3>3, <3>4
    <3>5. CASE x # b
      BY <1>1, <3>1, <3>2, <3>3, <3>5
    <3>6. QED
      BY <3>4, <3>5
  <2>2. QED
    BY <1>1, <2>1 DEF StringCounts
<1>5. \A h \in Strings!Handles : sPtr'[h] \in Known'
  BY <1>1 DEF StringInv, Known
<1>6. QED
  BY <1>2, <1>3, <1>4, <1>5 DEF StringInv

\* A step that turns strings of t, which nobody copies, to other blocks.
LEMMA StringPtrStep ==
    ASSUME StringInv, NEW t \in Threads, StringTypes', StringCounts',
           Strings!Allocated \subseteq Strings!Allocated',
           \A s \in Threads \ {t} : sCall'[s] = sCall[s],
           \A k \in Strings!Handles : sPtr'[k] # sPtr[k] =>
               /\ k[1] = t /\ sPtr'[k] \in Known'
               /\ \A s \in Threads \ {t} : sCall[s].at = "copy" => sCall[s].source # k,
           \A s \in Threads \ {t} : sCall[s].at = "copy" /\ sCall'[t].at # "idle" =>
               sCall'[t].string # sCall[s].source,
           \A s \in Threads \ {t} :
               sCall[s].at \in Locked \cup {"free"} => sHeap'[sCall[s].block].ref = sHeap[sCall[s].block].ref,
           sCall'[t].at # "free",
           StringTurn(t)'
    PROVE  StringInv'
<1>1. \A s \in Threads : sCall[s].at = "copy" => sCall[s].source \in Strings!Handles
  BY StringCall DEF StringInv
<1>2. \A s \in Threads \ {t} : StringTurn(s)'
  BY <1>1, StringOthers
<1>3. \A k \in Strings!Handles : sPtr'[k] \in Known'
  BY DEF StringInv, Known
<1>4. QED
  BY <1>2, <1>3 DEF StringInv

\* Nobody knows of a block that is not allocated.
LEMMA NobodyKnows ==
    ASSUME StringInv, NEW b \in Blocks \ Strings!Allocated
    PROVE  /\ Cardinality(Sharers(b)) = 0 /\ Cardinality(Strings!InCalls(b)) = 0
           /\ \A t \in Threads : ~Counts(t, b)
           /\ \A h \in Strings!Handles : sPtr[h] # b
<1>1. b \notin Known
  BY StringConstants DEF Known
<1>2. \A h \in Strings!Handles : sPtr[h] # b
  BY <1>1 DEF StringInv
<1>3. \A t \in Threads : ~Counts(t, b)
  BY <1>1 DEF StringInv, StringTurn, Counts, Counting, Known
<1>4. Sharers(b) = {} /\ Strings!InCalls(b) = {}
  BY <1>2, <1>3 DEF Sharers, Strings!InCalls, Counts, Counting, Locked
<1>5. QED
  BY <1>2, <1>3, <1>4, FS_EmptySet

\* Copying, assigning and destroying.
LEMMA CopyCountStep ==
    ASSUME StringInv, NEW t \in Threads, Strings!CopyCount(t)
    PROVE  StringInv'
<1>0. PICK b, h, old : b = sCall[t].block /\ h = sCall[t].string /\ old = sPtr[h]
  OBVIOUS
<1>1. /\ StringTypes /\ sCall[t].at = "copy" /\ h \in Strings!Handles /\ h[1] = t
      /\ b \in Refs /\ old \in Known /\ old \in Refs /\ b \in Known
      /\ sCall[t].source \in Strings!Handles /\ b = sPtr[sCall[t].source]
      /\ \A s \in Threads : sCall[s].at # "idle" => sCall[s].string # sCall[t].source
  <2>1. StringTypes /\ StringTurn(t) /\ sCall[t].at = "copy"
    BY DEF StringInv, Strings!CopyCount, Strings!At
  <2>2. h \in Strings!Handles /\ b \in Refs /\ sCall[t].source \in Strings!Handles
    BY <1>0, <2>1, StringCall
  <2>3. QED
    BY <1>0, <2>1, <2>2 DEF StringTurn, StringInv, StringTypes
<1>2. /\ sPtr' = [sPtr EXCEPT ![h] = b] /\ Strings!ToRelease(t, h, old)
      /\ sHeap' = IF b \in Strings!Allocated THEN [sHeap EXCEPT ![b].ref = @ + 1] ELSE sHeap
  BY <1>0 DEF Strings!CopyCount
<1>3. /\ sCall' \in [Threads -> StringCalls]
      /\ sCall'[t].at = "release" /\ sCall'[t].string = h /\ sCall'[t].block = old
      /\ \A s \in Threads \ {t} : sCall'[s] = sCall[s]
  BY <1>1, <1>2, StringToRelease
<1>4. /\ Strings!Allocated' = Strings!Allocated
      /\ sHeap' \in [Strings!Allocated -> StringBlocks]
      /\ \A x \in Strings!Allocated :
           sHeap[x].ref \in Nat /\ sHeap'[x].ref = sHeap[x].ref + (IF x = b THEN 1 ELSE 0)
  <2>0. \A x \in Strings!Allocated : sHeap[x].ref \in Nat
    BY CountsAreHigh
  <2>1. CASE b \in Strings!Allocated
    <3>1. PICK n \in Nat : n = sHeap[b].ref + 1
      BY <2>0, <2>1
    <3>2. sHeap' = [sHeap EXCEPT ![b].ref = n]
      BY <1>2, <2>1, <3>1
    <3>3. /\ Strings!Allocated' = Strings!Allocated
          /\ sHeap' \in [Strings!Allocated -> StringBlocks]
          /\ sHeap'[b].ref = n /\ \A x \in Strings!Allocated \ {b} : sHeap'[x] = sHeap[x]
      <4>1. StringTypes
        BY <1>1
      <4>2. QED
        BY <2>1, <3>2, <4>1, StringRef
    <3>4. QED
      BY <2>0, <3>1, <3>3
  <2>2. CASE b \notin Strings!Allocated
    BY <1>1, <1>2, <2>0, <2>2 DEF StringTypes, Strings!Allocated
  <2>3. QED
    BY <2>1, <2>2
<1>5. StringTypes'
  BY <1>1, <1>2, <1>3, <1>4 DEF StringTypes
<1>6. StringCounts'
  <2>1. ASSUME NEW x \in Strings!Allocated
        PROVE  sHeap'[x].ref = Cardinality(Sharers(x)') + Cardinality(Strings!InCalls(x)')
    <3>1. /\ ~Counts(t, x) /\ (Counts(t, x)' <=> x = old)
      BY <1>1, <1>3 DEF Counts, Counting, Locked
    <3>2. /\ Cardinality(Sharers(x)) \in Nat
          /\ x # b /\ x # old => Cardinality(Sharers(x)') = Cardinality(Sharers(x))
          /\ x = b /\ x # old => Cardinality(Sharers(x)') = Cardinality(Sharers(x)) + 1
          /\ x # b /\ x = old => Cardinality(Sharers(x)') = Cardinality(Sharers(x)) - 1
          /\ x = b /\ x = old => Cardinality(Sharers(x)') = Cardinality(Sharers(x))
      <4>1. StringTypes /\ h \in Strings!Handles /\ b \in Refs /\ sPtr' = [sPtr EXCEPT ![h] = b]
        BY <1>1, <1>2
      <4>2. old = sPtr[h]
        BY <1>0
      <4>3. QED
        BY <4>1, <4>2, SharersMove
    <3>3. /\ Cardinality(Strings!InCalls(x)) \in Nat
          /\ x # old => Cardinality(Strings!InCalls(x)') = Cardinality(Strings!InCalls(x))
          /\ x = old => Cardinality(Strings!InCalls(x)') = Cardinality(Strings!InCalls(x)) + 1
      BY <1>1, <1>3, <3>1, CallsMove
    <3>4. sHeap[x].ref = Cardinality(Sharers(x)) + Cardinality(Strings!InCalls(x))
      BY <2>1 DEF StringInv, StringCounts
    <3>5. QED
      BY <1>4, <2>1, <3>2, <3>3, <3>4
  <2>2. QED
    BY <1>4, <2>1 DEF StringCounts
<1>7. \A s \in Threads \ {t} :
          sCall[s].at \in Locked \cup {"free"} => sHeap'[sCall[s].block].ref = sHeap[sCall[s].block].ref
  <2>1. SUFFICES ASSUME NEW s \in Threads \ {t}, sCall[s].at \in Locked \cup {"free"}
                 PROVE  sCall[s].block \in Strings!Allocated /\ sCall[s].block # b
    BY <1>4
  <2>2. StringTurn(s) /\ sCall[s].block \in Strings!Allocated
    BY <2>1 DEF StringInv, StringTurn
  <2>3. ASSUME sCall[s].block = b PROVE FALSE
    <3>1. CASE sCall[s].at = "free"
      BY <1>1, <2>2, <2>3, <3>1, CountsAreHigh DEF StringTurn
    <3>2. CASE sCall[s].at \in Locked
      <4>1. sCall[s].at # "idle" /\ sCall[s].at \in Appending /\ Counts(s, b)
        BY <2>3, <3>2 DEF Locked, Appending, Counts, Counting
      <4>2. /\ sCall[s].string \in Strings!Handles /\ sPtr[sCall[s].string] = b
            /\ sCall[s].string # sCall[t].source /\ sHeap[b].ref = 2
        BY <1>1, <2>2, <2>3, <3>2, <4>1, StringCall DEF StringTurn
      <4>3. QED
        BY <1>1, <2>2, <2>3, <4>1, <4>2, CountsAreHigh
    <3>3. QED
      BY <2>1, <3>1, <3>2
  <2>4. QED
    BY <2>2, <2>3
<1>8. StringTurn(t)'
  <2>1. sCall'[t].block \in Known' /\ sCall'[t].string[1] = t /\ sCall'[t].at = "release"
    BY <1>1, <1>3, <1>4 DEF Known
  <2>2. QED
    BY <2>1 DEF StringTurn, Appending, Locked
<1>9. \A s \in Threads \ {t} : sCall[s].at = "copy" => h # sCall[s].source
  BY <1>0, <1>1 DEF StringInv, StringTurn
<1>10. \A k \in Strings!Handles : sPtr'[k] # sPtr[k] => k = h /\ sPtr'[k] = b
  BY <1>1, <1>2 DEF StringTypes
<1>11. b \in Known'
  BY <1>1, <1>4 DEF Known
<1>12. QED
  BY <1>1, <1>3, <1>4, <1>5, <1>6, <1>7, <1>8, <1>9, <1>10, <1>11, StringPtrStep

LEMMA ReleaseStep ==
    ASSUME StringInv, NEW t \in Threads, Strings!Release(t)
    PROVE  StringInv'
<1>0. PICK b : b = sCall[t].block
  OBVIOUS
<1>1. /\ StringTypes /\ StringTurn(t) /\ sCall[t].at = "release" /\ b \in Known /\ sPtr' = sPtr
      /\ sCall[t].string[1] = t
  BY <1>0 DEF StringInv, Strings!Release, Strings!At, StringTurn
<1>2. CASE b \notin Strings!Allocated
  <2>1. Strings!Return(t) /\ sHeap' = sHeap
    BY <1>0, <1>2 DEF Strings!Release
  <2>2. /\ sCall' \in [Threads -> StringCalls] /\ sCall'[t].at = "idle"
        /\ \A s \in Threads \ {t} : sCall'[s] = sCall[s]
    BY <1>1, <2>1, StringReturn
  <2>3. \A x \in Strings!Allocated : ~Counts(t, x) /\ ~Counts(t, x)'
    BY <1>0, <1>2, <2>2 DEF Counts, Counting, Locked
  <2>4. StringTurn(t)'
    BY <2>2 DEF StringTurn, Appending, Locked
  <2>5. Strings!Allocated' = Strings!Allocated /\ sHeap' \in [Strings!Allocated -> StringBlocks]
    BY <1>1, <2>1 DEF StringTypes, Strings!Allocated
  <2>6. QED
    BY <1>1, <2>1, <2>2, <2>3, <2>4, <2>5, StringCallStep
<1>3. CASE b \in Strings!Allocated
  <2>1. Counts(t, b)
    BY <1>0, <1>1 DEF Counts, Counting
  <2>2. sHeap[b].ref \in Nat /\ sHeap[b].ref >= 1
    BY <1>3, <2>1, CountsAreHigh
  <2>0. PICK n \in Nat : n = sHeap[b].ref - 1
    BY <2>2
  <2>3. /\ sHeap' = [sHeap EXCEPT ![b].ref = n]
        /\ IF sHeap[b].ref = 1 THEN Strings!Goto(t, "free") ELSE Strings!Return(t)
    BY <1>0, <1>3, <2>0 DEF Strings!Release
  <2>4. /\ sCall' \in [Threads -> StringCalls]
        /\ \A s \in Threads \ {t} : sCall'[s] = sCall[s]
        /\ \/ sCall'[t].at = "idle"
           \/ /\ sCall'[t].at = "free" /\ n = 0
              /\ sCall'[t].string = sCall[t].string /\ sCall'[t].block = b
    <3>1. CASE sHeap[b].ref = 1
      BY <1>0, <1>1, <2>0, <2>3, <3>1, StringGoto
    <3>2. CASE sHeap[b].ref # 1
      BY <1>1, <2>3, <3>2, StringReturn
    <3>3. QED
      BY <3>1, <3>2
  <2>5. /\ Strings!Allocated' = Strings!Allocated /\ sHeap'[b].ref = n
    BY <1>1, <1>3, <2>3, StringRef
  <2>6. \A s \in Threads \ {t} : sCall[s].at \in Locked \cup {"free"} => sCall[s].block # b
    <3>1. SUFFICES ASSUME NEW s \in Threads \ {t}, sCall[s].at \in Locked \cup {"free"},
                          sCall[s].block = b
                   PROVE  FALSE
      OBVIOUS
    <3>2. StringTurn(s)
      BY DEF StringInv
    <3>3. CASE sCall[s].at = "free"
      BY <2>2, <3>1, <3>2, <3>3 DEF StringTurn
    <3>4. CASE sCall[s].at \in Locked
      <4>1. /\ Counts(s, b) /\ sCall[s].string \in Strings!Handles /\ sPtr[sCall[s].string] = b
            /\ sHeap[b].ref = 2
        <5>1. sCall[s].at # "idle" /\ sCall[s].at \in Appending
          BY <3>4 DEF Locked, Appending
        <5>2. QED
          BY <1>1, <3>1, <3>2, <3>4, <5>1, StringCall DEF StringTurn, Counts, Counting
      <4>2. QED
        BY <1>3, <2>1, <3>1, <4>1, CountsAreHigh
    <3>5. QED
      BY <3>1, <3>3, <3>4
  <2>7. StringTurn(t)'
    <3>1. CASE sCall'[t].at = "idle"
      BY <3>1 DEF StringTurn, Appending, Locked
    <3>2. CASE sCall'[t].at = "free"
      <4>1. \A s \in Threads : sCall'[s].at = "free" /\ sCall'[s].block = sCall'[t].block => s = t
        BY <2>4, <2>6, <3>2
      <4>2. QED
        BY <1>1, <1>3, <2>4, <2>5, <3>2, <4>1 DEF StringTurn, Appending, Locked
    <3>3. QED
      BY <2>4, <3>1, <3>2
  <2>8. ~Counts(t, b)' /\ \A x \in Strings!Allocated \ {b} : (Counts(t, x) <=> Counts(t, x)')
    BY <1>0, <2>4 DEF Counts, Counting, Locked
  <2>9. QED
    BY <1>1, <1>3, <2>0, <2>1, <2>3, <2>4, <2>6, <2>7, <2>8, StringRefStep
<1>4. QED
  BY <1>2, <1>3

LEMMA FreeStep ==
    ASSUME StringInv, NEW t \in Threads, Strings!Free(t)
    PROVE  StringInv'
<1>0. PICK b : b = sCall[t].block
  OBVIOUS
<1>1. /\ StringTypes /\ sCall[t].at = "free" /\ b \in Strings!Allocated /\ sHeap[b].ref = 0
      /\ \A s \in Threads : sCall[s].at = "free" /\ sCall[s].block = b => s = t
  BY <1>0 DEF StringInv, StringTurn, Strings!Free, Strings!At
<1>2. /\ sHeap' = [x \in Strings!Allocated \ {b} |-> sHeap[x]]
      /\ Strings!Return(t) /\ sPtr' = sPtr
  BY <1>0 DEF Strings!Free
<1>3. /\ sCall' \in [Threads -> StringCalls] /\ sCall'[t].at = "idle"
      /\ \A s \in Threads \ {t} : sCall'[s] = sCall[s]
  BY <1>1, <1>2, StringReturn
<1>4. /\ Strings!Allocated' = Strings!Allocated \ {b}
      /\ \A x \in Strings!Allocated \ {b} : sHeap'[x] = sHeap[x]
      /\ sHeap' \in [Strings!Allocated' -> StringBlocks]
  BY <1>1, <1>2 DEF Strings!Allocated, StringTypes
<1>5. StringTypes'
  BY <1>1, <1>2, <1>3, <1>4 DEF StringTypes
<1>6. \A h \in Strings!Handles : sPtr[h] # b
  BY <1>1, CountsAreHigh
<1>7. \A s \in Threads \ {t} :
          sCall[s].at \in Appending \cup {"release", "free"} => sCall[s].block # b
  <2>1. SUFFICES ASSUME NEW s \in Threads \ {t}, sCall[s].at \in Appending \cup {"release", "free"},
                        sCall[s].block = b
                 PROVE  FALSE
    OBVIOUS
  <2>2. sCall[s].at # "free"
    BY <1>1, <2>1
  <2>3. sCall[s].at # "release"
    BY <1>1, <2>1, CountsAreHigh DEF Counts, Counting
  <2>4. sCall[s].at \in Appending /\ sCall[s].at # "idle"
    BY <2>1, <2>2, <2>3 DEF Appending, Locked
  <2>5. sCall[s].string \in Strings!Handles /\ sCall[s].block = sPtr[sCall[s].string]
    BY <1>1, <2>4, StringCall DEF StringInv, StringTurn
  <2>6. QED
    BY <1>6, <2>1, <2>5
<1>8. ASSUME NEW s \in Threads \ {t} PROVE StringTurn(s)'
  <2>1. \A r \in Threads \ {t} :
          /\ sCall[r].at \in Appending \cup {"release", "free"} /\ sCall[r].block \in Strings!Allocated =>
                 sCall[r].block \in Strings!Allocated'
          /\ sCall[r].at \in Locked \cup {"free"} => sHeap'[sCall[r].block].ref = sHeap[sCall[r].block].ref
    BY <1>4, <1>7 DEF Appending, StringInv, StringTurn
  <2>2. QED
    BY <1>2, <1>3, <2>1, StringOthers
<1>9. StringTurn(t)'
  BY <1>3 DEF StringTurn, Appending, Locked
<1>10. StringCounts'
  <2>1. ASSUME NEW x \in Strings!Allocated'
        PROVE  sHeap'[x].ref = Cardinality(Sharers(x)') + Cardinality(Strings!InCalls(x)')
    <3>1. x \in Strings!Allocated /\ sHeap'[x] = sHeap[x]
      BY <1>4
    <3>2. Sharers(x)' = Sharers(x)
      BY <1>2 DEF Sharers
    <3>3. ~Counts(t, x) /\ ~Counts(t, x)'
      BY <1>0, <1>1, <1>3 DEF Counts, Counting, Locked
    <3>4. Cardinality(Strings!InCalls(x)') = Cardinality(Strings!InCalls(x))
      BY <1>1, <1>3, <3>3, CallsMove
    <3>5. QED
      BY <3>1, <3>2, <3>4 DEF StringInv, StringCounts
  <2>2. QED
    BY <2>1 DEF StringCounts
<1>11. \A h \in Strings!Handles : sPtr'[h] \in Known'
  BY <1>2, <1>4, <1>6 DEF StringInv, Known
<1>12. QED
  BY <1>5, <1>8, <1>9, <1>10, <1>11 DEF StringInv

\* What a caller finds that may begin a call.
LEMMA StringReady ==
    ASSUME StringInv, NEW t \in Threads, NEW h, Strings!Ready(t, h)
    PROVE  /\ sCall[t].at = "idle" /\ h \in Strings!Handles /\ h[1] = t
           /\ \A s \in Threads : sCall[s].at = "copy" => sCall[s].source # h
           /\ \A s \in Threads : sCall[s].at # "idle" => sCall[s].string # h
           /\ \A x : ~Counts(t, x)
<1>1. /\ sCall[t].at = "idle" /\ h \in Strings!Handles /\ h[1] = t
      /\ \A s \in Threads : sCall[s].at = "copy" => sCall[s].source # h
  BY DEF Strings!Ready, Strings!At, Strings!Mine, Strings!Reading
<1>2. \A s \in Threads : sCall[s].at # "idle" => sCall[s].string[1] = s
  BY DEF StringInv, StringTurn
<1>3. QED
  BY <1>1, <1>2 DEF Counts, Counting, Locked

LEMMA MakeStep ==
    ASSUME StringInv, NEW t \in Threads, NEW h \in Strings!Handles,
           (\E c \in Letters : Strings!Make(t, h, c)) \/ Strings!MakeLiteral(t, h)
    PROVE  StringInv'
<1>1. /\ StringTypes /\ sCall' = sCall /\ sPtr[h] = Empty /\ Strings!Ready(t, h)
  BY DEF StringInv, Strings!Make, Strings!MakeLiteral
<1>2. /\ sCall[t].at = "idle" /\ h[1] = t
      /\ \A s \in Threads : sCall[s].at = "copy" => sCall[s].source # h
      /\ \A x : ~Counts(t, x) /\ ~Counts(t, x)'
  BY <1>1, StringReady DEF Counts
<1>3. StringTurn(t)' /\ sCall'[t].at = "idle"
  BY <1>1, <1>2 DEF StringTurn, Appending, Locked
<1>4. \A x : Cardinality(Strings!InCalls(x)') = Cardinality(Strings!InCalls(x))
  BY <1>1, <1>2, CallsMove
<1>5. ASSUME NEW c \in Letters, Strings!Make(t, h, c) PROVE StringInv'
  <2>1. PICK b \in Blocks \ Strings!Allocated, room \in {0, Slack} :
          /\ Strings!Allocate(b, <<c>>, 2 + room) /\ sPtr' = [sPtr EXCEPT ![h] = b]
    BY <1>5 DEF Strings!Make
  <2>2. 2 + room \in Nat /\ <<c>> \in Seq(Letters)
    BY ObjectsAssumption DEF Strings!SharedStringAssumption
  <2>3. /\ Strings!Allocated' = Strings!Allocated \cup {b}
        /\ sHeap' \in [Strings!Allocated' -> StringBlocks]
        /\ sHeap'[b].ref = 1 /\ \A x \in Strings!Allocated : sHeap'[x] = sHeap[x]
    BY <1>1, <2>1, <2>2, StringAllocate
  <2>4. b \in Refs /\ b # Empty /\ b \in Known'
    BY <2>1, <2>3, StringConstants DEF Refs, Known
  <2>5. StringTypes'
    BY <1>1, <2>1, <2>3, <2>4 DEF StringTypes
  <2>6. StringCounts'
    <3>1. ASSUME NEW x \in Strings!Allocated
          PROVE  sHeap'[x].ref = Cardinality(Sharers(x)') + Cardinality(Strings!InCalls(x)')
      <4>1. x # b /\ x # sPtr[h]
        BY <1>1, <2>1, <3>1, StringConstants DEF StringTypes
      <4>2. Cardinality(Sharers(x)') = Cardinality(Sharers(x))
        BY <1>1, <2>1, <2>4, <4>1, SharersMove
      <4>3. QED
        BY <1>4, <2>3, <3>1, <4>2 DEF StringInv, StringCounts
    <3>2. sHeap'[b].ref = Cardinality(Sharers(b)') + Cardinality(Strings!InCalls(b)')
      <4>1. Cardinality(Sharers(b)) = 0 /\ Cardinality(Strings!InCalls(b)) = 0
        BY <2>1, NobodyKnows
      <4>2. Cardinality(Sharers(b)') = Cardinality(Sharers(b)) + 1
        BY <1>1, <2>1, <2>4, SharersMove
      <4>3. QED
        BY <1>4, <2>3, <4>1, <4>2
    <3>3. QED
      BY <2>3, <3>1, <3>2 DEF StringCounts
  <2>7. \A s \in Threads \ {t} : sCall[s].at \in Locked \cup {"free"} => sCall[s].block \in Strings!Allocated
    BY DEF StringInv, StringTurn
  <2>8. \A k \in Strings!Handles : sPtr'[k] # sPtr[k] => k = h /\ sPtr'[k] = b
    BY <1>1, <2>1 DEF StringTypes
  <2>9. QED
    BY <1>1, <1>2, <1>3, <2>3, <2>4, <2>5, <2>6, <2>7, <2>8, StringPtrStep
<1>6. ASSUME Strings!MakeLiteral(t, h) PROVE StringInv'
  <2>1. sPtr' = [sPtr EXCEPT ![h] = Literal] /\ sHeap' = sHeap
    BY <1>6 DEF Strings!MakeLiteral
  <2>2. Strings!Allocated' = Strings!Allocated /\ Literal \in Refs /\ Literal \in Known'
    BY <2>1 DEF Strings!Allocated, Refs, Known
  <2>3. StringTypes'
    BY <1>1, <2>1, <2>2 DEF StringTypes
  <2>4. StringCounts'
    <3>1. ASSUME NEW x \in Strings!Allocated
          PROVE  sHeap'[x].ref = Cardinality(Sharers(x)') + Cardinality(Strings!InCalls(x)')
      <4>1. x # Literal /\ x # sPtr[h]
        BY <1>1, <3>1, StringConstants DEF StringTypes
      <4>2. Cardinality(Sharers(x)') = Cardinality(Sharers(x))
        BY <1>1, <2>1, <2>2, <4>1, SharersMove
      <4>3. QED
        BY <1>4, <2>1, <3>1, <4>2 DEF StringInv, StringCounts
    <3>2. QED
      BY <2>2, <3>1 DEF StringCounts
  <2>5. \A k \in Strings!Handles : sPtr'[k] # sPtr[k] => k = h /\ sPtr'[k] = Literal
    BY <1>1, <2>1 DEF StringTypes
  <2>6. QED
    BY <1>1, <1>2, <1>3, <2>1, <2>2, <2>3, <2>4, <2>5, StringPtrStep
<1>7. QED
  BY <1>5, <1>6

LEMMA DestroyStep ==
    ASSUME StringInv, NEW t \in Threads, NEW h \in Strings!Handles, Strings!Destroy(t, h)
    PROVE  StringInv'
<1>0. PICK old : old = sPtr[h]
  OBVIOUS
<1>1. /\ StringTypes /\ Strings!Ready(t, h) /\ old # Empty /\ sHeap' = sHeap
      /\ sPtr' = [sPtr EXCEPT ![h] = Empty] /\ Strings!ToRelease(t, h, old)
  BY <1>0 DEF StringInv, Strings!Destroy
<1>2. old \in Refs /\ old \in Known /\ Empty \in Refs
  BY <1>0, <1>1 DEF StringTypes, StringInv, Refs
<1>3. /\ sCall' \in [Threads -> StringCalls]
      /\ sCall'[t].at = "release" /\ sCall'[t].string = h /\ sCall'[t].block = old
      /\ \A s \in Threads \ {t} : sCall'[s] = sCall[s]
  BY <1>1, <1>2, StringToRelease
<1>4. /\ sCall[t].at = "idle" /\ h[1] = t
      /\ \A s \in Threads : sCall[s].at = "copy" => sCall[s].source # h
      /\ \A x : ~Counts(t, x)
  BY <1>1, StringReady
<1>5. Strings!Allocated' = Strings!Allocated /\ Known' = Known /\ Empty \in Known'
  BY <1>1 DEF Strings!Allocated, Known
<1>6. StringTypes'
  BY <1>1, <1>2, <1>3, <1>5 DEF StringTypes
<1>7. StringCounts'
  <2>1. ASSUME NEW x \in Strings!Allocated
        PROVE  sHeap'[x].ref = Cardinality(Sharers(x)') + Cardinality(Strings!InCalls(x)')
    <3>1. Counts(t, x)' <=> x = old
      BY <1>3 DEF Counts, Counting, Locked
    <3>2. x # Empty
      BY <1>1, StringConstants DEF StringTypes
    <3>3. /\ Cardinality(Sharers(x)) \in Nat
          /\ x # old => Cardinality(Sharers(x)') = Cardinality(Sharers(x))
          /\ x = old => Cardinality(Sharers(x)') = Cardinality(Sharers(x)) - 1
      BY <1>0, <1>1, <1>2, <3>2, SharersMove
    <3>4. /\ Cardinality(Strings!InCalls(x)) \in Nat
          /\ x # old => Cardinality(Strings!InCalls(x)') = Cardinality(Strings!InCalls(x))
          /\ x = old => Cardinality(Strings!InCalls(x)') = Cardinality(Strings!InCalls(x)) + 1
      BY <1>1, <1>3, <1>4, <3>1, CallsMove
    <3>5. sHeap[x].ref = Cardinality(Sharers(x)) + Cardinality(Strings!InCalls(x))
      BY <2>1 DEF StringInv, StringCounts
    <3>6. QED
      BY <1>1, <3>3, <3>4, <3>5
  <2>2. QED
    BY <1>5, <2>1 DEF StringCounts
<1>8. StringTurn(t)'
  <2>1. sCall'[t].block \in Known' /\ sCall'[t].string[1] = t /\ sCall'[t].at = "release"
    BY <1>2, <1>3, <1>4, <1>5
  <2>2. QED
    BY <2>1 DEF StringTurn, Appending, Locked
<1>9. \A k \in Strings!Handles : sPtr'[k] # sPtr[k] => k = h /\ sPtr'[k] = Empty
  BY <1>1 DEF StringTypes
<1>10. QED
  BY <1>1, <1>3, <1>4, <1>5, <1>6, <1>7, <1>8, <1>9, StringPtrStep

LEMMA MoveStep ==
    ASSUME StringInv, NEW t \in Threads, NEW h \in Strings!Handles, NEW g \in Strings!Handles,
           Strings!Move(t, h, g)
    PROVE  StringInv'
<1>0. PICK b : b = sPtr[g]
  OBVIOUS
<1>1. /\ StringTypes /\ Strings!Ready(t, h) /\ Strings!Ready(t, g)
      /\ b # Empty /\ sPtr[h] = Empty /\ sHeap' = sHeap /\ sCall' = sCall
      /\ sPtr' = [sPtr EXCEPT ![h] = b, ![g] = Empty]
  BY <1>0 DEF StringInv, Strings!Move
<1>2. /\ b \in Refs /\ b \in Known /\ Empty \in Refs /\ h # g
      /\ sPtr'[h] = b /\ sPtr'[g] = Empty
      /\ \A k \in Strings!Handles \ {h, g} : sPtr'[k] = sPtr[k]
      /\ sPtr' \in [Strings!Handles -> Refs]
  BY <1>0, <1>1 DEF StringTypes, StringInv, Refs
<1>3. /\ sCall[t].at = "idle" /\ h[1] = t /\ g[1] = t
      /\ \A s \in Threads : sCall[s].at = "copy" => sCall[s].source # h /\ sCall[s].source # g
  BY <1>1, StringReady
<1>4. Strings!Allocated' = Strings!Allocated /\ Known' = Known /\ Empty \in Known'
  BY <1>1 DEF Strings!Allocated, Known
<1>5. StringTypes'
  BY <1>1, <1>2, <1>4 DEF StringTypes
<1>6. StringCounts'
  <2>1. ASSUME NEW x \in Strings!Allocated
        PROVE  sHeap'[x].ref = Cardinality(Sharers(x)') + Cardinality(Strings!InCalls(x)')
    <3>1. x # Empty
      BY <1>1, StringConstants DEF StringTypes
    <3>2. IsFiniteSet(Sharers(x)) /\ Cardinality(Sharers(x)) \in Nat
      <4>1. Sharers(x) \subseteq Strings!Handles
        BY DEF Sharers
      <4>2. QED
        BY <4>1, StringConstants, FS_Subset, FS_CardinalityType
    <3>3. CASE x = b
      <4>1. /\ Sharers(x)' = (Sharers(x) \cup {h}) \ {g}
            /\ h \notin Sharers(x) /\ g \in Sharers(x) \cup {h}
        BY <1>0, <1>1, <1>2, <3>1, <3>3 DEF Sharers
      <4>2. /\ IsFiniteSet(Sharers(x) \cup {h})
            /\ Cardinality(Sharers(x) \cup {h}) = Cardinality(Sharers(x)) + 1
        BY <3>2, <4>1, FS_AddElement
      <4>3. Cardinality(Sharers(x)') = Cardinality(Sharers(x))
        <5>1. \A S : IsFiniteSet(S) /\ g \in S => Cardinality(S \ {g}) = Cardinality(S) - 1
          BY FS_RemoveElement
        <5>2. Cardinality((Sharers(x) \cup {h}) \ {g}) = Cardinality(Sharers(x) \cup {h}) - 1
          BY <4>1, <4>2, <5>1
        <5>3. QED
          BY <3>2, <4>1, <4>2, <5>2
      <4>4. sHeap[x].ref = Cardinality(Sharers(x)) + Cardinality(Strings!InCalls(x))
        BY <2>1 DEF StringInv, StringCounts
      <4>5. Strings!InCalls(x)' = Strings!InCalls(x)
        BY <1>1 DEF Strings!InCalls
      <4>6. QED
        BY <1>1, <3>2, <4>3, <4>4, <4>5
    <3>4. CASE x # b
      <4>1. Sharers(x)' = Sharers(x)
        BY <1>0, <1>1, <1>2, <3>1, <3>4 DEF Sharers
      <4>2. QED
        BY <1>1, <2>1, <4>1 DEF StringInv, StringCounts, Strings!InCalls
    <3>5. QED
      BY <3>3, <3>4
  <2>2. QED
    BY <1>4, <2>1 DEF StringCounts
<1>7. StringTurn(t)' /\ sCall'[t].at = "idle"
  BY <1>1, <1>3 DEF StringTurn, Appending, Locked
<1>8. \A k \in Strings!Handles : sPtr'[k] # sPtr[k] => k \in {h, g} /\ sPtr'[k] \in {b, Empty}
  BY <1>2
<1>9. QED
  BY <1>1, <1>2, <1>3, <1>4, <1>5, <1>6, <1>7, <1>8, StringPtrStep

LEMMA CopyReadStep ==
    ASSUME StringInv, NEW t \in Threads, NEW h \in Strings!Handles, NEW g \in Strings!Handles,
           Strings!CopyRead(t, h, g)
    PROVE  StringInv'
<1>0. PICK b : b = sPtr[g]
  OBVIOUS
<1>1. /\ StringTypes /\ Strings!Ready(t, h) /\ b # sPtr[h] /\ sHeap' = sHeap /\ sPtr' = sPtr
      /\ \A s \in Threads : sCall[s].at # "idle" => sCall[s].string # g
      /\ sCall' = [sCall EXCEPT ![t] = [at |-> "copy", string |-> h, source |-> g, block |-> b]]
  BY <1>0 DEF StringInv, Strings!CopyRead, Strings!Changing, Strings!At
<1>2. b \in Refs /\ [at |-> "copy", string |-> h, source |-> g, block |-> b] \in StringCalls
  BY <1>0, <1>1 DEF StringTypes, StringCalls
<1>3. /\ sCall' \in [Threads -> StringCalls]
      /\ sCall'[t].at = "copy" /\ sCall'[t].string = h /\ sCall'[t].source = g /\ sCall'[t].block = b
      /\ \A s \in Threads \ {t} : sCall'[s] = sCall[s]
  BY <1>1, <1>2 DEF StringTypes
<1>4. /\ sCall[t].at = "idle" /\ h[1] = t
      /\ \A s \in Threads : sCall[s].at = "copy" => sCall[s].source # h
      /\ \A x : ~Counts(t, x) /\ ~Counts(t, x)'
  BY <1>1, <1>3, StringReady DEF Counts, Counting, Locked
<1>5. \A s \in Threads : sCall'[s].at # "idle" => sCall'[s].string # g
  BY <1>0, <1>1, <1>3
<1>6. StringTurn(t)'
  BY <1>0, <1>1, <1>3, <1>4, <1>5 DEF StringTurn, Appending, Locked
<1>7. Strings!Allocated' = Strings!Allocated /\ sHeap' \in [Strings!Allocated -> StringBlocks]
  BY <1>1 DEF StringTypes, Strings!Allocated
<1>8. QED
  BY <1>1, <1>3, <1>4, <1>6, <1>7, StringCallStep

\* append().
LEMMA AppendBeginStep ==
    ASSUME StringInv, NEW t \in Threads, NEW h \in Strings!Handles, NEW c \in Letters,
           Strings!AppendBegin(t, h, c)
    PROVE  StringInv'
<1>0. PICK b : b = sPtr[h]
  OBVIOUS
<1>1. /\ StringTypes /\ Strings!Ready(t, h) /\ sHeap' = sHeap /\ sPtr' = sPtr
  BY DEF StringInv, Strings!AppendBegin
<1>2. \E place \in {"lock", "allocate"} :
        /\ place = "lock" => b \in Strings!Allocated
        /\ sCall' = [sCall EXCEPT ![t] = [at |-> place, string |-> h, block |-> b,
                                          letter |-> c, wrote |-> FALSE]]
  <2>1. CASE b \in Strings!Allocated /\ sHeap[b].capacity >= Len(sHeap[b].text) + 2
    BY <1>0, <2>1 DEF Strings!AppendBegin
  <2>2. CASE ~(b \in Strings!Allocated /\ sHeap[b].capacity >= Len(sHeap[b].text) + 2)
    BY <1>0, <2>2 DEF Strings!AppendBegin
  <2>3. QED
    BY <2>1, <2>2
<1>3. PICK place \in {"lock", "allocate"} :
        /\ place = "lock" => b \in Strings!Allocated
        /\ sCall' = [sCall EXCEPT ![t] = [at |-> place, string |-> h, block |-> b,
                                          letter |-> c, wrote |-> FALSE]]
  BY <1>2
<1>4. /\ b \in Refs /\ b \in Known
      /\ [at |-> place, string |-> h, block |-> b, letter |-> c, wrote |-> FALSE] \in StringCalls
  <2>1. b \in Refs /\ b \in Known /\ place \in Appending
    BY <1>0, <1>1 DEF StringTypes, StringInv, Appending
  <2>2. QED
    BY <2>1 DEF StringCalls
<1>5. /\ sCall' \in [Threads -> StringCalls]
      /\ sCall'[t].at = place /\ sCall'[t].string = h /\ sCall'[t].block = b
      /\ \A s \in Threads \ {t} : sCall'[s] = sCall[s]
  BY <1>1, <1>3, <1>4 DEF StringTypes
<1>6. /\ sCall[t].at = "idle" /\ h[1] = t
      /\ \A s \in Threads : sCall[s].at = "copy" => sCall[s].source # h
      /\ \A x : ~Counts(t, x) /\ ~Counts(t, x)'
  BY <1>1, <1>5, StringReady DEF Counts, Counting, Locked
<1>7. /\ Strings!Allocated' = Strings!Allocated /\ Known' = Known
      /\ sHeap' \in [Strings!Allocated -> StringBlocks]
  BY <1>1 DEF StringTypes, Strings!Allocated, Known
<1>8. StringTurn(t)'
  <2>1. sPtr'[h] = b /\ b \in Known' /\ (place = "lock" => b \in Strings!Allocated')
    BY <1>0, <1>1, <1>3, <1>4, <1>7
  <2>2. QED
    BY <1>5, <1>6, <2>1 DEF StringTurn, Appending, Locked
<1>9. QED
  BY <1>1, <1>5, <1>6, <1>7, <1>8, StringCallStep

\* What holds of a call to append() under way.
LEMMA StringAppending ==
    ASSUME StringInv, NEW t \in Threads, sCall[t].at \in Appending
    PROVE  /\ StringTypes /\ StringTurn(t)
           /\ sCall[t].string \in Strings!Handles /\ sCall[t].string[1] = t
           /\ sCall[t].block \in Refs /\ sCall[t].block \in Known
           /\ sCall[t].block = sPtr[sCall[t].string]
           /\ \A s \in Threads \ {t} : sCall[s].at = "copy" => sCall[t].string # sCall[s].source
<1>1. StringTypes /\ StringTurn(t) /\ sCall[t].at # "idle"
  BY DEF StringInv, Appending, Locked
<1>2. sCall[t].string \in Strings!Handles /\ sCall[t].block \in Refs
  BY <1>1, StringCall
<1>3. sCall[t].string[1] = t /\ sCall[t].block = sPtr[sCall[t].string]
  BY <1>1 DEF StringTurn
<1>4. \A s \in Threads \ {t} : sCall[s].at = "copy" => sCall[t].string # sCall[s].source
  BY <1>1 DEF StringInv, StringTurn
<1>5. QED
  BY <1>1, <1>2, <1>3, <1>4 DEF StringInv

\* An append() goes to another of its places, or returns, and the heap stays.
LEMMA AppendMoves ==
    ASSUME StringInv, NEW t \in Threads, sCall[t].at \in Appending, UNCHANGED <<sPtr, sHeap>>,
           \/ Strings!Return(t) /\ sCall[t].at \notin Locked
           \/ \E place \in Appending : /\ Strings!Goto(t, place) /\ place # "lock"
                                       /\ (place \in Locked <=> sCall[t].at \in Locked)
    PROVE  StringInv'
<1>1. /\ StringTypes /\ StringTurn(t) /\ sCall[t].string[1] = t
      /\ sCall[t].block = sPtr[sCall[t].string]
      /\ \A s \in Threads \ {t} : sCall[s].at = "copy" => sCall[t].string # sCall[s].source
  BY StringAppending
<1>2. /\ Strings!Allocated' = Strings!Allocated
      /\ sHeap' \in [Strings!Allocated -> StringBlocks]
  BY <1>1 DEF StringTypes, Strings!Allocated
<1>3. CASE Strings!Return(t) /\ sCall[t].at \notin Locked
  <2>1. /\ sCall' \in [Threads -> StringCalls] /\ sCall'[t].at = "idle"
        /\ \A s \in Threads \ {t} : sCall'[s] = sCall[s]
    BY <1>1, <1>3, StringReturn
  <2>2. \A x \in Strings!Allocated : ~Counts(t, x) /\ ~Counts(t, x)'
    BY <1>3, <2>1 DEF Counts, Counting, Locked, Appending
  <2>3. StringTurn(t)'
    BY <2>1 DEF StringTurn, Appending, Locked
  <2>4. QED
    BY <1>2, <2>1, <2>2, <2>3, StringCallStep
<1>4. ASSUME NEW place \in Appending, Strings!Goto(t, place), place # "lock",
             place \in Locked <=> sCall[t].at \in Locked
      PROVE  StringInv'
  <2>1. /\ sCall' \in [Threads -> StringCalls]
        /\ sCall'[t].at = place /\ sCall'[t].string = sCall[t].string
        /\ sCall'[t].block = sCall[t].block
        /\ \A s \in Threads \ {t} : sCall'[s] = sCall[s]
    BY <1>1, <1>4, StringGoto
  <2>2. place \notin {"idle", "copy", "release", "free", "lock"}
    BY <1>4 DEF Appending, Locked
  <2>3. \A x \in Strings!Allocated : (Counts(t, x) <=> Counts(t, x)')
    BY <1>4, <2>1, <2>2 DEF Counts, Counting, Appending
  <2>4. StringTurn(t)'
    BY <1>1, <1>2, <1>4, <2>1, <2>2 DEF StringTurn
  <2>5. QED
    BY <1>1, <1>2, <2>1, <2>2, <2>3, <2>4, StringCallStep
<1>5. QED
  BY <1>3, <1>4

\* Whoever has a block locked is the only one to count for it, or to free it.
LEMMA OneLocks ==
    ASSUME StringInv, NEW t \in Threads, sCall[t].at \in Locked
    PROVE  \A s \in Threads \ {t} :
             sCall[s].at \in Locked \cup {"free"} => sCall[s].block # sCall[t].block
<1>1. PICK b : b = sCall[t].block
  OBVIOUS
<1>2. /\ b \in Strings!Allocated /\ sHeap[b].ref = 2 /\ Counts(t, b)
      /\ sCall[t].string \in Strings!Handles /\ sPtr[sCall[t].string] = b
  <2>1. sCall[t].at \in Appending
    BY DEF Appending
  <2>2. QED
    BY <1>1, <2>1, StringAppending DEF StringTurn, Counts, Counting
<1>3. ASSUME NEW s \in Threads \ {t}, sCall[s].at \in Locked, sCall[s].block = b PROVE FALSE
  <2>1. Counts(s, b)
    BY <1>3 DEF Counts, Counting
  <2>2. QED
    BY <1>2, <2>1, CountsAreHigh
<1>4. ASSUME NEW s \in Threads \ {t}, sCall[s].at = "free", sCall[s].block = b PROVE FALSE
  BY <1>2, <1>4 DEF StringInv, StringTurn
<1>5. QED
  BY <1>1, <1>3, <1>4

LEMMA AppendLockStep ==
    ASSUME StringInv, NEW t \in Threads, Strings!AppendLock(t) \/ Strings!AppendUnlock(t)
    PROVE  StringInv'
<1>0. PICK b : b = sCall[t].block
  OBVIOUS
<1>1. /\ sCall[t].at \in Appending /\ sCall[t].at \in {"lock", "unlock"}
      /\ b \in Strings!Allocated /\ sHeap[b].ref \in Nat /\ sPtr' = sPtr
  <2>1. sCall[t].at \in Appending /\ sCall[t].at \in {"lock", "unlock"} /\ sPtr' = sPtr
    BY DEF Strings!AppendLock, Strings!AppendUnlock, Strings!At, Appending, Locked
  <2>2. b \in Strings!Allocated
    BY <1>0, <2>1 DEF StringInv, StringTurn, Locked
  <2>3. QED
    BY <2>1, <2>2, CountsAreHigh
<1>2. /\ StringTypes /\ StringTurn(t) /\ sCall[t].string[1] = t
      /\ b = sPtr[sCall[t].string] /\ b \in Known
  BY <1>0, <1>1, StringAppending
<1>3. ASSUME NEW n \in Nat, sHeap' = [sHeap EXCEPT ![b].ref = n]
      PROVE  /\ Strings!Allocated' = Strings!Allocated /\ sHeap'[b].ref = n
             /\ Known' = Known
  BY <1>1, <1>2, <1>3, StringRef DEF Known
<1>4. CASE Strings!AppendLock(t) /\ sHeap[b].ref = 1
  <2>0. PICK n \in Nat : n = 2
    OBVIOUS
  <2>1. sHeap' = [sHeap EXCEPT ![b].ref = n] /\ Strings!Goto(t, "owned") /\ sCall[t].at = "lock"
    BY <1>0, <1>4, <2>0 DEF Strings!AppendLock, Strings!At
  <2>2. /\ sCall' \in [Threads -> StringCalls]
        /\ sCall'[t].at = "owned" /\ sCall'[t].string = sCall[t].string /\ sCall'[t].block = b
        /\ \A s \in Threads \ {t} : sCall'[s] = sCall[s]
    <3>1. "owned" \in Appending
      BY DEF Appending, Locked
    <3>2. QED
      BY <1>0, <1>1, <1>2, <2>1, <3>1, StringGoto
  <2>3. Strings!Allocated' = Strings!Allocated /\ sHeap'[b].ref = n /\ Known' = Known
    BY <1>3, <2>1
  <2>4. /\ ~Counts(t, b) /\ Counts(t, b)'
        /\ \A x \in Strings!Allocated \ {b} : (Counts(t, x) <=> Counts(t, x)')
    BY <1>0, <2>1, <2>2 DEF Counts, Counting, Locked
  <2>5. StringTurn(t)'
    BY <1>1, <1>2, <2>0, <2>2, <2>3 DEF StringTurn, Appending, Locked
  <2>6. \A s \in Threads \ {t} : sCall[s].at \in Locked \cup {"free"} => sCall[s].block # b
    BY <1>4 DEF StringInv, StringTurn
  <2>7. n = sHeap[b].ref + 1 /\ sCall[t].at # "idle"
    BY <1>4, <2>0, <2>1
  <2>8. QED
    BY <1>1, <2>1, <2>2, <2>4, <2>5, <2>6, <2>7, StringRefStep
<1>5. CASE Strings!AppendLock(t) /\ sHeap[b].ref # 1
  <2>1. sHeap' = sHeap /\ Strings!Goto(t, "allocate") /\ sCall[t].at = "lock"
    BY <1>0, <1>5 DEF Strings!AppendLock, Strings!At
  <2>2. "allocate" \in Appending /\ "allocate" \notin Locked /\ "lock" \notin Locked
    BY DEF Appending, Locked
  <2>3. QED
    BY <1>1, <2>1, <2>2, AppendMoves
<1>6. CASE Strings!AppendUnlock(t)
  <2>1. sCall[t].at = "unlock" /\ sCall[t].at \in Locked /\ sHeap[b].ref = 2
    BY <1>0, <1>2, <1>6 DEF Strings!AppendUnlock, Strings!At, Locked, StringTurn
  <2>0. PICK n \in Nat : n = sHeap[b].ref - 1
    BY <2>1
  <2>2. sHeap' = [sHeap EXCEPT ![b].ref = n] /\ (Strings!Return(t) \/ Strings!Goto(t, "allocate"))
    BY <1>0, <1>6, <2>0 DEF Strings!AppendUnlock, Strings!AppendGoesOn
  <2>3. /\ sCall' \in [Threads -> StringCalls]
        /\ \A s \in Threads \ {t} : sCall'[s] = sCall[s]
        /\ \/ sCall'[t].at = "idle"
           \/ sCall'[t].at = "allocate" /\ sCall'[t].string = sCall[t].string /\ sCall'[t].block = b
    <3>1. "allocate" \in Appending
      BY DEF Appending
    <3>2. CASE Strings!Return(t)
      BY <1>2, <3>2, StringReturn
    <3>3. CASE Strings!Goto(t, "allocate")
      BY <1>0, <1>1, <1>2, <3>1, <3>3, StringGoto
    <3>4. QED
      BY <2>2, <3>2, <3>3
  <2>4. Counts(t, b)
    BY <1>0, <2>1 DEF Counts, Counting
  <2>5. ~Counts(t, b)' /\ \A x \in Strings!Allocated \ {b} : (Counts(t, x) <=> Counts(t, x)')
    BY <1>0, <2>3 DEF Counts, Counting, Locked
  <2>6. StringTurn(t)'
    <3>1. CASE sCall'[t].at = "idle"
      BY <3>1 DEF StringTurn, Appending, Locked
    <3>2. CASE sCall'[t].at = "allocate" /\ sCall'[t].string = sCall[t].string /\ sCall'[t].block = b
      BY <1>1, <1>2, <3>2 DEF StringTurn, Locked
    <3>3. QED
      BY <2>3, <3>1, <3>2
  <2>7. \A s \in Threads \ {t} : sCall[s].at \in Locked \cup {"free"} => sCall[s].block # b
    BY <1>0, <2>1, OneLocks
  <2>8. sCall[t].at # "idle" /\ (sCall'[t].at # "idle" => sCall'[t].string = sCall[t].string)
    BY <2>1, <2>3
  <2>9. QED
    BY <1>1, <2>0, <2>2, <2>3, <2>4, <2>5, <2>6, <2>7, <2>8, StringRefStep
<1>7. QED
  BY <1>4, <1>5, <1>6

LEMMA AppendOwnedStep ==
    ASSUME StringInv, NEW t \in Threads, Strings!AppendOwned(t) \/ Strings!AppendScopeEnds(t)
    PROVE  StringInv'
<1>1. /\ sCall[t].at \in {"owned", "scope"} /\ sCall[t].at \in Locked /\ sCall[t].at \in Appending
      /\ UNCHANGED <<sPtr, sHeap>>
  BY DEF Strings!AppendOwned, Strings!AppendScopeEnds, Strings!At, Locked, Appending
<1>2. sHeap[sCall[t].block].ref = 2
  BY <1>1 DEF StringInv, StringTurn
<1>3. Strings!Goto(t, "write") \/ Strings!Goto(t, "unlock")
  BY <1>2 DEF Strings!AppendOwned, Strings!AppendScopeEnds
<1>4. {"write", "unlock"} \subseteq Locked \cap Appending
  BY DEF Locked, Appending
<1>5. QED
  BY <1>1, <1>3, <1>4, AppendMoves

LEMMA AppendWriteStep ==
    ASSUME StringInv, NEW t \in Threads, Strings!AppendWrite(t)
    PROVE  StringInv'
<1>0. PICK b : b = sCall[t].block
  OBVIOUS
<1>1. /\ sCall[t].at = "write" /\ sCall[t].at \in Appending /\ sPtr' = sPtr
      /\ sHeap' = [sHeap EXCEPT ![b].text = Append(@, sCall[t].letter)]
      /\ sCall' = [sCall EXCEPT ![t].at = "scope", ![t].wrote = TRUE]
  BY <1>0 DEF Strings!AppendWrite, Strings!At, Appending, Locked
<1>2. /\ StringTypes /\ StringTurn(t) /\ sCall[t].string[1] = t
      /\ b = sPtr[sCall[t].string] /\ b \in Strings!Allocated /\ sHeap[b].ref = 2
      /\ \A s \in Threads \ {t} : sCall[s].at = "copy" => sCall[t].string # sCall[s].source
      /\ sCall[t].letter \in Letters
  <2>1. StringTypes /\ StringTurn(t)
    BY DEF StringInv
  <2>2. QED
    BY <1>0, <1>1, <2>1, StringAppending, StringCall DEF StringTurn, Locked
<1>3. /\ Strings!Allocated' = Strings!Allocated
      /\ sHeap' \in [Strings!Allocated -> StringBlocks]
      /\ \A x \in Strings!Allocated : sHeap'[x].ref = sHeap[x].ref
  <2>1. sHeap \in [Strings!Allocated -> StringBlocks] /\ sHeap[b] \in StringBlocks
    BY <1>2 DEF StringTypes
  <2>2. PICK text : text = Append(sHeap[b].text, sCall[t].letter)
    OBVIOUS
  <2>3. text \in Seq(Letters)
    BY <1>2, <2>1, <2>2, AppendProperties DEF StringBlocks
  <2>4. /\ [sHeap[b] EXCEPT !.text = text] \in StringBlocks
        /\ [sHeap[b] EXCEPT !.text = text].ref = sHeap[b].ref
    BY <2>1, <2>3 DEF StringBlocks
  <2>5. sHeap' = [sHeap EXCEPT ![b] = [sHeap[b] EXCEPT !.text = text]]
    BY <1>1, <1>2, <2>1, <2>2
  <2>6. QED
    BY <1>2, <2>1, <2>4, <2>5 DEF Strings!Allocated
<1>4. /\ sCall' \in [Threads -> StringCalls]
      /\ sCall'[t].at = "scope" /\ sCall'[t].string = sCall[t].string /\ sCall'[t].block = b
      /\ \A s \in Threads \ {t} : sCall'[s] = sCall[s]
  <2>1. sCall \in [Threads -> StringCalls] /\ sCall[t] \in StringCalls
    BY <1>2 DEF StringTypes
  <2>2. sCall[t] \in [at : Appending, string : Strings!Handles, block : Refs,
                      letter : Letters, wrote : BOOLEAN]
    BY <1>1, <2>1 DEF StringCalls, Appending, Locked
  <2>3. PICK r : r = [sCall[t] EXCEPT !.at = "scope", !.wrote = TRUE]
    OBVIOUS
  <2>4. /\ r \in [at : Appending, string : Strings!Handles, block : Refs,
                  letter : Letters, wrote : BOOLEAN]
        /\ r.at = "scope" /\ r.string = sCall[t].string /\ r.block = sCall[t].block
    BY <2>2, <2>3 DEF Appending, Locked
  <2>5. sCall' = [sCall EXCEPT ![t] = r]
    BY <1>1, <2>1, <2>3
  <2>6. r \in StringCalls
    BY <2>4 DEF StringCalls
  <2>7. QED
    BY <1>0, <2>1, <2>4, <2>5, <2>6
<1>5. \A x \in Strings!Allocated : (Counts(t, x) <=> Counts(t, x)')
  BY <1>0, <1>1, <1>4 DEF Counts, Counting, Locked
<1>6. StringTurn(t)'
  BY <1>1, <1>2, <1>3, <1>4 DEF StringTurn, Appending, Locked
<1>7. QED
  BY <1>1, <1>2, <1>3, <1>4, <1>5, <1>6, StringCallStep

LEMMA AppendAllocateStep ==
    ASSUME StringInv, NEW t \in Threads, Strings!AppendAllocate(t)
    PROVE  StringInv'
<1>0. PICK old, h : old = sCall[t].block /\ h = sCall[t].string
  OBVIOUS
<1>1. sCall[t].at = "allocate" /\ sCall[t].at \in Appending /\ sCall[t].at \notin Locked
  BY DEF Strings!AppendAllocate, Strings!At, Appending, Locked
<1>2. /\ StringTypes /\ h \in Strings!Handles /\ h[1] = t
      /\ old \in Refs /\ old \in Known /\ old = sPtr[h]
      /\ \A s \in Threads \ {t} : sCall[s].at = "copy" => h # sCall[s].source
  BY <1>0, <1>1, StringAppending
<1>3. CASE Strings!Return(t) /\ UNCHANGED <<sPtr, sHeap>>
  BY <1>1, <1>3, AppendMoves
<1>4. ASSUME NEW b \in Blocks \ Strings!Allocated, NEW text, text = Append(Strings!Text(old), sCall[t].letter),
             Strings!Allocate(b, text, Len(text) + 1 + Slack),
             sPtr' = [sPtr EXCEPT ![h] = b], Strings!ToRelease(t, h, old)
      PROVE  StringInv'
  <2>1. text \in Seq(Letters) /\ Len(text) + 1 + Slack \in Nat
    <3>1. Slack \in Nat /\ sCall[t].letter \in Letters
      BY <1>1, <1>2, StringCall, ObjectsAssumption DEF Strings!SharedStringAssumption
    <3>2. Strings!Text(old) \in Seq(Letters)
      <4>1. CASE old \in Strings!Allocated
        BY <1>2, <4>1 DEF Strings!Text, StringTypes, StringBlocks
      <4>2. CASE old \notin Strings!Allocated
        BY <3>1, <4>2 DEF Strings!Text
      <4>3. QED
        BY <4>1, <4>2
    <3>3. text \in Seq(Letters)
      BY <1>4, <3>1, <3>2, AppendProperties
    <3>4. Len(text) \in Nat
      BY <3>3, LenProperties
    <3>5. QED
      BY <3>1, <3>3, <3>4
  <2>2. PICK capacity \in Nat : capacity = Len(text) + 1 + Slack
    BY <2>1
  <2>3. /\ Strings!Allocated' = Strings!Allocated \cup {b}
        /\ sHeap' \in [Strings!Allocated' -> StringBlocks]
        /\ sHeap'[b].ref = 1 /\ \A x \in Strings!Allocated : sHeap'[x] = sHeap[x]
    BY <1>2, <1>4, <2>1, <2>2, StringAllocate
  <2>4. /\ sCall' \in [Threads -> StringCalls]
        /\ sCall'[t].at = "release" /\ sCall'[t].string = h /\ sCall'[t].block = old
        /\ \A s \in Threads \ {t} : sCall'[s] = sCall[s]
    BY <1>2, <1>4, StringToRelease
  <2>5. b \in Refs /\ b \in Known' /\ Known \subseteq Known' /\ b # old
    BY <1>2, <2>3, StringConstants DEF Refs, Known
  <2>6. StringTypes'
    BY <1>2, <1>4, <2>3, <2>4, <2>5 DEF StringTypes
  <2>7. \A x : ~Counts(t, x) /\ (Counts(t, x)' <=> x = old)
    BY <1>1, <2>4 DEF Counts, Counting, Locked
  <2>8. StringCounts'
    <3>1. ASSUME NEW x \in Strings!Allocated
          PROVE  sHeap'[x].ref = Cardinality(Sharers(x)') + Cardinality(Strings!InCalls(x)')
      <4>1. x # b
        OBVIOUS
      <4>2. /\ Cardinality(Sharers(x)) \in Nat
            /\ x # old => Cardinality(Sharers(x)') = Cardinality(Sharers(x))
            /\ x = old => Cardinality(Sharers(x)') = Cardinality(Sharers(x)) - 1
        BY <1>2, <1>4, <2>5, <4>1, SharersMove
      <4>3. /\ Cardinality(Strings!InCalls(x)) \in Nat
            /\ x # old => Cardinality(Strings!InCalls(x)') = Cardinality(Strings!InCalls(x))
            /\ x = old => Cardinality(Strings!InCalls(x)') = Cardinality(Strings!InCalls(x)) + 1
        BY <1>2, <2>4, <2>7, CallsMove
      <4>4. sHeap[x].ref = Cardinality(Sharers(x)) + Cardinality(Strings!InCalls(x))
        BY <3>1 DEF StringInv, StringCounts
      <4>5. QED
        BY <2>3, <4>2, <4>3, <4>4
    <3>2. sHeap'[b].ref = Cardinality(Sharers(b)') + Cardinality(Strings!InCalls(b)')
      <4>1. Cardinality(Sharers(b)) = 0 /\ Cardinality(Strings!InCalls(b)) = 0
        BY NobodyKnows
      <4>2. Cardinality(Sharers(b)') = Cardinality(Sharers(b)) + 1
        BY <1>2, <1>4, <2>5, SharersMove
      <4>3. Cardinality(Strings!InCalls(b)') = Cardinality(Strings!InCalls(b))
        BY <1>2, <2>4, <2>5, <2>7, CallsMove
      <4>4. QED
        BY <2>3, <4>1, <4>2, <4>3
    <3>3. QED
      BY <2>3, <3>1, <3>2 DEF StringCounts
  <2>9. StringTurn(t)'
    <3>1. sCall'[t].block \in Known' /\ sCall'[t].string[1] = t /\ sCall'[t].at = "release"
      BY <1>2, <2>4, <2>5
    <3>2. QED
      BY <3>1 DEF StringTurn, Appending, Locked
  <2>10. \A s \in Threads \ {t} : sCall[s].at \in Locked \cup {"free"} => sCall[s].block \in Strings!Allocated
    BY DEF StringInv, StringTurn
  <2>11. \A k \in Strings!Handles : sPtr'[k] # sPtr[k] => k = h /\ sPtr'[k] = b
    BY <1>2, <1>4 DEF StringTypes
  <2>12. \A s \in Threads \ {t} : sCall[s].at = "copy" => sCall[s].source # h
    BY <1>2
  <2>13. QED
    BY <1>2, <2>3, <2>4, <2>5, <2>6, <2>8, <2>9, <2>10, <2>11, <2>12, StringPtrStep
<1>5. QED
  BY <1>0, <1>3, <1>4 DEF Strings!AppendAllocate

LEMMA StringStep ==
    ASSUME StringInv, [Strings!Next]_stringVars
    PROVE  StringInv'
<1>1. CASE UNCHANGED stringVars
  <2>1. /\ Strings!Allocated' = Strings!Allocated /\ Known' = Known
        /\ sPtr' = sPtr /\ sHeap' = sHeap /\ sCall' = sCall
        /\ \A b : Sharers(b)' = Sharers(b) /\ Strings!InCalls(b)' = Strings!InCalls(b)
    BY <1>1 DEF stringVars, Strings!Allocated, Known, Sharers, Strings!InCalls
  <2>2. QED
    BY <2>1 DEF StringInv, StringTypes, StringCounts, StringTurn
<1>2. ASSUME NEW t \in Threads, Strings!Step(t) PROVE StringInv'
  BY <1>2, CopyCountStep, ReleaseStep, FreeStep, AppendLockStep, AppendOwnedStep,
     AppendWriteStep, AppendAllocateStep DEF Strings!Step
<1>3. ASSUME NEW t \in Threads, Strings!Call(t) PROVE StringInv'
  BY <1>3, MakeStep, DestroyStep, MoveStep, CopyReadStep, AppendBeginStep DEF Strings!Call
<1>4. QED
  BY <1>1, <1>2, <1>3 DEF Strings!Next

\* The counts of all blocks, and where every call is, with any number of
\* threads, strings and blocks.
THEOREM StringInvariant == Spec => []StringInv
<1>1. ASSUME Init PROVE StringInv
  <2>1. /\ sPtr = [h \in Strings!Handles |-> Empty]
        /\ sHeap = [b \in {} |-> 0] /\ sCall = [t \in Threads |-> Strings!Idle]
    BY <1>1, Starts DEF Strings!Init
  <2>2. Strings!Allocated = {}
    BY <2>1 DEF Strings!Allocated
  <2>3. Strings!Idle \in StringCalls /\ Strings!Idle.at = "idle"
    BY DEF Strings!Idle, StringCalls
  <2>4. StringTypes
    BY <2>1, <2>2, <2>3 DEF StringTypes, Refs
  <2>5. \A t \in Threads : sCall[t].at = "idle"
    BY <2>1, <2>3
  <2>6. \A t \in Threads : StringTurn(t)
    BY <2>5 DEF StringTurn, Appending, Locked
  <2>7. StringCounts
    BY <2>2 DEF StringCounts
  <2>8. \A h \in Strings!Handles : sPtr[h] \in Known
    BY <2>1 DEF Known
  <2>9. QED
    BY <2>4, <2>6, <2>7, <2>8 DEF StringInv
<1>2. StringInv /\ [Next]_mcvars => StringInv'
  BY Moves, StringStep
<1>3. QED
  BY <1>1, <1>2, PTL DEF Spec

\* CountIsExact and BlocksInUseAreAllocated of SharedString, in the part of the
\* graph where strings are used: a count is that of the strings that share the
\* block and of the calls under way, so that the block is freed by the last of
\* them and never before, whatever the threads do.
THEOREM BlocksAreCounted == Spec => []StringBlocksAreCounted
<1>1. ASSUME StringInv PROVE StringBlocksAreCounted
  <2>1. Strings!CountIsExact
    BY <1>1, StringConstants DEF StringInv, StringCounts, Strings!CountIsExact, Sharers
  <2>2. \A h \in Strings!Handles : sPtr[h] \in Strings!Allocated \cup {Empty, Literal}
    BY <1>1 DEF StringInv, Known
  <2>3. ASSUME NEW t \in Threads, sCall[t].at # "idle"
        PROVE  sCall[t].block \in Strings!Allocated \cup {Empty, Literal}
    <3>1. StringTypes /\ StringTurn(t)
      BY <1>1 DEF StringInv
    <3>2. CASE sCall[t].at \in Appending
      BY <1>1, <3>2, StringAppending DEF Known
    <3>3. CASE sCall[t].at = "copy"
      <4>1. sCall[t].source \in Strings!Handles /\ sCall[t].block = sPtr[sCall[t].source]
        BY <3>1, <3>3, StringCall DEF StringTurn
      <4>2. QED
        BY <2>2, <4>1
    <3>4. CASE sCall[t].at \in {"release", "free"}
      BY <3>1, <3>4 DEF StringTurn, Known
    <3>5. QED
      BY <2>3, <3>1, <3>2, <3>3, <3>4, StringCall
  <2>4. QED
    BY <2>1, <2>2, <2>3 DEF StringBlocksAreCounted, Strings!BlocksInUseAreAllocated, Strings!At
<1>2. QED
  BY <1>1, StringInvariant, PTL

----------------------------------------------------------------------------
(* Strings: the room in a block *)

Writing == {"lock", "owned", "write"}
HasRoom(hp, b, n) == Len(hp[b].text) + n <= hp[b].capacity

\* Every block has room for the zero behind its text, and where an append() is
\* about to write in place for one letter more.
StringRoom ==
    /\ \A b \in Strings!Allocated : HasRoom(sHeap, b, 1)
    /\ \A t \in Threads : sCall[t].at \in Writing => HasRoom(sHeap, sCall[t].block, 2)

\* Whoever is about to write has a block.
LEMMA WritersHaveBlocks ==
    ASSUME StringInv, NEW t \in Threads, sCall[t].at \in Writing
    PROVE  /\ sCall[t].block \in Strings!Allocated /\ sCall[t].string \in Strings!Handles
           /\ sCall[t].block = sPtr[sCall[t].string] /\ sCall[t].string[1] = t
<1>1. sCall[t].at \in Appending
  BY DEF Writing, Appending, Locked
<1>2. QED
  BY <1>1, StringAppending DEF Writing, StringTurn, Locked

\* A step that leaves the texts, and whose own call, if it is about to write, has room.
LEMMA RoomKept ==
    ASSUME StringInv, StringInv', StringRoom, NEW t \in Threads,
           \A s \in Threads \ {t} : sCall'[s] = sCall[s],
           \A x \in Strings!Allocated' :
             IF x \in Strings!Allocated
             THEN sHeap'[x].text = sHeap[x].text /\ sHeap'[x].capacity = sHeap[x].capacity
             ELSE HasRoom(sHeap', x, 1),
           sCall'[t].at \in Writing =>
             sCall'[t].block \in Strings!Allocated /\ HasRoom(sHeap, sCall'[t].block, 2)
    PROVE  StringRoom'
<1>1. \A s \in Threads : sCall'[s].at \in Writing => sCall'[s].block \in Strings!Allocated'
  <2>1. \A s \in Threads : StringTurn(s)'
    BY DEF StringInv
  <2>2. ASSUME NEW s \in Threads, sCall'[s].at \in Writing
        PROVE  sCall'[s].block \in Strings!Allocated'
    BY <2>1, <2>2 DEF StringTurn, Writing, Locked
  <2>3. QED
    BY <2>2
<1>2. \A s \in Threads : sCall[s].at \in Writing => sCall[s].block \in Strings!Allocated
  BY WritersHaveBlocks
<1>3. \A x \in Strings!Allocated' : HasRoom(sHeap', x, 1)
  BY DEF StringRoom, HasRoom
<1>4. ASSUME NEW s \in Threads, sCall'[s].at \in Writing
      PROVE  HasRoom(sHeap', sCall'[s].block, 2)
  <2>1. sCall'[s].block \in Strings!Allocated /\ HasRoom(sHeap, sCall'[s].block, 2)
    <3>1. CASE s = t
      BY <1>4, <3>1
    <3>2. CASE s # t
      BY <1>2, <1>4, <3>2 DEF StringRoom
    <3>3. QED
      BY <3>1, <3>2
  <2>2. QED
    BY <1>1, <1>4, <2>1 DEF HasRoom
<1>5. QED
  BY <1>3, <1>4 DEF StringRoom, HasRoom

\* A change of a count is none of a text.
LEMMA CountsOfOneBlock ==
    ASSUME StringTypes, NEW b \in Strings!Allocated, NEW n, sHeap' = [sHeap EXCEPT ![b].ref = n]
    PROVE  \A x \in Strings!Allocated' :
             IF x \in Strings!Allocated
             THEN sHeap'[x].text = sHeap[x].text /\ sHeap'[x].capacity = sHeap[x].capacity
             ELSE HasRoom(sHeap', x, 1)
<1>1. Strings!Allocated' = Strings!Allocated /\ b \in DOMAIN sHeap /\ sHeap[b] \in StringBlocks
  BY DEF Strings!Allocated, StringTypes
<1>2. sHeap' = [sHeap EXCEPT ![b] = [sHeap[b] EXCEPT !.ref = n]]
  BY <1>1
<1>3. /\ [sHeap[b] EXCEPT !.ref = n].text = sHeap[b].text
      /\ [sHeap[b] EXCEPT !.ref = n].capacity = sHeap[b].capacity
  BY <1>1 DEF StringBlocks
<1>4. \A x \in DOMAIN sHeap :
        sHeap'[x].text = sHeap[x].text /\ sHeap'[x].capacity = sHeap[x].capacity
  BY <1>1, <1>2, <1>3
<1>5. QED
  BY <1>1, <1>4 DEF Strings!Allocated

LEMMA CountRoom ==
    ASSUME StringInv, StringInv', StringRoom, NEW t \in Threads,
           Strings!CopyCount(t) \/ Strings!Release(t) \/ Strings!AppendUnlock(t)
    PROVE  StringRoom'
<1>0. PICK b : b = sCall[t].block
  OBVIOUS
<1>1. StringTypes /\ StringTurn(t)
  BY DEF StringInv
<1>2. \/ sHeap' = sHeap
      \/ b \in Strings!Allocated /\ \E n : sHeap' = [sHeap EXCEPT ![b].ref = n]
  <2>1. CASE Strings!CopyCount(t)
    BY <1>0, <2>1 DEF Strings!CopyCount
  <2>2. CASE Strings!Release(t)
    BY <1>0, <2>2 DEF Strings!Release
  <2>3. CASE Strings!AppendUnlock(t)
    BY <1>0, <1>1, <2>3 DEF Strings!AppendUnlock, Strings!At, StringTurn, Locked
  <2>4. QED
    BY <2>1, <2>2, <2>3
<1>3. \A x \in Strings!Allocated' :
        IF x \in Strings!Allocated
        THEN sHeap'[x].text = sHeap[x].text /\ sHeap'[x].capacity = sHeap[x].capacity
        ELSE HasRoom(sHeap', x, 1)
  BY <1>1, <1>2, CountsOfOneBlock DEF Strings!Allocated
<1>4. /\ \A s \in Threads \ {t} : sCall'[s] = sCall[s]
      /\ sCall'[t].at \notin Writing
  <2>1. CASE Strings!CopyCount(t)
    <3>1. sCall[t].at = "copy"
      BY <2>1 DEF Strings!CopyCount, Strings!At
    <3>2. PICK h : h = sCall[t].string
      OBVIOUS
    <3>3. h \in Strings!Handles /\ sPtr[h] \in Refs /\ Strings!ToRelease(t, h, sPtr[h])
      BY <1>1, <2>1, <3>1, <3>2, StringCall DEF Strings!CopyCount, StringTypes
    <3>4. QED
      BY <1>1, <3>3, StringToRelease DEF Writing
  <2>2. CASE Strings!Release(t)
    <3>1. sCall[t].at = "release" /\ (Strings!Return(t) \/ Strings!Goto(t, "free"))
      BY <2>2 DEF Strings!Release, Strings!At
    <3>2. CASE Strings!Return(t)
      BY <1>1, <3>2, StringReturn DEF Writing
    <3>3. CASE Strings!Goto(t, "free")
      BY <1>1, <3>1, <3>3, StringGoto DEF Writing
    <3>4. QED
      BY <3>1, <3>2, <3>3
  <2>3. CASE Strings!AppendUnlock(t)
    <3>1. /\ sCall[t].at = "unlock" /\ sCall[t].at \in Appending /\ "allocate" \in Appending
          /\ Strings!Return(t) \/ Strings!Goto(t, "allocate")
      BY <2>3 DEF Strings!AppendUnlock, Strings!AppendGoesOn, Strings!At, Appending, Locked
    <3>2. CASE Strings!Return(t)
      BY <1>1, <3>2, StringReturn DEF Writing
    <3>3. CASE Strings!Goto(t, "allocate")
      BY <1>1, <3>1, <3>3, StringGoto DEF Writing
    <3>4. QED
      BY <3>1, <3>2, <3>3
  <2>4. QED
    BY <2>1, <2>2, <2>3
<1>5. QED
  BY <1>3, <1>4, RoomKept

LEMMA LockRoom ==
    ASSUME StringInv, StringInv', StringRoom, NEW t \in Threads,
           Strings!AppendLock(t) \/ Strings!AppendOwned(t) \/ Strings!AppendScopeEnds(t)
    PROVE  StringRoom'
<1>0. PICK b : b = sCall[t].block
  OBVIOUS
<1>1. StringTypes /\ StringTurn(t)
  BY DEF StringInv
<1>2. /\ sCall[t].at \in {"lock", "owned", "scope"} /\ sCall[t].at \in Appending
      /\ \/ Strings!Return(t)
         \/ \E place \in Appending :
              Strings!Goto(t, place) /\ (place \in Writing => sCall[t].at \in Writing)
  <2>1. /\ "owned" \in Appending /\ "write" \in Appending /\ "scope" \in Appending
        /\ "unlock" \in Appending /\ "allocate" \in Appending /\ "lock" \in Appending
        /\ "scope" \notin Writing /\ "unlock" \notin Writing /\ "allocate" \notin Writing
        /\ "lock" \in Writing /\ "owned" \in Writing
    BY DEF Appending, Locked, Writing
  <2>2. CASE Strings!AppendLock(t)
    BY <2>1, <2>2 DEF Strings!AppendLock, Strings!At
  <2>3. CASE Strings!AppendOwned(t)
    BY <2>1, <2>3 DEF Strings!AppendOwned, Strings!At
  <2>4. CASE Strings!AppendScopeEnds(t)
    BY <2>1, <2>4 DEF Strings!AppendScopeEnds, Strings!AppendGoesOn, Strings!At
  <2>5. QED
    BY <2>2, <2>3, <2>4
<1>3. \A x \in Strings!Allocated' :
        IF x \in Strings!Allocated
        THEN sHeap'[x].text = sHeap[x].text /\ sHeap'[x].capacity = sHeap[x].capacity
        ELSE HasRoom(sHeap', x, 1)
  <2>1. CASE sHeap' = sHeap
    BY <2>1 DEF Strings!Allocated
  <2>2. CASE Strings!AppendLock(t) /\ sHeap' # sHeap
    <3>1. sCall[t].at = "lock" /\ sHeap' = [sHeap EXCEPT ![b].ref = 2]
      BY <1>0, <2>2 DEF Strings!AppendLock, Strings!At
    <3>2. b \in Strings!Allocated
      BY <1>0, <1>1, <3>1 DEF StringTurn
    <3>3. QED
      BY <1>1, <3>1, <3>2, CountsOfOneBlock
  <2>3. QED
    BY <2>1, <2>2 DEF Strings!AppendOwned, Strings!AppendScopeEnds
<1>4. /\ \A s \in Threads \ {t} : sCall'[s] = sCall[s]
      /\ sCall'[t].at \in Writing => sCall'[t].block = b /\ sCall[t].at \in Writing
  <2>1. CASE Strings!Return(t)
    BY <1>1, <2>1, StringReturn DEF Writing
  <2>2. ASSUME NEW place \in Appending, Strings!Goto(t, place),
               place \in Writing => sCall[t].at \in Writing
        PROVE  /\ \A s \in Threads \ {t} : sCall'[s] = sCall[s]
               /\ sCall'[t].at \in Writing => sCall'[t].block = b /\ sCall[t].at \in Writing
    BY <1>0, <1>1, <1>2, <2>2, StringGoto
  <2>3. QED
    BY <1>2, <2>1, <2>2
<1>5. sCall'[t].at \in Writing => b \in Strings!Allocated /\ HasRoom(sHeap, b, 2)
  BY <1>0, <1>4, WritersHaveBlocks DEF StringRoom
<1>6. QED
  BY <1>3, <1>4, <1>5, RoomKept

LEMMA FreeRoom ==
    ASSUME StringInv, StringInv', StringRoom, NEW t \in Threads, Strings!Free(t)
    PROVE  StringRoom'
<1>0. PICK b : b = sCall[t].block
  OBVIOUS
<1>1. StringTypes /\ sHeap' = [x \in Strings!Allocated \ {b} |-> sHeap[x]] /\ Strings!Return(t)
  BY <1>0 DEF Strings!Free, StringInv
<1>2. \A x \in Strings!Allocated' : x \in Strings!Allocated /\ sHeap'[x] = sHeap[x]
  BY <1>1 DEF Strings!Allocated
<1>3. sCall'[t].at \notin Writing /\ \A s \in Threads \ {t} : sCall'[s] = sCall[s]
  BY <1>1, StringReturn DEF Writing
<1>4. QED
  BY <1>2, <1>3, RoomKept

\* The letter that is written takes the room that was there for it, and nobody
\* else is about to write to the block.
LEMMA WriteRoom ==
    ASSUME StringInv, StringInv', StringRoom, NEW t \in Threads, Strings!AppendWrite(t)
    PROVE  StringRoom'
<1>0. PICK b, h, c : b = sCall[t].block /\ h = sCall[t].string /\ c = sCall[t].letter
  OBVIOUS
<1>1. /\ sCall[t].at = "write" /\ sCall[t].at \in Appending /\ sCall[t].at \in Locked
      /\ sHeap' = [sHeap EXCEPT ![b].text = Append(@, c)]
      /\ sCall' = [sCall EXCEPT ![t].at = "scope", ![t].wrote = TRUE]
  BY <1>0 DEF Strings!AppendWrite, Strings!At, Appending, Locked
<1>2. /\ StringTypes /\ h \in Strings!Handles /\ b = sPtr[h] /\ h[1] = t
      /\ b \in Strings!Allocated /\ sHeap[b].ref = 2 /\ Counts(t, b)
      /\ HasRoom(sHeap, b, 2)
  <2>1. StringTypes /\ StringTurn(t)
    BY DEF StringInv
  <2>2. QED
    BY <1>0, <1>1, <2>1, StringAppending
       DEF StringTurn, Locked, Counts, Counting, StringRoom, Writing
<1>3. ASSUME NEW s \in Threads \ {t}, sCall[s].at \in Writing PROVE sCall[s].block # b
  <2>1. /\ sCall[s].string \in Strings!Handles /\ sCall[s].block = sPtr[sCall[s].string]
        /\ sCall[s].string # h
    BY <1>2, <1>3, WritersHaveBlocks
  <2>2. QED
    BY <1>2, <2>1, CountsAreHigh
<1>4. PICK text : text = Append(sHeap[b].text, c)
  OBVIOUS
<1>5. /\ Strings!Allocated' = Strings!Allocated
      /\ sHeap'[b].text = text /\ sHeap'[b].capacity = sHeap[b].capacity
      /\ \A x \in Strings!Allocated \ {b} : sHeap'[x] = sHeap[x]
  <2>1. b \in DOMAIN sHeap /\ sHeap[b] \in StringBlocks
    BY <1>2 DEF StringTypes, Strings!Allocated
  <2>2. sHeap' = [sHeap EXCEPT ![b] = [sHeap[b] EXCEPT !.text = text]]
    BY <1>1, <1>4, <2>1
  <2>3. /\ [sHeap[b] EXCEPT !.text = text].text = text
        /\ [sHeap[b] EXCEPT !.text = text].capacity = sHeap[b].capacity
    BY <2>1 DEF StringBlocks
  <2>4. QED
    BY <2>1, <2>2, <2>3 DEF Strings!Allocated
<1>6. HasRoom(sHeap', b, 1)
  <2>1. sHeap[b].text \in Seq(Letters) /\ sHeap[b].capacity \in Nat
    BY <1>2 DEF StringTypes, StringBlocks
  <2>2. Len(text) = Len(sHeap[b].text) + 1 /\ Len(sHeap[b].text) \in Nat
    <3>1. c \in Letters
      BY <1>0, <1>1, <1>2, StringCall
    <3>2. QED
      BY <1>4, <2>1, <3>1
  <2>3. QED
    BY <1>2, <1>5, <2>1, <2>2 DEF HasRoom
<1>7. /\ \A s \in Threads \ {t} : sCall'[s] = sCall[s]
      /\ sCall'[t].at = "scope"
  <2>1. sCall \in [Threads -> StringCalls] /\ sCall[t] \in StringCalls
    BY <1>2 DEF StringTypes
  <2>2. sCall[t] \in [at : Appending, string : Strings!Handles, block : Refs,
                      letter : Letters, wrote : BOOLEAN]
    BY <1>1, <2>1 DEF StringCalls, Appending, Locked
  <2>3. PICK r : r = [sCall[t] EXCEPT !.at = "scope", !.wrote = TRUE]
    OBVIOUS
  <2>4. r.at = "scope"
    BY <2>2, <2>3
  <2>5. sCall' = [sCall EXCEPT ![t] = r]
    BY <1>1, <2>1, <2>3
  <2>6. QED
    BY <2>1, <2>4, <2>5
<1>8. \A x \in Strings!Allocated' : HasRoom(sHeap', x, 1)
  BY <1>5, <1>6 DEF StringRoom, HasRoom
<1>9. ASSUME NEW s \in Threads, sCall'[s].at \in Writing
      PROVE  HasRoom(sHeap', sCall'[s].block, 2)
  <2>1. s # t /\ sCall'[s] = sCall[s]
    BY <1>7, <1>9 DEF Writing
  <2>2. sCall[s].block \in Strings!Allocated \ {b} /\ HasRoom(sHeap, sCall[s].block, 2)
    BY <1>3, <1>9, <2>1, WritersHaveBlocks DEF StringRoom
  <2>3. QED
    BY <1>5, <2>1, <2>2 DEF HasRoom
<1>10. QED
  BY <1>8, <1>9 DEF StringRoom, HasRoom

\* A new block.
LEMMA NewRoom ==
    ASSUME StringTypes, NEW b \in Blocks \ Strings!Allocated, NEW text, NEW capacity,
           Strings!Allocate(b, text, capacity), Len(text) + 1 <= capacity
    PROVE  \A x \in Strings!Allocated' :
             IF x \in Strings!Allocated
             THEN sHeap'[x].text = sHeap[x].text /\ sHeap'[x].capacity = sHeap[x].capacity
             ELSE HasRoom(sHeap', x, 1)
<1>1. sHeap' = [x \in Strings!Allocated \cup {b} |->
                  IF x = b THEN [ref |-> 1, text |-> text, capacity |-> capacity] ELSE sHeap[x]]
  BY DEF Strings!Allocate
<1>2. Strings!Allocated' = Strings!Allocated \cup {b}
  BY <1>1 DEF Strings!Allocated
<1>3. /\ \A x \in Strings!Allocated : sHeap'[x] = sHeap[x]
      /\ sHeap'[b].text = text /\ sHeap'[b].capacity = capacity
  BY <1>1
<1>4. QED
  BY <1>2, <1>3 DEF HasRoom

LEMMA AllocateRoom ==
    ASSUME StringInv, StringInv', StringRoom, NEW t \in Threads, Strings!AppendAllocate(t)
    PROVE  StringRoom'
<1>0. PICK old, h, c : old = sCall[t].block /\ h = sCall[t].string /\ c = sCall[t].letter
  OBVIOUS
<1>1. sCall[t].at = "allocate" /\ sCall[t].at \in Appending
  BY DEF Strings!AppendAllocate, Strings!At, Appending
<1>2. StringTypes /\ h \in Strings!Handles /\ old \in Refs /\ c \in Letters
  <2>1. StringTypes
    BY DEF StringInv
  <2>2. QED
    BY <1>0, <1>1, <2>1, StringCall
<1>3. CASE Strings!Return(t) /\ UNCHANGED <<sPtr, sHeap>>
  <2>1. sCall'[t].at \notin Writing /\ \A s \in Threads \ {t} : sCall'[s] = sCall[s]
    BY <1>2, <1>3, StringReturn DEF Writing
  <2>2. \A x \in Strings!Allocated' : x \in Strings!Allocated /\ sHeap'[x] = sHeap[x]
    BY <1>3 DEF Strings!Allocated
  <2>3. QED
    BY <2>1, <2>2, RoomKept
<1>4. ASSUME NEW b \in Blocks \ Strings!Allocated, NEW text, text = Append(Strings!Text(old), c),
             Strings!Allocate(b, text, Len(text) + 1 + Slack), Strings!ToRelease(t, h, old)
      PROVE  StringRoom'
  <2>1. Len(text) + 1 <= Len(text) + 1 + Slack
    <3>1. Slack \in Nat
      BY ObjectsAssumption DEF Strings!SharedStringAssumption
    <3>2. Strings!Text(old) \in Seq(Letters)
      <4>1. (CHOOSE d \in Letters : TRUE) \in Letters
        BY ObjectsAssumption DEF Strings!SharedStringAssumption
      <4>2. old \in Strings!Allocated => sHeap[old].text \in Seq(Letters)
        BY <1>2 DEF StringTypes, StringBlocks
      <4>3. QED
        BY <4>1, <4>2 DEF Strings!Text
    <3>3. Len(text) \in Nat
      BY <1>2, <1>4, <3>2, AppendProperties, LenProperties
    <3>4. QED
      BY <3>1, <3>3
  <2>2. PICK capacity : capacity = Len(text) + 1 + Slack
    OBVIOUS
  <2>3. \A x \in Strings!Allocated' :
          IF x \in Strings!Allocated
          THEN sHeap'[x].text = sHeap[x].text /\ sHeap'[x].capacity = sHeap[x].capacity
          ELSE HasRoom(sHeap', x, 1)
    BY <1>2, <1>4, <2>1, <2>2, NewRoom
  <2>4. sCall'[t].at \notin Writing /\ \A s \in Threads \ {t} : sCall'[s] = sCall[s]
    BY <1>2, <1>4, StringToRelease DEF Writing
  <2>5. QED
    BY <2>3, <2>4, RoomKept
<1>5. QED
  BY <1>0, <1>3, <1>4 DEF Strings!AppendAllocate

LEMMA CallRoom ==
    ASSUME StringInv, StringInv', StringRoom, NEW t \in Threads, Strings!Call(t)
    PROVE  StringRoom'
<1>1. StringTypes
  BY DEF StringInv
<1>2. PICK h \in Strings!Handles :
        \/ \E c \in Letters : Strings!Make(t, h, c) \/ Strings!AppendBegin(t, h, c)
        \/ Strings!MakeLiteral(t, h) \/ Strings!Destroy(t, h)
        \/ \E g \in Strings!Handles : Strings!CopyRead(t, h, g) \/ Strings!Move(t, h, g)
  BY DEF Strings!Call
<1>3. ASSUME NEW c \in Letters, Strings!Make(t, h, c) PROVE StringRoom'
  <2>1. PICK b \in Blocks \ Strings!Allocated, room \in {0, Slack} :
          Strings!Allocate(b, <<c>>, 2 + room)
    BY <1>3 DEF Strings!Make
  <2>2. PICK text, capacity : text = <<c>> /\ capacity = 2 + room
    OBVIOUS
  <2>3. Len(text) + 1 <= capacity
    <3>1. room \in Nat
      BY ObjectsAssumption DEF Strings!SharedStringAssumption
    <3>2. Len(text) = 1
      BY <2>2
    <3>3. QED
      BY <2>2, <3>1, <3>2
  <2>4. \A x \in Strings!Allocated' :
          IF x \in Strings!Allocated
          THEN sHeap'[x].text = sHeap[x].text /\ sHeap'[x].capacity = sHeap[x].capacity
          ELSE HasRoom(sHeap', x, 1)
    BY <1>1, <2>1, <2>2, <2>3, NewRoom
  <2>5. sCall' = sCall /\ sCall[t].at = "idle" /\ "idle" \notin Writing
    BY <1>3 DEF Strings!Make, Strings!Ready, Strings!At, Writing
  <2>6. QED
    BY <2>4, <2>5, RoomKept
<1>4. ASSUME sHeap' = sHeap, \A s \in Threads \ {t} : sCall'[s] = sCall[s],
             sCall'[t].at \in Writing =>
               sCall'[t].block \in Strings!Allocated /\ HasRoom(sHeap, sCall'[t].block, 2)
      PROVE  StringRoom'
  <2>1. \A x \in Strings!Allocated' : x \in Strings!Allocated /\ sHeap'[x] = sHeap[x]
    BY <1>4 DEF Strings!Allocated
  <2>2. QED
    BY <1>4, <2>1, RoomKept
<1>5. ASSUME NEW c \in Letters, Strings!AppendBegin(t, h, c) PROVE StringRoom'
  <2>1. PICK b, fits : /\ b = sPtr[h]
                       /\ fits <=> b \in Strings!Allocated
                                   /\ sHeap[b].capacity >= Len(sHeap[b].text) + 2
    BY Zenon
  <2>2. PICK r : r = [at |-> IF fits THEN "lock" ELSE "allocate", string |-> h, block |-> b,
                      letter |-> c, wrote |-> FALSE]
    OBVIOUS
  <2>3. sCall' = [sCall EXCEPT ![t] = r] /\ sHeap' = sHeap
    BY <1>5, <2>1, <2>2 DEF Strings!AppendBegin
  <2>4. sCall'[t] = r /\ \A s \in Threads \ {t} : sCall'[s] = sCall[s]
    BY <1>1, <2>3 DEF StringTypes
  <2>5. r.at \in Writing => fits
    BY <2>2 DEF Writing
  <2>6. fits => b \in Strings!Allocated /\ HasRoom(sHeap, b, 2)
    <3>1. b \in Strings!Allocated => sHeap[b].capacity \in Nat /\ Len(sHeap[b].text) \in Nat
      BY <1>1, LenProperties DEF StringTypes, StringBlocks
    <3>2. QED
      BY <2>1, <3>1 DEF HasRoom
  <2>7. r.block = b
    BY <2>2
  <2>8. QED
    BY <1>4, <2>3, <2>4, <2>5, <2>6, <2>7
<1>6. ASSUME Strings!MakeLiteral(t, h) PROVE StringRoom'
  BY <1>4, <1>6 DEF Strings!MakeLiteral, Strings!Ready, Strings!At, Writing
<1>7. ASSUME Strings!Destroy(t, h) PROVE StringRoom'
  <2>1. sPtr[h] \in Refs /\ Strings!ToRelease(t, h, sPtr[h]) /\ sHeap' = sHeap
    BY <1>1, <1>7 DEF Strings!Destroy, StringTypes
  <2>2. QED
    BY <1>1, <1>4, <2>1, StringToRelease DEF Writing
<1>8. ASSUME NEW g \in Strings!Handles, Strings!CopyRead(t, h, g) PROVE StringRoom'
  <2>1. PICK r : r = [at |-> "copy", string |-> h, source |-> g, block |-> sPtr[g]]
    OBVIOUS
  <2>2. sCall' = [sCall EXCEPT ![t] = r] /\ sHeap' = sHeap
    BY <1>8, <2>1 DEF Strings!CopyRead
  <2>3. sCall'[t] = r /\ \A s \in Threads \ {t} : sCall'[s] = sCall[s]
    BY <1>1, <2>2 DEF StringTypes
  <2>4. r.at \notin Writing
    BY <2>1 DEF Writing
  <2>5. QED
    BY <1>4, <2>2, <2>3, <2>4
<1>9. ASSUME NEW g \in Strings!Handles, Strings!Move(t, h, g) PROVE StringRoom'
  BY <1>4, <1>9 DEF Strings!Move, Strings!Ready, Strings!At, Writing
<1>10. QED
  BY <1>2, <1>3, <1>5, <1>6, <1>7, <1>8, <1>9

\* A block always has room for the zero behind its text.
THEOREM BlocksHaveRoom == Spec => []StringRoom
<1>1. ASSUME Init PROVE StringRoom
  <2>1. sHeap = [b \in {} |-> 0] /\ sCall = [t \in Threads |-> Strings!Idle]
    BY <1>1, Starts DEF Strings!Init
  <2>2. Strings!Allocated = {} /\ Strings!Idle.at = "idle"
    BY <2>1 DEF Strings!Allocated, Strings!Idle
  <2>3. \A t \in Threads : sCall[t].at \notin Writing
    BY <2>1, <2>2 DEF Writing
  <2>4. QED
    BY <2>2, <2>3 DEF StringRoom
<1>2. ASSUME StringInv, StringInv', StringRoom, [Next]_mcvars PROVE StringRoom'
  <2>1. [Strings!Next]_stringVars
    BY <1>2, Moves
  <2>2. CASE UNCHANGED stringVars
    BY <1>2, <2>2 DEF stringVars, StringRoom, HasRoom, Strings!Allocated
  <2>3. ASSUME NEW t \in Threads, Strings!Step(t) PROVE StringRoom'
    BY <1>2, <2>3, CountRoom, LockRoom, FreeRoom, WriteRoom, AllocateRoom DEF Strings!Step
  <2>4. ASSUME NEW t \in Threads, Strings!Call(t) PROVE StringRoom'
    BY <1>2, <2>4, CallRoom
  <2>5. QED
    BY <2>1, <2>2, <2>3, <2>4 DEF Strings!Next
<1>3. QED
  BY <1>1, <1>2, StringInvariant, PTL DEF Spec

----------------------------------------------------------------------------
(* Strings: the values *)

\* What the block b holds when the heap is hp; what the strings hold.
TextIn(hp, b) ==
    IF b \in DOMAIN hp THEN hp[b].text
    ELSE IF b = Literal THEN <<CHOOSE c \in Letters : TRUE>> ELSE <<>>
StringVal == [h \in Strings!Handles |-> Strings!Text(sPtr[h])]

LEMMA StringValue ==
    /\ StringVal = [h \in Strings!Handles |-> TextIn(sHeap, sPtr[h])]
    /\ StringVal' = [h \in Strings!Handles |-> TextIn(sHeap', sPtr'[h])]
BY DEF StringVal, TextIn, Strings!Text, Strings!Allocated

\* What a step of the values may be.
LEMMA StringValueStep ==
    ASSUME \/ \E h \in Strings!Handles :
                \/ \E c \in Letters : StringVal' = [StringVal EXCEPT ![h] = <<c>>]
                \/ \E c \in Letters : StringVal' = [StringVal EXCEPT ![h] = Append(StringVal[h], c)]
                \/ \E g \in Strings!Handles : StringVal' = [StringVal EXCEPT ![h] = StringVal[g]]
                \/ \E g \in Strings!Handles :
                     StringVal' = [StringVal EXCEPT ![h] = StringVal[g], ![g] = <<>>]
                \/ StringVal' = [StringVal EXCEPT ![h] = <<>>]
           \/ StringVal' = StringVal
    PROVE  [Strings!Plain!Next]_StringVal
<1>1. CASE StringVal' = StringVal
  BY <1>1
<1>2. ASSUME NEW h \in Strings!Handles,
             \/ \E c \in Letters : StringVal' = [StringVal EXCEPT ![h] = <<c>>]
             \/ \E c \in Letters : StringVal' = [StringVal EXCEPT ![h] = Append(StringVal[h], c)]
             \/ \E g \in Strings!Handles : StringVal' = [StringVal EXCEPT ![h] = StringVal[g]]
             \/ \E g \in Strings!Handles :
                  StringVal' = [StringVal EXCEPT ![h] = StringVal[g], ![g] = <<>>]
             \/ StringVal' = [StringVal EXCEPT ![h] = <<>>]
      PROVE  Strings!Plain!Next
  BY <1>2 DEF Strings!Plain!Next, Strings!Plain!Assign, StringVal
<1>3. QED
  BY <1>1, <1>2

\* A step that leaves pointers and texts leaves the values.
LEMMA ValuesStay ==
    ASSUME UNCHANGED sPtr,
           \A h \in Strings!Handles : TextIn(sHeap', sPtr[h]) = TextIn(sHeap, sPtr[h])
    PROVE  StringVal' = StringVal
BY StringValue

\* One string turns to the block b; the texts of the others stay.
LEMMA ValueChanges ==
    ASSUME StringTypes, NEW h \in Strings!Handles, NEW b, sPtr' = [sPtr EXCEPT ![h] = b],
           NEW text, TextIn(sHeap', b) = text,
           \A k \in Strings!Handles \ {h} : TextIn(sHeap', sPtr[k]) = TextIn(sHeap, sPtr[k])
    PROVE  StringVal' = [StringVal EXCEPT ![h] = text]
<1>1. sPtr'[h] = b /\ \A k \in Strings!Handles \ {h} : sPtr'[k] = sPtr[k]
  BY DEF StringTypes
<1>2. \A k \in Strings!Handles : TextIn(sHeap', sPtr'[k]) = IF k = h THEN text ELSE TextIn(sHeap, sPtr[k])
  BY <1>1
<1>3. QED
  BY <1>2, StringValue

\* Counts are no texts.
LEMMA CountsAreNoTexts ==
    ASSUME StringTypes, NEW b \in Strings!Allocated, NEW n \in Nat,
           sHeap' = [sHeap EXCEPT ![b].ref = n], NEW x
    PROVE  TextIn(sHeap', x) = TextIn(sHeap, x)
<1>1. DOMAIN sHeap' = DOMAIN sHeap /\ b \in DOMAIN sHeap
  BY DEF Strings!Allocated
<1>2. sHeap' = [sHeap EXCEPT ![b] = [sHeap[b] EXCEPT !.ref = n]] /\ sHeap[b] \in StringBlocks
  BY DEF StringTypes
<1>3. [sHeap[b] EXCEPT !.ref = n].text = sHeap[b].text
  BY <1>2 DEF StringBlocks
<1>4. \A y \in DOMAIN sHeap : sHeap'[y].text = sHeap[y].text
  BY <1>1, <1>2, <1>3
<1>5. QED
  BY <1>1, <1>4 DEF TextIn

\* Nor does a new block change what the others hold.
LEMMA NewBlockIsApart ==
    ASSUME StringTypes, NEW b \in Blocks \ Strings!Allocated, NEW text, NEW capacity,
           Strings!Allocate(b, text, capacity)
    PROVE  /\ TextIn(sHeap', b) = text
           /\ \A x \in Known : TextIn(sHeap', x) = TextIn(sHeap, x)
<1>1. sHeap' = [x \in Strings!Allocated \cup {b} |->
                  IF x = b THEN [ref |-> 1, text |-> text, capacity |-> capacity] ELSE sHeap[x]]
  BY DEF Strings!Allocate
<1>2. \A x \in Known : x # b /\ (x \in DOMAIN sHeap' <=> x \in DOMAIN sHeap)
  BY <1>1, StringConstants DEF Known, Strings!Allocated
<1>3. \A x \in Known : x \in DOMAIN sHeap => sHeap'[x] = sHeap[x]
  BY <1>1, <1>2 DEF Strings!Allocated
<1>4. TextIn(sHeap', b) = text
  BY <1>1 DEF TextIn
<1>5. QED
  BY <1>2, <1>3, <1>4 DEF TextIn

LEMMA StaticTexts ==
    ASSUME StringTypes
    PROVE  /\ TextIn(sHeap, Empty) = <<>>
           /\ \E c \in Letters : TextIn(sHeap, Literal) = <<c>>
<1>1. Empty \notin DOMAIN sHeap /\ Literal \notin DOMAIN sHeap /\ Empty # Literal
  BY StringConstants DEF StringTypes, Strings!Allocated
<1>2. (CHOOSE c \in Letters : TRUE) \in Letters
  BY ObjectsAssumption DEF Strings!SharedStringAssumption
<1>3. QED
  BY <1>1, <1>2 DEF TextIn

LEMMA MakeValue ==
    ASSUME StringInv, NEW t \in Threads, NEW h \in Strings!Handles,
           (\E c \in Letters : Strings!Make(t, h, c)) \/ Strings!MakeLiteral(t, h)
    PROVE  [Strings!Plain!Next]_StringVal
<1>0. StringTypes /\ \A k \in Strings!Handles : sPtr[k] \in Known
  BY DEF StringInv
<1>1. ASSUME NEW c \in Letters, Strings!Make(t, h, c)
      PROVE  StringVal' = [StringVal EXCEPT ![h] = <<c>>]
  <2>1. PICK b \in Blocks \ Strings!Allocated, room \in {0, Slack} :
          /\ Strings!Allocate(b, <<c>>, 2 + room) /\ sPtr' = [sPtr EXCEPT ![h] = b]
    BY <1>1 DEF Strings!Make
  <2>2. TextIn(sHeap', b) = <<c>> /\ \A x \in Known : TextIn(sHeap', x) = TextIn(sHeap, x)
    BY <1>0, <2>1, NewBlockIsApart
  <2>3. QED
    BY <1>0, <2>1, <2>2, ValueChanges
<1>2. ASSUME Strings!MakeLiteral(t, h)
      PROVE  \E c \in Letters : StringVal' = [StringVal EXCEPT ![h] = <<c>>]
  <2>1. sPtr' = [sPtr EXCEPT ![h] = Literal] /\ sHeap' = sHeap
    BY <1>2 DEF Strings!MakeLiteral
  <2>2. PICK c \in Letters : TextIn(sHeap, Literal) = <<c>>
    BY <1>0, StaticTexts
  <2>3. StringVal' = [StringVal EXCEPT ![h] = <<c>>]
    BY <1>0, <2>1, <2>2, ValueChanges
  <2>4. QED
    BY <2>3
<1>3. QED
  BY <1>1, <1>2, StringValueStep

LEMMA DestroyValue ==
    ASSUME StringInv, NEW t \in Threads, NEW h \in Strings!Handles, Strings!Destroy(t, h)
    PROVE  [Strings!Plain!Next]_StringVal
<1>1. StringTypes /\ sPtr' = [sPtr EXCEPT ![h] = Empty] /\ sHeap' = sHeap
  BY DEF StringInv, Strings!Destroy
<1>2. StringVal' = [StringVal EXCEPT ![h] = <<>>]
  BY <1>1, StaticTexts, ValueChanges
<1>3. QED
  BY <1>2, StringValueStep

LEMMA MoveValue ==
    ASSUME StringInv, NEW t \in Threads, NEW h \in Strings!Handles, NEW g \in Strings!Handles,
           Strings!Move(t, h, g)
    PROVE  [Strings!Plain!Next]_StringVal
<1>1. /\ StringTypes /\ sPtr' = [sPtr EXCEPT ![h] = sPtr[g], ![g] = Empty] /\ sHeap' = sHeap
      /\ h # g
  BY DEF StringInv, Strings!Move
<1>2. \A k \in Strings!Handles :
        sPtr'[k] = IF k = g THEN Empty ELSE IF k = h THEN sPtr[g] ELSE sPtr[k]
  BY <1>1 DEF StringTypes
<1>3. TextIn(sHeap, Empty) = <<>>
  BY <1>1, StaticTexts
<1>4. \A k \in Strings!Handles : StringVal'[k] =
        IF k = g THEN <<>> ELSE IF k = h THEN StringVal[g] ELSE StringVal[k]
  <2>1. ASSUME NEW k \in Strings!Handles
        PROVE  TextIn(sHeap', sPtr'[k]) =
                 IF k = g THEN <<>> ELSE IF k = h THEN TextIn(sHeap, sPtr[g]) ELSE TextIn(sHeap, sPtr[k])
    <3>1. sHeap' = sHeap /\ sPtr'[k] = IF k = g THEN Empty ELSE IF k = h THEN sPtr[g] ELSE sPtr[k]
      BY <1>1, <1>2
    <3>2. PICK p : p = sPtr'[k]
      OBVIOUS
    <3>3. TextIn(sHeap', sPtr'[k]) = TextIn(sHeap, p)
      BY <3>1, <3>2
    <3>4. QED
      BY <1>3, <3>1, <3>2, <3>3
  <2>2. \A k \in Strings!Handles :
          StringVal[k] = TextIn(sHeap, sPtr[k]) /\ StringVal'[k] = TextIn(sHeap', sPtr'[k])
    BY StringValue
  <2>3. QED
    BY <2>1, <2>2
<1>5. StringVal' = [StringVal EXCEPT ![h] = StringVal[g], ![g] = <<>>]
  <2>1. /\ StringVal = [k \in Strings!Handles |-> StringVal[k]]
        /\ StringVal' = [k \in Strings!Handles |-> StringVal'[k]]
    BY StringValue
  <2>2. QED
    BY <1>1, <1>4, <2>1
<1>6. QED
  BY <1>5, StringValueStep

LEMMA CopyCountValue ==
    ASSUME StringInv, NEW t \in Threads, Strings!CopyCount(t)
    PROVE  [Strings!Plain!Next]_StringVal
<1>0. PICK b, h, g : b = sCall[t].block /\ h = sCall[t].string /\ g = sCall[t].source
  OBVIOUS
<1>1. /\ StringTypes /\ StringTurn(t) /\ sCall[t].at = "copy"
      /\ sPtr' = [sPtr EXCEPT ![h] = b]
      /\ sHeap' = IF b \in Strings!Allocated THEN [sHeap EXCEPT ![b].ref = @ + 1] ELSE sHeap
  BY <1>0 DEF StringInv, Strings!CopyCount, Strings!At
<1>2. h \in Strings!Handles /\ g \in Strings!Handles /\ b = sPtr[g]
  BY <1>0, <1>1, StringCall DEF StringTurn
<1>3. \A x : TextIn(sHeap', x) = TextIn(sHeap, x)
  <2>1. CASE b \in Strings!Allocated
    <3>1. sHeap[b].ref \in Nat
      BY <2>1, CountsAreHigh
    <3>2. PICK n \in Nat : n = sHeap[b].ref + 1
      BY <3>1
    <3>3. sHeap' = [sHeap EXCEPT ![b].ref = n]
      BY <1>1, <2>1, <3>2
    <3>4. QED
      BY <1>1, <2>1, <3>3, CountsAreNoTexts
  <2>2. CASE b \notin Strings!Allocated
    BY <1>1, <2>2
  <2>3. QED
    BY <2>1, <2>2
<1>4. PICK text : text = StringVal[g]
  OBVIOUS
<1>5. TextIn(sHeap', b) = text
  BY <1>2, <1>3, <1>4, StringValue
<1>6. StringVal' = [StringVal EXCEPT ![h] = text]
  <2>1. StringTypes /\ sPtr' = [sPtr EXCEPT ![h] = b] /\ h \in Strings!Handles
    BY <1>1, <1>2
  <2>2. \A k \in Strings!Handles \ {h} : TextIn(sHeap', sPtr[k]) = TextIn(sHeap, sPtr[k])
    BY <1>3
  <2>3. QED
    BY <1>5, <2>1, <2>2, ValueChanges
<1>7. QED
  BY <1>2, <1>4, <1>6, StringValueStep

\* Steps that change counts at most: nobody sees them.
LEMMA CountsOnly ==
    ASSUME StringInv, NEW t \in Threads,
           \/ Strings!Release(t) \/ Strings!AppendLock(t) \/ Strings!AppendUnlock(t)
           \/ Strings!AppendOwned(t) \/ Strings!AppendScopeEnds(t)
    PROVE  StringVal' = StringVal
<1>0. PICK b : b = sCall[t].block
  OBVIOUS
<1>1. StringTypes /\ sPtr' = sPtr
  BY DEF StringInv, Strings!Release, Strings!AppendLock, Strings!AppendUnlock,
         Strings!AppendOwned, Strings!AppendScopeEnds
<1>2. CASE sHeap' = sHeap
  BY <1>1, <1>2, ValuesStay
<1>3. ASSUME b \in Strings!Allocated, NEW n \in Nat, sHeap' = [sHeap EXCEPT ![b].ref = n]
      PROVE  StringVal' = StringVal
  <2>1. \A x : TextIn(sHeap', x) = TextIn(sHeap, x)
    BY <1>1, <1>3, CountsAreNoTexts
  <2>2. QED
    BY <1>1, <2>1, ValuesStay
<1>4. ASSUME b \in Strings!Allocated, sHeap' = [sHeap EXCEPT ![b].ref = @ - 1],
             \E h \in Strings!Handles : TRUE, Counts(t, b)
      PROVE  StringVal' = StringVal
  <2>1. sHeap[b].ref \in Nat /\ sHeap[b].ref >= 1
    BY <1>4, CountsAreHigh
  <2>2. PICK n \in Nat : n = sHeap[b].ref - 1
    BY <2>1
  <2>3. sHeap' = [sHeap EXCEPT ![b].ref = n]
    BY <1>4, <2>2
  <2>4. QED
    BY <1>3, <1>4, <2>3
<1>5. CASE Strings!Release(t)
  <2>1. sCall[t].at = "release"
    BY <1>5 DEF Strings!Release, Strings!At
  <2>2. Counts(t, b) /\ \E h \in Strings!Handles : TRUE
    BY <1>0, <1>1, <2>1, StringCall DEF Counts, Counting
  <2>3. sHeap' = sHeap \/ (b \in Strings!Allocated /\ sHeap' = [sHeap EXCEPT ![b].ref = @ - 1])
    BY <1>0, <1>5 DEF Strings!Release
  <2>4. QED
    BY <1>2, <1>4, <2>2, <2>3
<1>6. CASE Strings!AppendUnlock(t)
  <2>1. sCall[t].at = "unlock" /\ sHeap' = [sHeap EXCEPT ![b].ref = @ - 1]
    BY <1>0, <1>6 DEF Strings!AppendUnlock, Strings!At
  <2>2. StringTurn(t)
    BY DEF StringInv
  <2>3. Counts(t, b) /\ b \in Strings!Allocated /\ \E h \in Strings!Handles : TRUE
    BY <1>0, <1>1, <2>1, <2>2, StringCall DEF Counts, Counting, Locked, StringTurn
  <2>4. QED
    BY <1>4, <2>1, <2>3
<1>7. CASE Strings!AppendLock(t)
  <2>1. sCall[t].at = "lock"
    BY <1>7 DEF Strings!AppendLock, Strings!At
  <2>2. b \in Strings!Allocated
    BY <1>0, <2>1 DEF StringInv, StringTurn
  <2>3. 2 \in Nat /\ (sHeap' = sHeap \/ sHeap' = [sHeap EXCEPT ![b].ref = 2])
    BY <1>0, <1>7 DEF Strings!AppendLock
  <2>4. QED
    BY <1>2, <1>3, <2>2, <2>3
<1>8. CASE Strings!AppendOwned(t) \/ Strings!AppendScopeEnds(t)
  BY <1>2, <1>8 DEF Strings!AppendOwned, Strings!AppendScopeEnds
<1>9. QED
  BY <1>5, <1>6, <1>7, <1>8

\* A block that is freed is no string's.
LEMMA FreeValue ==
    ASSUME StringInv, NEW t \in Threads, Strings!Free(t)
    PROVE  StringVal' = StringVal
<1>0. PICK b : b = sCall[t].block
  OBVIOUS
<1>1. /\ sPtr' = sPtr /\ sHeap' = [x \in Strings!Allocated \ {b} |-> sHeap[x]]
      /\ sCall[t].at = "free"
  BY <1>0 DEF Strings!Free, Strings!At
<1>2. b \in Strings!Allocated /\ sHeap[b].ref = 0
  BY <1>0, <1>1 DEF StringInv, StringTurn
<1>3. \A h \in Strings!Handles : sPtr[h] # b
  BY <1>2, CountsAreHigh
<1>4. \A x : x # b => TextIn(sHeap', x) = TextIn(sHeap, x)
  BY <1>1 DEF TextIn, Strings!Allocated
<1>5. QED
  BY <1>1, <1>3, <1>4, ValuesStay

\* The block that is written to in place is one string's alone.
LEMMA AppendWriteValue ==
    ASSUME StringInv, NEW t \in Threads, Strings!AppendWrite(t)
    PROVE  [Strings!Plain!Next]_StringVal
<1>0. PICK b, h, c : b = sCall[t].block /\ h = sCall[t].string /\ c = sCall[t].letter
  OBVIOUS
<1>1. /\ sCall[t].at = "write" /\ sCall[t].at \in Appending /\ sPtr' = sPtr
      /\ sHeap' = [sHeap EXCEPT ![b].text = Append(@, c)]
  BY <1>0 DEF Strings!AppendWrite, Strings!At, Appending, Locked
<1>2. /\ StringTypes /\ h \in Strings!Handles /\ b = sPtr[h] /\ c \in Letters
      /\ b \in Strings!Allocated /\ sHeap[b].ref = 2 /\ Counts(t, b)
  <2>1. StringTypes /\ StringTurn(t)
    BY DEF StringInv
  <2>2. QED
    BY <1>0, <1>1, <2>1, StringAppending, StringCall DEF StringTurn, Locked, Counts, Counting
<1>3. \A k \in Strings!Handles \ {h} : sPtr[k] # b
  BY <1>2, CountsAreHigh
<1>4. PICK text : text = Append(sHeap[b].text, c)
  OBVIOUS
<1>5. /\ DOMAIN sHeap' = DOMAIN sHeap /\ b \in DOMAIN sHeap
      /\ sHeap'[b].text = text /\ \A x \in DOMAIN sHeap \ {b} : sHeap'[x] = sHeap[x]
  <2>1. b \in DOMAIN sHeap /\ sHeap[b] \in StringBlocks
    BY <1>2 DEF StringTypes, Strings!Allocated
  <2>2. sHeap' = [sHeap EXCEPT ![b] = [sHeap[b] EXCEPT !.text = text]]
    BY <1>1, <1>4, <2>1
  <2>3. [sHeap[b] EXCEPT !.text = text].text = text
    BY <2>1 DEF StringBlocks
  <2>4. QED
    BY <2>1, <2>2, <2>3
<1>6. TextIn(sHeap', b) = Append(TextIn(sHeap, b), c)
  BY <1>4, <1>5 DEF TextIn
<1>7. \A x : x # b => TextIn(sHeap', x) = TextIn(sHeap, x)
  BY <1>5 DEF TextIn
<1>8. text = Append(StringVal[h], c) /\ TextIn(sHeap', b) = text
  <2>1. StringVal[h] = TextIn(sHeap, b)
    BY <1>2, StringValue
  <2>2. QED
    BY <1>4, <1>5, <1>6, <2>1 DEF TextIn
<1>9. sPtr' = [sPtr EXCEPT ![h] = b]
  BY <1>1, <1>2 DEF StringTypes
<1>10. \A k \in Strings!Handles \ {h} : TextIn(sHeap', sPtr[k]) = TextIn(sHeap, sPtr[k])
  BY <1>3, <1>7
<1>11. StringVal' = [StringVal EXCEPT ![h] = text]
  BY <1>2, <1>8, <1>9, <1>10, ValueChanges
<1>12. QED
  BY <1>2, <1>8, <1>11, StringValueStep

LEMMA AppendAllocateValue ==
    ASSUME StringInv, NEW t \in Threads, Strings!AppendAllocate(t)
    PROVE  [Strings!Plain!Next]_StringVal
<1>0. PICK old, h, c : old = sCall[t].block /\ h = sCall[t].string /\ c = sCall[t].letter
  OBVIOUS
<1>1. sCall[t].at = "allocate" /\ sCall[t].at \in Appending
  BY DEF Strings!AppendAllocate, Strings!At, Appending
<1>2. /\ StringTypes /\ h \in Strings!Handles /\ old = sPtr[h] /\ c \in Letters
      /\ \A k \in Strings!Handles : sPtr[k] \in Known
  <2>1. StringTypes
    BY DEF StringInv
  <2>2. QED
    BY <1>0, <1>1, <2>1, StringAppending, StringCall DEF StringInv
<1>3. CASE UNCHANGED <<sPtr, sHeap>>
  BY <1>3, ValuesStay, StringValueStep
<1>4. ASSUME NEW b \in Blocks \ Strings!Allocated, NEW text, text = Append(Strings!Text(old), c),
             Strings!Allocate(b, text, Len(text) + 1 + Slack), sPtr' = [sPtr EXCEPT ![h] = b]
      PROVE  [Strings!Plain!Next]_StringVal
  <2>1. TextIn(sHeap', b) = text /\ \A x \in Known : TextIn(sHeap', x) = TextIn(sHeap, x)
    <3>1. PICK capacity : capacity = Len(text) + 1 + Slack
      OBVIOUS
    <3>2. QED
      BY <1>2, <1>4, <3>1, NewBlockIsApart
  <2>2. StringVal' = [StringVal EXCEPT ![h] = text]
    BY <1>2, <1>4, <2>1, ValueChanges
  <2>3. text = Append(StringVal[h], c)
    BY <1>2, <1>4 DEF StringVal
  <2>4. QED
    BY <1>2, <2>2, <2>3, StringValueStep
<1>5. QED
  BY <1>0, <1>3, <1>4 DEF Strings!AppendAllocate

LEMMA StringValuesStep ==
    ASSUME StringInv, [Strings!Next]_stringVars
    PROVE  [Strings!Plain!Next]_StringVal
<1>1. CASE UNCHANGED stringVars
  BY <1>1, ValuesStay DEF stringVars
<1>2. ASSUME NEW t \in Threads, Strings!Step(t) PROVE [Strings!Plain!Next]_StringVal
  BY <1>2, CopyCountValue, CountsOnly, FreeValue, AppendWriteValue, AppendAllocateValue
     DEF Strings!Step
<1>3. ASSUME NEW t \in Threads, NEW h \in Strings!Handles,
             \/ \E c \in Letters : Strings!AppendBegin(t, h, c)
             \/ \E g \in Strings!Handles : Strings!CopyRead(t, h, g)
      PROVE  StringVal' = StringVal
  BY <1>3, ValuesStay DEF Strings!AppendBegin, Strings!CopyRead
<1>4. ASSUME NEW t \in Threads, Strings!Call(t) PROVE [Strings!Plain!Next]_StringVal
  BY <1>3, <1>4, MakeValue, DestroyValue, MoveValue DEF Strings!Call
<1>5. QED
  BY <1>1, <1>2, <1>4 DEF Strings!Next

\* Sharing is not seen: whatever threads do with strings that share blocks, each
\* string changes by its own calls only, and as if it had its text for itself.
THEOREM StringsHaveValues == Spec => StringsAreValues
<1>1. ASSUME Init PROVE StringVal = [h \in Strings!Handles |-> <<>>]
  <2>1. sPtr = [h \in Strings!Handles |-> Empty] /\ sHeap = [b \in {} |-> 0]
    BY <1>1, Starts DEF Strings!Init
  <2>2. TextIn(sHeap, Empty) = <<>>
    BY <2>1, StringConstants DEF TextIn
  <2>3. QED
    BY <2>1, <2>2, StringValue
<1>2. Init => Strings!Plain!Init
  BY <1>1 DEF Strings!Plain!Init, StringVal
<1>3. StringInv /\ [Next]_mcvars => [Strings!Plain!Next]_StringVal
  BY Moves, StringValuesStep
<1>4. QED
  BY <1>2, <1>3, StringInvariant, PTL
     DEF Spec, StringsAreValues, Strings!StringsAreValues, Strings!Plain!Spec, StringVal

----------------------------------------------------------------------------
(* The intrusive list *)

ListNodes == Nodes \cup {Root}
ListTypes ==
    /\ lNext \in [ListNodes -> ListNodes \cup {Null}]
    /\ lPrev \in [ListNodes -> ListNodes \cup {Null}]
    /\ lPulled \in Nodes \cup {Null}

\* The links are those of some sequence of nodes.
ListRing(s) == RingOf(Nodes, Root, Null, lNext, lPrev, lSize, s)
ListInv == ListTypes /\ \E s \in Seq(Nodes) : ListRing(s)

LEMMA ListConstants ==
    /\ IsFiniteSet(Nodes) /\ Root \notin Nodes /\ Null \notin ListNodes
    /\ ListNodes = Nodes \cup {Root}
    /\ List!All = ListNodes /\ \A S : List!Cardinality(S) = Cardinality(S)
<1>1. \A S : List!IsFiniteSet(S) <=> IsFiniteSet(S)
  BY DEF List!IsFiniteSet, IsFiniteSet
<1>2. \A S : List!Cardinality(S) = Cardinality(S)
  BY <1>1 DEF List!Cardinality, Cardinality
<1>3. QED
  BY <1>1, <1>2, ObjectsAssumption DEF List!ListAssumption, List!All, ListNodes

LEMMA ListLinks ==
    ASSUME NEW s \in Seq(Nodes), ListRing(s)
    PROVE  /\ \A n \in Elements(s) \cup {Root} :
                /\ lNext[n] \in ListNodes /\ lPrev[n] \in ListNodes
                /\ lPrev[lNext[n]] = n /\ lNext[lPrev[n]] = n /\ lNext[n] # Null
           /\ \A n \in Nodes \ Elements(s) : lNext[n] = Null /\ lPrev[n] = Null
BY ListConstants, RingLinks DEF ListRing

\* The nodes next to the root are the ends of the sequence.
LEMMA ListEnds ==
    ASSUME NEW s \in Seq(Nodes), ListRing(s)
    PROVE  IF s = <<>> THEN lNext[Root] = Root /\ lPrev[Root] = Root
           ELSE /\ lNext[Root] = s[1] /\ lPrev[Root] = s[Len(s)]
                /\ 1 \in 1 .. Len(s) /\ Len(s) \in 1 .. Len(s)
<1>1. /\ \A i \in 0 .. Len(s) : /\ lNext[Spot(Root, s, i)] = Spot(Root, s, i + 1)
                               /\ lPrev[Spot(Root, s, i + 1)] = Spot(Root, s, i)
      /\ Distinct(s)
  BY DEF ListRing, RingOf
<1>2. Spot(Root, s, 0) = Root /\ Spot(Root, s, Len(s) + 1) = Root
  BY DEF Spot
<1>3. 0 \in 0 .. Len(s) /\ Len(s) \in 0 .. Len(s) /\ 0 + 1 = 1
  OBVIOUS
<1>4. lNext[Root] = Spot(Root, s, 1) /\ lPrev[Root] = Spot(Root, s, Len(s))
  BY <1>1, <1>2, <1>3
<1>5. CASE s = <<>>
  <2>1. Len(s) = 0 /\ 1 \notin 1 .. Len(s) /\ 0 \notin 1 .. Len(s)
    BY <1>5
  <2>2. QED
    BY <1>4, <1>5, <2>1 DEF Spot
<1>6. CASE s # <<>>
  <2>1. 1 \in 1 .. Len(s) /\ Len(s) \in 1 .. Len(s)
    BY <1>6, EmptySeq
  <2>2. QED
    BY <1>4, <1>6, <2>1 DEF Spot
<1>7. QED
  BY <1>5, <1>6

\* What a call does to the sequence.
ListAdds(s, t) ==
    /\ \E n \in Nodes \ Elements(s) : t \in {<<n>> \o s, Append(s, n)}
    /\ lPulled' = lPulled
ListErases(s, t) == (\E i \in 1 .. Len(s) : t = Without(s, i)) /\ lPulled' = lPulled
ListPulls(s, t) ==
    IF s = <<>> THEN t = s /\ lPulled' = Null
    ELSE \E i \in {1, Len(s)} : t = Without(s, i) /\ lPulled' = s[i]

LEMMA ListDelete ==
    ASSUME ListTypes, NEW s \in Seq(Nodes), ListRing(s), NEW i \in 1 .. Len(s), List!Delete(s[i]),
           lPulled' \in Nodes \cup {Null}
    PROVE  ListTypes' /\ Without(s, i) \in Seq(Nodes) /\ ListRing(Without(s, i))'
<1>0. PICK n : n = s[i]
  OBVIOUS
<1>1. /\ n \in Nodes /\ n \in Elements(s) /\ n \in ListNodes
      /\ lNext' = [lNext EXCEPT ![lPrev[n]] = lNext[n], ![n] = Null]
      /\ lPrev' = [lPrev EXCEPT ![lNext[n]] = lPrev[n], ![n] = Null]
      /\ lSize' = lSize - 1
  BY <1>0, ListConstants DEF List!Delete, Elements
<1>2. /\ lNext \in [ListNodes -> ListNodes \cup {Null}]
      /\ lPrev \in [ListNodes -> ListNodes \cup {Null}]
  BY DEF ListTypes
<1>3. lNext[n] \in ListNodes /\ lPrev[n] \in ListNodes
  BY <1>1, ListLinks
<1>4. ListTypes'
  BY <1>1, <1>2, <1>3 DEF ListTypes
<1>5. RingOf(Nodes, Root, Null, lNext', lPrev', lSize', Without(s, i))
  BY <1>0, <1>1, <1>2, ListConstants, RingDelete DEF ListRing
<1>6. QED
  BY <1>4, <1>5, WithoutProperties DEF ListRing

LEMMA ListAdd ==
    ASSUME ListTypes, NEW s \in Seq(Nodes), ListRing(s), NEW n \in Nodes, ~List!Linked(n),
           List!push_front(n) \/ List!push_back(n)
    PROVE  ListTypes' /\ \E t \in Seq(Nodes) : ListRing(t)' /\ ListAdds(s, t)
<1>1. n \in Nodes \ Elements(s) /\ n \in ListNodes /\ Root \in ListNodes
  BY ListLinks, ListConstants DEF List!Linked
<1>2. /\ lNext \in [ListNodes -> ListNodes \cup {Null}]
      /\ lPrev \in [ListNodes -> ListNodes \cup {Null}] /\ lPulled \in Nodes \cup {Null}
      /\ Distinct(s)
  BY DEF ListTypes, ListRing, RingOf
<1>3. lNext[Root] \in ListNodes /\ lPrev[Root] \in ListNodes
  BY ListLinks
<1>4. CASE List!push_front(n)
  <2>1. /\ lNext' = [lNext EXCEPT ![n] = lNext[Root], ![Root] = n]
        /\ lPrev' = [lPrev EXCEPT ![n] = Root, ![lNext[Root]] = n]
        /\ lSize' = lSize + 1 /\ lPulled' = lPulled
    BY <1>4 DEF List!push_front, List!Add
  <2>2. RingOf(Nodes, Root, Null, lNext', lPrev', lSize', <<n>> \o s)
    BY <1>1, <1>2, <2>1, ListConstants, RingAddFirst DEF ListRing
  <2>3. <<n>> \o s \in Seq(Nodes)
    BY <1>1, <1>2, PrependDistinct
  <2>4. ListTypes'
    BY <1>1, <1>2, <1>3, <2>1 DEF ListTypes
  <2>5. QED
    BY <1>1, <2>1, <2>2, <2>3, <2>4 DEF ListRing, ListAdds
<1>5. CASE List!push_back(n)
  <2>1. /\ lNext' = [lNext EXCEPT ![n] = Root, ![lPrev[Root]] = n]
        /\ lPrev' = [lPrev EXCEPT ![n] = lPrev[Root], ![Root] = n]
        /\ lSize' = lSize + 1 /\ lPulled' = lPulled
    BY <1>5 DEF List!push_back, List!Add
  <2>2. RingOf(Nodes, Root, Null, lNext', lPrev', lSize', Append(s, n))
    BY <1>1, <1>2, <2>1, ListConstants, RingAdd DEF ListRing
  <2>3. Append(s, n) \in Seq(Nodes)
    BY <1>1, <1>2, AppendDistinct
  <2>4. ListTypes'
    BY <1>1, <1>2, <1>3, <2>1 DEF ListTypes
  <2>5. QED
    BY <1>1, <2>1, <2>2, <2>3, <2>4 DEF ListRing, ListAdds
<1>6. QED
  BY <1>4, <1>5

LEMMA ListStep ==
    ASSUME ListTypes, NEW s \in Seq(Nodes), ListRing(s), List!Next
    PROVE  /\ ListTypes'
           /\ \E t \in Seq(Nodes) :
                ListRing(t)' /\ (ListAdds(s, t) \/ ListErases(s, t) \/ ListPulls(s, t))
<1>1. \A i \in 1 .. Len(s) : s[i] \in Nodes /\ s[i] # Root
  BY ListConstants
<1>2. ASSUME NEW n, List!Pull(n), s = <<>> => n = Root,
             s # <<>> => \E i \in {1, Len(s)} : i \in 1 .. Len(s) /\ n = s[i]
      PROVE  ListTypes' /\ \E t \in Seq(Nodes) : ListRing(t)' /\ ListPulls(s, t)
  <2>1. CASE s = <<>>
    <3>1. UNCHANGED <<lNext, lPrev, lSize>> /\ lPulled' = Null
      BY <1>2, <2>1 DEF List!Pull
    <3>2. ListTypes' /\ ListRing(s)'
      BY <3>1 DEF ListTypes, ListRing
    <3>3. QED
      BY <2>1, <3>1, <3>2 DEF ListPulls
  <2>2. CASE s # <<>>
    <3>1. PICK i \in 1 .. Len(s) : i \in {1, Len(s)} /\ n = s[i]
      BY <1>2, <2>2
    <3>2. List!Delete(s[i]) /\ lPulled' = s[i] /\ lPulled' \in Nodes
      BY <1>1, <1>2, <3>1 DEF List!Pull
    <3>3. ListTypes' /\ Without(s, i) \in Seq(Nodes) /\ ListRing(Without(s, i))'
      BY <3>2, ListDelete
    <3>4. ListPulls(s, Without(s, i))
      BY <2>2, <3>1, <3>2 DEF ListPulls
    <3>5. QED
      BY <3>3, <3>4
  <2>3. QED
    BY <2>1, <2>2
<1>3. CASE List!pull_front
  BY <1>2, <1>3, ListEnds DEF List!pull_front
<1>4. CASE List!pull_back
  BY <1>2, <1>4, ListEnds DEF List!pull_back
<1>5. ASSUME NEW n \in Nodes, List!push_front(n) \/ List!push_back(n)
      PROVE  ListTypes' /\ \E t \in Seq(Nodes) : ListRing(t)' /\ ListAdds(s, t)
  BY <1>5, ListAdd DEF List!push_front, List!push_back
<1>6. ASSUME NEW n \in Nodes, List!erase(n)
      PROVE  ListTypes' /\ \E t \in Seq(Nodes) : ListRing(t)' /\ ListErases(s, t)
  <2>1. n \in Elements(s) /\ List!Delete(n) /\ lPulled' = lPulled /\ lPulled \in Nodes \cup {Null}
    BY <1>6, ListLinks DEF List!erase, List!Linked, ListTypes
  <2>2. PICK i \in 1 .. Len(s) : n = s[i]
    BY <2>1 DEF Elements
  <2>3. ListTypes' /\ Without(s, i) \in Seq(Nodes) /\ ListRing(Without(s, i))'
    BY <2>1, <2>2, ListDelete
  <2>4. ListErases(s, Without(s, i))
    BY <2>1, <2>2 DEF ListErases
  <2>5. QED
    BY <2>3, <2>4
<1>7. QED
  BY <1>3, <1>4, <1>5, <1>6 DEF List!Next

LEMMA ListStart ==
    ASSUME Init
    PROVE  ListTypes /\ ListRing(<<>>) /\ <<>> \in Seq(Nodes) /\ lPulled = Null
<1>1. /\ lNext = [n \in ListNodes |-> IF n = Root THEN Root ELSE Null]
      /\ lPrev = [n \in ListNodes |-> IF n = Root THEN Root ELSE Null]
      /\ lSize = 0 /\ lPulled = Null
  BY Starts, ListConstants DEF List!Init
<1>2. Root \in ListNodes /\ Root # Null /\ Root \notin Nodes /\ Nodes \subseteq ListNodes
  BY ListConstants
<1>3. << >> \in Seq(Nodes) /\ Len(<< >>) = 0 /\ Elements(<< >>) = {} /\ Distinct(<< >>)
  BY DEF Elements, Distinct
<1>4. \A i \in 0 .. 0 : Spot(Root, << >>, i) = Root /\ Spot(Root, << >>, i + 1) = Root
  BY DEF Spot
<1>5. ListRing(<<>>)
  BY <1>1, <1>2, <1>3, <1>4 DEF ListRing, RingOf
<1>6. QED
  BY <1>1, <1>2, <1>3, <1>5 DEF ListTypes

\* With any number of nodes, there is a sequence that the links of the intrusive list
\* stand for.
THEOREM ListInvariant == Spec => []ListInv
<1>1. Init => ListInv
  BY ListStart DEF ListInv
<1>2. ASSUME ListInv, [Next]_mcvars PROVE ListInv'
  <2>1. CASE UNCHANGED listVars
    BY <1>2, <2>1 DEF listVars, ListInv, ListTypes, ListRing
  <2>2. CASE List!Next
    BY <1>2, <2>2, ListStep DEF ListInv
  <2>3. QED
    BY <1>2, <2>1, <2>2, Moves
<1>3. QED
  BY <1>1, <1>2, PTL DEF Spec

\* Neighbours agree, and the size counts the nodes with links.
LEMMA ListIsSound ==
    ASSUME ListInv
    PROVE  List!LinksMatch /\ List!SizeIsLinked
<1>1. PICK s \in Seq(Nodes) : ListRing(s)
  BY DEF ListInv
<1>2. \A n \in ListNodes : n \in Elements(s) \cup {Root} \/ n \in Nodes \ Elements(s)
  BY ListConstants
<1>3. List!LinksMatch
  BY <1>1, <1>2, ListLinks, ListConstants DEF List!LinksMatch, List!Linked
<1>4. {n \in Nodes : List!Linked(n)} = Elements(s)
  <2>1. Elements(s) \subseteq Nodes
    BY DEF Elements
  <2>2. QED
    BY <1>1, <2>1, ListLinks DEF List!Linked
<1>5. lSize = Len(s) /\ Distinct(s)
  BY <1>1 DEF ListRing, RingOf
<1>6. lSize = Cardinality(Elements(s))
  BY <1>5, ListConstants, DistinctLength
<1>7. QED
  BY <1>3, <1>4, <1>6, ListConstants DEF List!SizeIsLinked

\* An intrusive list of any length is a sequence under its calls: each puts its
\* node at an end, or takes out the one it is given or pulls, and moves no other.
THEOREM ListIsAList == Spec => List!IsAList
<1>1. ASSUME NEW s, ListRing(s), s \in Seq(Nodes) PROVE List!Walk = s
  <2>1. List!Walk = WalkOf(Root, lNext, lSize)
    BY DEF List!Walk, WalkOf
  <2>2. QED
    BY <1>1, <2>1, RingWalk DEF ListRing
<1>2. ASSUME NEW s, ListRing(s)', s \in Seq(Nodes) PROVE List!Walk' = s
  <2>1. List!Walk' = WalkOf(Root, lNext', lSize')
    BY DEF List!Walk, WalkOf
  <2>2. RingOf(Nodes, Root, Null, lNext', lPrev', lSize', s)
    BY <1>2 DEF ListRing
  <2>3. QED
    BY <1>2, <2>1, <2>2, RingWalk
<1>3. Init => List!Ops!Init
  BY <1>1, ListStart DEF List!Ops!Init
<1>4. ASSUME ListInv, [Next]_mcvars PROVE [List!Ops!Next]_<<List!Walk, lPulled>>
  <2>1. CASE UNCHANGED listVars
    BY <2>1 DEF listVars, List!Walk
  <2>2. CASE List!Next
    <3>1. PICK s \in Seq(Nodes) : ListRing(s)
      BY <1>4 DEF ListInv
    <3>2. PICK t \in Seq(Nodes) :
            ListRing(t)' /\ (ListAdds(s, t) \/ ListErases(s, t) \/ ListPulls(s, t))
      BY <1>4, <2>2, <3>1, ListStep DEF ListInv
    <3>3. List!Walk = s /\ List!Walk' = t
      BY <1>1, <1>2, <3>1, <3>2
    <3>4. DOMAIN s = 1 .. Len(s) /\ \A i \in 1 .. Len(s) : s[i] \in Nodes
      OBVIOUS
    <3>5. CASE ListAdds(s, t)
      <4>1. PICK n \in Nodes \ Elements(s) : t \in {<<n>> \o s, Append(s, n)}
        BY <3>5 DEF ListAdds
      <4>2. ~List!Ops!Contains(List!Walk, n)
        BY <3>3, <3>4, <4>1 DEF List!Ops!Contains, Elements
      <4>3. List!Walk' = List!Ops!Cons(n, List!Walk) \/ List!Walk' = Append(List!Walk, n)
        BY <3>3, <4>1 DEF List!Ops!Cons
      <4>4. List!Ops!Add(n)
        BY <3>5, <4>2, <4>3 DEF List!Ops!Add, ListAdds
      <4>5. QED
        BY <4>4 DEF List!Ops!Next
    <3>6. ASSUME NEW i \in 1 .. Len(s), t = Without(s, i) PROVE List!Ops!Drop(s[i])
      BY <3>3, <3>4, <3>6 DEF List!Ops!Drop, List!Ops!RemoveAt, Without
    <3>7. CASE ListErases(s, t)
      BY <3>4, <3>6, <3>7 DEF ListErases, List!Ops!Next
    <3>8. CASE ListPulls(s, t)
      <4>1. CASE s = <<>>
        BY <3>3, <3>8, <4>1 DEF ListPulls, List!Ops!Next, List!Ops!Pull
      <4>2. CASE s # <<>>
        <5>1. 1 \in 1 .. Len(s) /\ Len(s) \in 1 .. Len(s)
          BY <3>1, <4>2, ListEnds
        <5>2. PICK i \in {1, Len(s)} : t = Without(s, i) /\ lPulled' = s[i]
          BY <3>8, <4>2 DEF ListPulls
        <5>3. List!Ops!Drop(lPulled')
          BY <3>6, <5>1, <5>2
        <5>4. lPulled' \in {Head(List!Walk), List!Ops!Last(List!Walk)}
          BY <3>3, <5>2 DEF List!Ops!Last
        <5>5. QED
          BY <3>3, <4>2, <5>3, <5>4 DEF List!Ops!Next, List!Ops!Pull
      <4>3. QED
        BY <4>1, <4>2
    <3>9. QED
      BY <3>2, <3>5, <3>7, <3>8
  <2>3. QED
    BY <1>4, <2>1, <2>2, Moves
<1>5. QED
  BY <1>3, <1>4, ListInvariant, PTL DEF Spec, List!IsAList, List!Ops!Spec

----------------------------------------------------------------------------
(* The vector *)

VectorSlots == Values \cup {Raw, Moved}

\* The block m has objects in its first k slots, and none in the others.
VectorShape(m, k) ==
    /\ m \in Seq(VectorSlots) /\ k \in 0 .. MaxSize /\ k <= Len(m)
    /\ \A i \in 1 .. Len(m) : IF i <= k THEN m[i] \in Values ELSE m[i] = Raw

VectorSound == VectorShape(vMem, vSize)

\* The block, up to the call that strays, after which there is none.
VectorInv == Vector!TypeOK /\ (vStrayed \/ VectorSound)

LEMMA VectorConstants ==
    Default \in Values /\ MaxSize \in Nat /\ Raw \notin Values /\ Moved \notin Values
BY ObjectsAssumption DEF Vector!VectorAssumption

\* A block given slot by slot.
LEMMA VectorOfSlots ==
    ASSUME NEW n \in Nat, NEW k \in 0 .. MaxSize, k <= n,
           NEW m, m \in [1 .. n -> VectorSlots],
           \A i \in 1 .. n : IF i <= k THEN m[i] \in Values ELSE m[i] = Raw
    PROVE  VectorShape(m, k)
<1>1. m \in Seq(VectorSlots) /\ Len(m) = n
  OBVIOUS
<1>2. QED
  BY <1>1 DEF VectorShape

LEMMA VectorTypes ==
    ASSUME VectorSound
    PROVE  /\ vMem \in Seq(VectorSlots) /\ Len(vMem) \in Nat /\ DOMAIN vMem = 1 .. Len(vMem)
           /\ vMem \in [1 .. Len(vMem) -> VectorSlots]
           /\ vSize \in 0 .. MaxSize /\ vSize \in Nat /\ vSize <= Len(vMem) /\ MaxSize \in Nat
           /\ \A i \in 1 .. Len(vMem) : IF i <= vSize THEN vMem[i] \in Values ELSE vMem[i] = Raw
BY VectorConstants, LenProperties DEF VectorSound, VectorShape

\* Part of the items.
LEMMA VectorPart ==
    ASSUME VectorSound, NEW a \in Nat, NEW b \in Nat, 1 <= a, b <= vSize
    PROVE  /\ SubSeq(vMem, a, b) \in Seq(Values)
           /\ Len(SubSeq(vMem, a, b)) = IF a <= b THEN b - a + 1 ELSE 0
           /\ \A i \in 1 .. b - a + 1 : SubSeq(vMem, a, b)[i] = vMem[a + i - 1]
<1>1. \A i \in a .. b : vMem[i] \in Values
  BY VectorTypes
<1>2. QED
  BY <1>1, SubSeqProperties

LEMMA VectorCopies ==
    ASSUME NEW S, NEW n \in Nat, NEW x \in S
    PROVE  /\ Vector!Slots(n, x) \in Seq(S) /\ Len(Vector!Slots(n, x)) = n
           /\ \A i \in 1 .. n : Vector!Slots(n, x)[i] = x
BY DEF Vector!Slots

\* Items, and free slots up to a capacity.
LEMMA VectorFill ==
    ASSUME NEW s \in Seq(Values), NEW c \in Nat, Len(s) <= c, Len(s) <= MaxSize
    PROVE  VectorShape(Vector!Fill(s, c), Len(s)) /\ Len(Vector!Fill(s, c)) = c
<1>1. Len(s) \in Nat /\ c - Len(s) \in Nat /\ s \in Seq(VectorSlots) /\ Raw \in VectorSlots
  <2>1. Len(s) \in Nat /\ s \in [1 .. Len(s) -> Values]
    BY LenProperties
  <2>2. s \in Seq(VectorSlots)
    BY <2>1 DEF VectorSlots
  <2>3. QED
    BY <2>1, <2>2 DEF VectorSlots
<1>2. PICK f : f = Vector!Slots(c - Len(s), Raw)
  OBVIOUS
<1>3. f \in Seq(VectorSlots) /\ Len(f) = c - Len(s) /\ \A i \in 1 .. c - Len(s) : f[i] = Raw
  BY <1>1, <1>2, VectorCopies
<1>4. /\ s \o f \in Seq(VectorSlots) /\ Len(s \o f) = Len(s) + Len(f)
      /\ \A i \in 1 .. Len(s) + Len(f) : (s \o f)[i] = IF i <= Len(s) THEN s[i] ELSE f[i - Len(s)]
  BY <1>1, <1>3, ConcatProperties
<1>5. Len(s \o f) = c
  BY <1>1, <1>3, <1>4
<1>6. ASSUME NEW i \in 1 .. c
      PROVE  IF i <= Len(s) THEN (s \o f)[i] \in Values ELSE (s \o f)[i] = Raw
  <2>1. (s \o f)[i] = IF i <= Len(s) THEN s[i] ELSE f[i - Len(s)]
    BY <1>1, <1>3, <1>4
  <2>2. CASE i <= Len(s)
    <3>1. i \in 1 .. Len(s)
      BY <1>1, <2>2
    <3>2. s[i] \in Values
      BY <3>1, ElementOfSeq
    <3>3. QED
      BY <2>1, <2>2, <3>2
  <2>3. CASE ~(i <= Len(s))
    <3>1. i - Len(s) \in 1 .. c - Len(s)
      BY <1>1, <2>3
    <3>2. QED
      BY <1>3, <2>1, <2>3, <3>1
  <2>4. QED
    BY <2>2, <2>3
<1>7. Len(s) \in 0 .. MaxSize
  BY <1>1, VectorConstants
<1>8. VectorShape(s \o f, Len(s))
  BY <1>4, <1>5, <1>6, <1>7 DEF VectorShape
<1>9. Vector!Fill(s, c) = s \o f
  BY <1>2 DEF Vector!Fill
<1>10. QED
  BY <1>5, <1>8, <1>9

\* Two lists joined.
LEMMA VectorConcat ==
    ASSUME NEW s \in Seq(Values), NEW t \in Seq(Values)
    PROVE  s \o t \in Seq(Values) /\ Len(s \o t) = Len(s) + Len(t)
BY ConcatProperties

LEMMA VectorPushBack ==
    ASSUME VectorSound, NEW x \in Values, Vector!PushBack(x) PROVE VectorSound'
<1>1. CASE Vector!Grows(1) /\ Vector!Fail("fail")
  BY <1>1 DEF Vector!Fail, VectorSound, VectorShape
<1>2. ASSUME vSize < MaxSize, vSize' = vSize + 1, Vector!Grows(1),
             vMem' = Vector!Fill(Append(Vector!Items, x), Vector!CapacityFactor)
      PROVE  VectorSound'
  <2>1. Vector!Items \in Seq(Values) /\ Len(Vector!Items) = vSize
    BY VectorTypes, VectorPart DEF Vector!Items
  <2>2. Append(Vector!Items, x) \in Seq(Values) /\ Len(Append(Vector!Items, x)) = vSize + 1
    BY <2>1, AppendProperties
  <2>3. Vector!CapacityFactor \in Nat /\ vSize + 1 <= Vector!CapacityFactor /\ vSize + 1 <= MaxSize
    BY <1>2, VectorTypes DEF Vector!CapacityFactor
  <2>4. QED
    BY <1>2, <2>2, <2>3, VectorFill DEF VectorSound
<1>3. ASSUME vSize < MaxSize, vSize' = vSize + 1, ~Vector!Grows(1),
             vMem' = [vMem EXCEPT ![vSize + 1] = x]
      PROVE  VectorSound'
  <2>1. vSize + 1 \in 0 .. MaxSize /\ vSize + 1 <= Len(vMem) /\ vSize + 1 \in 1 .. Len(vMem)
    BY <1>3, VectorTypes DEF Vector!Grows
  <2>2. x \in VectorSlots
    BY DEF VectorSlots
  <2>3. vMem' \in [1 .. Len(vMem) -> VectorSlots]
    BY <1>3, <2>1, <2>2, VectorTypes
  <2>4. \A i \in 1 .. Len(vMem) : IF i <= vSize + 1 THEN vMem'[i] \in Values ELSE vMem'[i] = Raw
    BY <1>3, <2>1, VectorTypes
  <2>5. QED
    BY <1>3, <2>1, <2>3, <2>4, VectorTypes, VectorOfSlots DEF VectorSound
<1>4. QED
  BY <1>1, <1>2, <1>3 DEF Vector!PushBack

LEMMA VectorInsert ==
    ASSUME VectorSound, NEW x \in Values, NEW p \in 0 .. vSize, NEW n \in 1 .. MaxSize,
           Vector!Insert(p, n, x)
    PROVE  VectorSound'
<1>1. CASE Vector!Grows(n) /\ Vector!Fail("fail")
  BY <1>1 DEF Vector!Fail, VectorSound, VectorShape
<1>2. ASSUME vSize + n <= MaxSize, vSize' = vSize + n,
             vMem' = Vector!Fill(SubSeq(vMem, 1, p) \o Vector!Slots(n, x)
                                   \o SubSeq(vMem, p + 1, vSize), Vector!NewCapacity(n))
      PROVE  VectorSound'
  <2>1. p \in Nat /\ n \in Nat /\ p <= vSize
    BY VectorTypes
  <2>2. SubSeq(vMem, 1, p) \in Seq(Values) /\ Len(SubSeq(vMem, 1, p)) = p
    BY <2>1, VectorTypes, VectorPart
  <2>3. SubSeq(vMem, p + 1, vSize) \in Seq(Values) /\ Len(SubSeq(vMem, p + 1, vSize)) = vSize - p
    BY <2>1, VectorTypes, VectorPart
  <2>4. Vector!Slots(n, x) \in Seq(Values) /\ Len(Vector!Slots(n, x)) = n
    BY <2>1, VectorCopies
  <2>5. PICK s : s = SubSeq(vMem, 1, p) \o Vector!Slots(n, x) \o SubSeq(vMem, p + 1, vSize)
    OBVIOUS
  <2>6. s \in Seq(Values) /\ Len(s) = vSize + n
    <3>1. /\ SubSeq(vMem, 1, p) \o Vector!Slots(n, x) \in Seq(Values)
          /\ Len(SubSeq(vMem, 1, p) \o Vector!Slots(n, x)) = p + n
      BY <2>2, <2>4, VectorConcat
    <3>2. s \in Seq(Values) /\ Len(s) = (p + n) + (vSize - p)
      BY <2>3, <2>5, <3>1, VectorConcat
    <3>3. QED
      BY <2>1, <3>2, VectorTypes
  <2>7. Vector!NewCapacity(n) \in Nat /\ vSize + n <= Vector!NewCapacity(n)
    BY <2>1, VectorTypes DEF Vector!NewCapacity, Vector!CapacityFactor
  <2>8. VectorShape(Vector!Fill(s, Vector!NewCapacity(n)), Len(s))
    BY <1>2, <2>6, <2>7, VectorFill
  <2>9. QED
    BY <1>2, <2>5, <2>6, <2>8 DEF VectorSound
<1>3. QED
  BY <1>1, <1>2 DEF Vector!Insert

LEMMA VectorResize ==
    ASSUME VectorSound, NEW n \in 0 .. MaxSize, Vector!Resize(n) PROVE VectorSound'
<1>0. n \in Nat
  BY VectorConstants
<1>1. CASE Vector!Fail("fail")
  BY <1>1 DEF Vector!Fail, VectorSound, VectorShape
<1>2. ASSUME n <= vSize, vSize' = n,
             vMem' = [i \in DOMAIN vMem |-> IF i \in n + 1 .. vSize THEN Raw ELSE vMem[i]]
      PROVE  VectorSound'
  <2>1. DOMAIN vMem = 1 .. Len(vMem) /\ Raw \in VectorSlots /\ n <= Len(vMem)
    BY <1>0, <1>2, VectorTypes DEF VectorSlots
  <2>2. vMem' \in [1 .. Len(vMem) -> VectorSlots]
    BY <1>2, <2>1, VectorTypes
  <2>3. \A i \in 1 .. Len(vMem) : IF i <= n THEN vMem'[i] \in Values ELSE vMem'[i] = Raw
    BY <1>0, <1>2, <2>1, VectorTypes
  <2>4. QED
    BY <1>2, <2>1, <2>2, <2>3, VectorTypes, VectorOfSlots DEF VectorSound
<1>3. ASSUME ~(n <= vSize), vSize' = n,
             vMem' = Vector!Fill(Vector!Items \o Vector!Slots(n - vSize, Default),
                                 Vector!NewCapacity(n - vSize))
      PROVE  VectorSound'
  <2>1. Vector!Items \in Seq(Values) /\ Len(Vector!Items) = vSize
    BY VectorTypes, VectorPart DEF Vector!Items
  <2>2. n - vSize \in Nat
    BY <1>0, <1>3, VectorTypes
  <2>3. PICK t : t = Vector!Slots(n - vSize, Default)
    OBVIOUS
  <2>4. t \in Seq(Values) /\ Len(t) = n - vSize
    BY <2>2, <2>3, VectorCopies, VectorConstants
  <2>5. Vector!Items \o t \in Seq(Values) /\ Len(Vector!Items \o t) = n
    <3>1. Vector!Items \o t \in Seq(Values) /\ Len(Vector!Items \o t) = vSize + (n - vSize)
      BY <2>1, <2>4, VectorConcat
    <3>2. QED
      BY <1>0, <3>1, VectorTypes
  <2>6. Vector!NewCapacity(n - vSize) \in Nat /\ n <= Vector!NewCapacity(n - vSize)
    BY <1>0, <2>2, VectorTypes DEF Vector!NewCapacity, Vector!CapacityFactor
  <2>7. VectorShape(Vector!Fill(Vector!Items \o t, Vector!NewCapacity(n - vSize)), n)
    <3>1. PICK s : s = Vector!Items \o t
      OBVIOUS
    <3>2. PICK c : c = Vector!NewCapacity(n - vSize)
      OBVIOUS
    <3>3. s \in Seq(Values) /\ Len(s) = n /\ c \in Nat /\ n <= c /\ n <= MaxSize
      BY <1>0, <2>5, <2>6, <3>1, <3>2, VectorConstants
    <3>4. VectorShape(Vector!Fill(s, c), n)
      BY <3>3, VectorFill
    <3>5. QED
      BY <3>1, <3>2, <3>4
  <2>8. QED
    BY <1>3, <2>3, <2>7 DEF VectorSound
<1>4. QED
  BY <1>1, <1>2, <1>3 DEF Vector!Resize

LEMMA VectorAssign ==
    ASSUME VectorSound, NEW n \in 0 .. MaxSize, NEW x \in Values, Vector!Assign(n, x)
    PROVE  VectorSound'
<1>0. n \in Nat /\ n <= MaxSize
  BY VectorConstants
<1>1. ASSUME vMem' = <<>>, vSize' = 0 PROVE VectorSound'
  BY <1>1, VectorConstants DEF VectorSound, VectorShape
<1>2. ASSUME vSize' = n,
             vMem' = Vector!Slots(n, x) \o Vector!Slots(IF n < Len(vMem) THEN Len(vMem) - n ELSE 0, Raw)
      PROVE  VectorSound'
  <2>1. Vector!Slots(n, x) \in Seq(Values) /\ Len(Vector!Slots(n, x)) = n
    BY <1>0, VectorCopies
  <2>2. PICK k : k = IF n < Len(vMem) THEN Len(vMem) - n ELSE 0
    OBVIOUS
  <2>3. k \in Nat /\ n + k \in Nat /\ n <= n + k /\ (n + k) - n = k
    <3>1. Len(vMem) \in Nat
      BY VectorTypes
    <3>2. k \in Nat
      BY <1>0, <2>2, <3>1
    <3>3. QED
      BY <1>0, <3>2
  <2>4. VectorShape(Vector!Fill(Vector!Slots(n, x), n + k), n)
    BY <1>0, <2>1, <2>3, VectorFill
  <2>5. Vector!Fill(Vector!Slots(n, x), n + k) = Vector!Slots(n, x) \o Vector!Slots(k, Raw)
    BY <2>1, <2>3 DEF Vector!Fill
  <2>6. QED
    BY <1>2, <2>2, <2>4, <2>5 DEF VectorSound
<1>3. QED
  BY <1>1, <1>2 DEF Vector!Assign

LEMMA VectorErase ==
    ASSUME VectorSound, NEW p \in 0 .. vSize, Vector!Erase(p) PROVE VectorSound'
<1>1. /\ p \in Nat /\ p < vSize /\ vSize' = vSize - 1
      /\ vMem' = [i \in DOMAIN vMem |-> IF i \in p + 1 .. vSize - 1 THEN vMem[i + 1]
                                        ELSE IF i = vSize THEN Raw ELSE vMem[i]]
  BY VectorTypes DEF Vector!Erase
<1>2. vSize - 1 \in 0 .. MaxSize /\ vSize - 1 <= Len(vMem) /\ Raw \in VectorSlots
  BY <1>1, VectorTypes DEF VectorSlots
<1>3. vMem' \in [1 .. Len(vMem) -> VectorSlots]
  BY <1>1, <1>2, VectorTypes
<1>4. \A i \in 1 .. Len(vMem) : IF i <= vSize - 1 THEN vMem'[i] \in Values ELSE vMem'[i] = Raw
  BY <1>1, VectorTypes
<1>5. QED
  BY <1>1, <1>2, <1>3, <1>4, VectorTypes, VectorOfSlots DEF VectorSound

LEMMA VectorEraseRange ==
    ASSUME VectorSound, NEW p \in 0 .. vSize, NEW n \in 0 .. MaxSize, Vector!EraseRange(p, n),
           ~vStrayed'
    PROVE  VectorSound'
<1>0. p \in Nat /\ n \in Nat /\ p + n <= vSize /\ (n = 0 \/ p + n = vSize)
  <2>1. vStrayed' = (n > 0 /\ p + n < vSize) /\ p + n <= vSize
    BY DEF Vector!EraseRange
  <2>2. ~(n > 0 /\ p + n < vSize) /\ p + n <= vSize
    BY <2>1
  <2>3. QED
    BY <2>2, VectorTypes
<1>1. /\ vSize' = vSize - n
      /\ vMem' = [i \in DOMAIN vMem |->
                    IF n = 0 THEN vMem[i]
                    ELSE IF i \in p + 1 .. vSize - n THEN vMem[i + n]
                    ELSE IF i \in p + 1 .. p + n THEN Raw
                    ELSE IF i \in p + n + 1 .. vSize THEN Moved
                    ELSE vMem[i]]
  BY DEF Vector!EraseRange
<1>2. /\ vSize - n \in 0 .. MaxSize /\ vSize - n <= Len(vMem) /\ Raw \in VectorSlots
      /\ n = 0 \/ vSize - n = p
  BY <1>0, <1>1, VectorTypes DEF VectorSlots
<1>3. \A i \in 1 .. Len(vMem) :
        vMem'[i] = IF i \in vSize - n + 1 .. vSize THEN Raw ELSE vMem[i]
  BY <1>0, <1>1, <1>2, VectorTypes
<1>4. vMem' \in [1 .. Len(vMem) -> VectorSlots]
  <2>1. DOMAIN vMem' = 1 .. Len(vMem) /\ vMem' = [i \in 1 .. Len(vMem) |-> vMem'[i]]
    BY <1>1, VectorTypes
  <2>2. \A i \in 1 .. Len(vMem) : vMem'[i] \in VectorSlots
    BY <1>2, <1>3, VectorTypes
  <2>3. QED
    BY <2>1, <2>2
<1>5. \A i \in 1 .. Len(vMem) : IF i <= vSize - n THEN vMem'[i] \in Values ELSE vMem'[i] = Raw
  BY <1>0, <1>2, <1>3, VectorTypes
<1>6. QED
  <2>1. Len(vMem) \in Nat /\ vSize' = vSize - n
    BY <1>1, VectorTypes
  <2>2. VectorShape(vMem', vSize - n)
    BY <1>2, <1>4, <1>5, <2>1, VectorOfSlots
  <2>3. QED
    BY <2>1, <2>2 DEF VectorSound

LEMMA VectorStep ==
    ASSUME VectorSound, ~vStrayed', [Vector!Next]_vectorVars PROVE VectorSound'
<1>1. CASE UNCHANGED vectorVars
  BY <1>1 DEF vectorVars, VectorSound, VectorShape
<1>2. CASE Vector!Clear
  <2>1. vMem' = Vector!Slots(Len(vMem), Raw) /\ vSize' = 0
    BY <1>2 DEF Vector!Clear
  <2>2. vMem' \in [1 .. Len(vMem) -> VectorSlots] /\ \A i \in 1 .. Len(vMem) : vMem'[i] = Raw
    BY <2>1, VectorTypes DEF Vector!Slots, VectorSlots
  <2>3. 0 \in 0 .. MaxSize /\ 0 <= Len(vMem)
    BY VectorTypes
  <2>4. \A i \in 1 .. Len(vMem) : IF i <= 0 THEN vMem'[i] \in Values ELSE vMem'[i] = Raw
    BY <2>2, VectorTypes
  <2>5. VectorShape(vMem', 0)
    BY <2>2, <2>3, <2>4, VectorTypes, VectorOfSlots
  <2>6. QED
    BY <2>1, <2>5 DEF VectorSound
<1>3. ASSUME NEW n \in 0 .. MaxSize, Vector!Reserve(n) PROVE VectorSound'
  <2>1. CASE vMem' = vMem /\ vSize' = vSize
    BY <2>1 DEF VectorSound, VectorShape
  <2>2. CASE Len(vMem) < n /\ vMem' = Vector!Fill(Vector!Items, n) /\ vSize' = vSize
    <3>1. Vector!Items \in Seq(Values) /\ Len(Vector!Items) = vSize
      BY VectorTypes, VectorPart DEF Vector!Items
    <3>2. n \in Nat /\ vSize <= n /\ vSize <= MaxSize
      BY <2>2, VectorTypes
    <3>3. QED
      BY <2>2, <3>1, <3>2, VectorFill DEF VectorSound
  <2>3. QED
    BY <1>3, <2>1, <2>2 DEF Vector!Reserve, Vector!Fail
<1>4. ASSUME NEW i \in 1 .. vSize, Vector!PushBackOwn(i) PROVE VectorSound'
  <2>1. vMem[i] \in Values /\ ~Vector!Grows(1)
    BY <1>4, VectorTypes DEF Vector!PushBackOwn
  <2>2. /\ vSize < MaxSize /\ vSize' = vSize + 1
        /\ vMem' = [vMem EXCEPT ![vSize + 1] = vMem[i]] /\ vCall' = <<"push", vMem[i]>>
    BY <1>4, <2>1 DEF Vector!PushBackOwn
  <2>3. Vector!PushBack(vMem[i])
    BY <2>1, <2>2 DEF Vector!PushBack
  <2>4. QED
    BY <2>1, <2>3, VectorPushBack
<1>5. ASSUME NEW p \in 0 .. vSize, NEW x \in Values, Vector!InsertNone(p, x)
      PROVE  VectorSound'
  <2>0. vStrayed' = (p < vSize)
    BY <1>5 DEF Vector!InsertNone
  <2>1. /\ p = vSize /\ vSize' = vSize
        /\ vMem' = [i \in DOMAIN vMem |-> IF i \in p + 1 .. vSize THEN Raw ELSE vMem[i]]
    <3>1. ~(p < vSize)
      BY <2>0
    <3>2. QED
      BY <1>5, <3>1, VectorTypes DEF Vector!InsertNone
  <2>2. vMem' = vMem
    BY <2>1, VectorTypes
  <2>3. QED
    BY <2>1, <2>2 DEF VectorSound, VectorShape
<1>6. QED
  BY <1>1, <1>2, <1>3, <1>4, <1>5, VectorPushBack, VectorInsert, VectorResize, VectorAssign,
     VectorErase, VectorEraseRange DEF Vector!Next

\* Also a call that strays leaves slots, and the end among them.
LEMMA VectorStrays ==
    ASSUME VectorSound, Vector!Next, vStrayed' PROVE Vector!TypeOK'
<1>0. Raw \in VectorSlots /\ Moved \in VectorSlots
  BY DEF VectorSlots
<1>1. ASSUME NEW i \in 1 .. vSize, Vector!PushBackOwn(i) PROVE Vector!TypeOK'
  <2>1. /\ vSize < MaxSize /\ vSize' = vSize + 1 /\ vStrayed' \in BOOLEAN /\ Vector!Grows(1)
        /\ vMem' = Vector!Fill(Append(Vector!Items, Raw), Vector!CapacityFactor)
    BY <1>1 DEF Vector!PushBackOwn, Vector!Grows
  <2>2. Vector!Items \in Seq(VectorSlots) /\ Len(Vector!Items) = vSize
    <3>1. Vector!Items \in Seq(Values) /\ Len(Vector!Items) = vSize
      BY VectorTypes, VectorPart DEF Vector!Items
    <3>2. QED
      BY <3>1 DEF VectorSlots
  <2>3. PICK s : s = Append(Vector!Items, Raw)
    OBVIOUS
  <2>4. s \in Seq(VectorSlots) /\ Len(s) = vSize + 1
    BY <1>0, <2>2, <2>3, AppendProperties
  <2>5. Vector!CapacityFactor \in Nat /\ vSize + 1 <= Vector!CapacityFactor
    BY VectorTypes DEF Vector!CapacityFactor
  <2>6. PICK k \in Nat : k = Vector!CapacityFactor - Len(s)
    BY <2>4, <2>5, VectorTypes
  <2>7. Len(s) + k = Vector!CapacityFactor
    BY <2>4, <2>5, <2>6, VectorTypes
  <2>8. /\ Vector!Slots(k, Raw) \in Seq(VectorSlots) /\ Len(Vector!Slots(k, Raw)) = k
        /\ s \o Vector!Slots(k, Raw) \in Seq(VectorSlots)
        /\ Len(s \o Vector!Slots(k, Raw)) = Vector!CapacityFactor
    <3>1. Vector!Slots(k, Raw) \in Seq(VectorSlots) /\ Len(Vector!Slots(k, Raw)) = k
      BY <1>0, VectorCopies
    <3>2. /\ s \o Vector!Slots(k, Raw) \in Seq(VectorSlots)
          /\ Len(s \o Vector!Slots(k, Raw)) = Len(s) + k
      BY <2>4, <3>1, VectorConcat
    <3>3. QED
      BY <2>7, <3>1, <3>2
  <2>9. vMem' = s \o Vector!Slots(k, Raw)
    BY <2>1, <2>3, <2>4, <2>6 DEF Vector!Fill
  <2>10. QED
    BY <2>1, <2>5, <2>8, <2>9, VectorTypes DEF Vector!TypeOK, VectorSlots
<1>2. ASSUME NEW p \in 0 .. vSize, NEW n \in 0 .. MaxSize, Vector!EraseRange(p, n)
      PROVE  Vector!TypeOK'
  <2>1. /\ p \in Nat /\ n \in Nat /\ p + n <= vSize /\ vSize' = vSize - n /\ vStrayed' \in BOOLEAN
        /\ vMem' = [i \in DOMAIN vMem |->
                      IF n = 0 THEN vMem[i]
                      ELSE IF i \in p + 1 .. vSize - n THEN vMem[i + n]
                      ELSE IF i \in p + 1 .. p + n THEN Raw
                      ELSE IF i \in p + n + 1 .. vSize THEN Moved
                      ELSE vMem[i]]
    BY <1>2, VectorTypes DEF Vector!EraseRange
  <2>2. \A i \in 1 .. Len(vMem) : i \in p + 1 .. vSize - n => i + n \in 1 .. Len(vMem)
    BY <2>1, VectorTypes
  <2>3. vMem' \in [1 .. Len(vMem) -> VectorSlots]
    BY <1>0, <2>1, <2>2, VectorTypes
  <2>4. vMem' \in Seq(VectorSlots) /\ Len(vMem') = Len(vMem)
    BY <2>3, VectorTypes
  <2>5. QED
    BY <2>1, <2>4, VectorTypes DEF Vector!TypeOK, VectorSlots
<1>3. ASSUME NEW p \in 0 .. vSize, NEW x \in Values, Vector!InsertNone(p, x)
      PROVE  Vector!TypeOK'
  <2>1. /\ vSize' = vSize /\ vStrayed' \in BOOLEAN
        /\ vMem' = [i \in DOMAIN vMem |-> IF i \in p + 1 .. vSize THEN Raw ELSE vMem[i]]
    BY <1>3 DEF Vector!InsertNone
  <2>2. vMem' \in [1 .. Len(vMem) -> VectorSlots]
    BY <1>0, <2>1, VectorTypes
  <2>3. vMem' \in Seq(VectorSlots) /\ Len(vMem') = Len(vMem)
    BY <2>2, VectorTypes
  <2>4. QED
    BY <2>1, <2>3, VectorTypes DEF Vector!TypeOK, VectorSlots
<1>4. QED
  BY <1>1, <1>2, <1>3 DEF Vector!Next

LEMMA VectorMoves ==
    ASSUME VectorInv, [Vector!Next]_vectorVars PROVE VectorInv'
<1>1. CASE UNCHANGED vectorVars
  BY <1>1 DEF vectorVars, VectorInv, VectorSound, VectorShape, Vector!TypeOK
<1>2. CASE Vector!Next
  <2>1. VectorSound /\ vStrayed \in BOOLEAN
    BY <1>2 DEF Vector!Next, VectorInv, Vector!TypeOK
  <2>2. CASE vStrayed'
    BY <1>2, <2>1, <2>2, VectorStrays DEF VectorInv
  <2>3. CASE ~vStrayed'
    <3>0. [Vector!Next]_vectorVars
      BY <1>2
    <3>1. VectorSound'
      BY <2>1, <2>3, <3>0, VectorStep
    <3>2. vStrayed' \in BOOLEAN
      <4>1. ASSUME NEW i \in 1 .. vSize, Vector!PushBackOwn(i) PROVE vStrayed' \in BOOLEAN
        BY <4>1 DEF Vector!PushBackOwn, Vector!Grows
      <4>2. ASSUME NEW p \in 0 .. vSize, NEW n \in 0 .. MaxSize, Vector!EraseRange(p, n)
            PROVE  vStrayed' \in BOOLEAN
        BY <4>2 DEF Vector!EraseRange
      <4>3. ASSUME NEW p \in 0 .. vSize, NEW x \in Values, Vector!InsertNone(p, x)
            PROVE  vStrayed' \in BOOLEAN
        BY <4>3 DEF Vector!InsertNone
      <4>4. QED
        BY <1>2, <2>1, <4>1, <4>2, <4>3 DEF Vector!Next
    <3>3. QED
      BY <3>1, <3>2 DEF VectorInv, VectorSound, VectorShape, VectorSlots, Vector!TypeOK
  <2>4. QED
    BY <2>2, <2>3
<1>3. QED
  BY <1>1, <1>2

\* Memory and size of the vector, whatever the calls and the elements: objects up
\* to the end and only there, until a call strays.
THEOREM VectorInvariant == Spec => []VectorInv
<1>1. ASSUME Init PROVE VectorInv
  <2>1. vMem = <<>> /\ vSize = 0 /\ vStrayed = FALSE
    BY <1>1, Starts DEF Vector!Init
  <2>2. VectorSound
    BY <2>1, VectorConstants DEF VectorSound, VectorShape
  <2>3. vStrayed \in BOOLEAN
    BY <2>1
  <2>4. QED
    BY <2>2, <2>3 DEF VectorInv, VectorSound, VectorShape, VectorSlots, Vector!TypeOK
<1>2. VectorInv /\ [Next]_mcvars => VectorInv'
  BY Moves, VectorMoves
<1>3. QED
  BY <1>1, <1>2, PTL DEF Spec

\* In a vector of any size objects live up to its end and only there, until a call
\* strays; in an intrusive list of any length neighbours agree and the size counts
\* the nodes.
THEOREM SequencesStaySound == Spec => []SequencesAreSound
<1>1. VectorInv => Vector!LiveToTheEnd
  BY VectorTypes DEF VectorInv, Vector!LiveToTheEnd
<1>2. ListInv => List!LinksMatch /\ List!SizeIsLinked
  BY ListIsSound
<1>3. QED
  BY <1>1, <1>2, VectorInvariant, ListInvariant, PTL DEF SequencesAreSound

\* Items of the vector are those of the list; parts of the ones are parts of the
\* others.
LEMMA VectorItems ==
    ASSUME VectorSound
    PROVE  /\ Vector!Items \in Seq(Values) /\ Len(Vector!Items) = vSize
           /\ \A i \in 1 .. vSize : Vector!Items[i] = vMem[i]
           /\ Vector!Items = SubSeq(vMem, 1, vSize)
BY VectorTypes, VectorPart DEF Vector!Items

LEMMA VectorParts ==
    ASSUME VectorSound, NEW a \in Nat, NEW b \in Nat, 1 <= a, b <= vSize
    PROVE  SubSeq(Vector!Items, a, b) = SubSeq(vMem, a, b)
<1>1. \A i \in a .. b : Vector!Items[i] = vMem[i] /\ vMem[i] \in Values
  BY VectorItems, VectorTypes
<1>2. /\ SubSeq(Vector!Items, a, b) \in Seq(Values)
      /\ Len(SubSeq(Vector!Items, a, b)) = IF a <= b THEN b - a + 1 ELSE 0
      /\ \A i \in 1 .. b - a + 1 : SubSeq(Vector!Items, a, b)[i] = Vector!Items[a + i - 1]
  BY <1>1, SubSeqProperties
<1>3. /\ SubSeq(vMem, a, b) \in Seq(Values)
      /\ Len(SubSeq(vMem, a, b)) = IF a <= b THEN b - a + 1 ELSE 0
      /\ \A i \in 1 .. b - a + 1 : SubSeq(vMem, a, b)[i] = vMem[a + i - 1]
  BY VectorPart
<1>4. \A i \in 1 .. b - a + 1 : a + i - 1 \in a .. b
  OBVIOUS
<1>5. \A i \in 1 .. Len(SubSeq(vMem, a, b)) : i \in 1 .. b - a + 1
  BY <1>3
<1>6. QED
  BY <1>1, <1>2, <1>3, <1>4, <1>5, SeqEqual

\* What was filled in is what is found.
LEMMA VectorFilled ==
    ASSUME NEW s \in Seq(Values), NEW c \in Nat, Len(s) <= c
    PROVE  SubSeq(Vector!Fill(s, c), 1, Len(s)) = s
<1>1. Len(s) \in Nat /\ c - Len(s) \in Nat /\ s \in [1 .. Len(s) -> Values]
  BY LenProperties
<1>2. s \in Seq(VectorSlots) /\ Raw \in VectorSlots
  BY <1>1 DEF VectorSlots
<1>3. PICK f : f = Vector!Slots(c - Len(s), Raw)
  OBVIOUS
<1>4. f \in Seq(VectorSlots) /\ Len(f) \in Nat
  BY <1>1, <1>2, <1>3, VectorCopies
<1>5. \A i \in 1 .. Len(s) + Len(f) : (s \o f)[i] = IF i <= Len(s) THEN s[i] ELSE f[i - Len(s)]
  BY <1>2, <1>4, ConcatProperties
<1>6. \A i \in 1 .. Len(s) : (s \o f)[i] = s[i] /\ s[i] \in Values
  BY <1>1, <1>4, <1>5
<1>7. /\ SubSeq(s \o f, 1, Len(s)) \in Seq(Values)
      /\ Len(SubSeq(s \o f, 1, Len(s))) = Len(s)
      /\ \A i \in 1 .. Len(s) : SubSeq(s \o f, 1, Len(s))[i] = s[i]
  <2>1. /\ SubSeq(s \o f, 1, Len(s)) \in Seq(Values)
        /\ Len(SubSeq(s \o f, 1, Len(s))) = IF 1 <= Len(s) THEN Len(s) - 1 + 1 ELSE 0
        /\ \A i \in 1 .. Len(s) - 1 + 1 : SubSeq(s \o f, 1, Len(s))[i] = (s \o f)[1 + i - 1]
    BY <1>1, <1>6, SubSeqProperties
  <2>2. \A i \in 1 .. Len(s) : i \in 1 .. Len(s) - 1 + 1 /\ 1 + i - 1 = i
    BY <1>1
  <2>3. QED
    BY <1>1, <1>6, <2>1, <2>2
<1>8. SubSeq(s \o f, 1, Len(s)) = s
  BY <1>7, SeqEqual
<1>9. QED
  BY <1>3, <1>8 DEF Vector!Fill

\* A vector's items after a call that leaves its slots as given, one by one.
LEMMA VectorListed ==
    ASSUME NEW m, NEW k \in Nat, NEW s \in Seq(Values), Len(s) = k,
           \A i \in 1 .. k : m[i] = s[i]
    PROVE  SubSeq(m, 1, k) = s
<1>1. s \in [1 .. k -> Values]
  BY LenProperties
<1>2. \A i \in 1 .. k : m[i] \in Values
  BY <1>1
<1>3. /\ SubSeq(m, 1, k) \in Seq(Values)
      /\ Len(SubSeq(m, 1, k)) = IF 1 <= k THEN k - 1 + 1 ELSE 0
      /\ \A i \in 1 .. k - 1 + 1 : SubSeq(m, 1, k)[i] = m[1 + i - 1]
  BY <1>2, SubSeqProperties
<1>4. \A i \in 1 .. k : i \in 1 .. k - 1 + 1 /\ 1 + i - 1 = i
  OBVIOUS
<1>5. Len(SubSeq(m, 1, k)) = k
  BY <1>3
<1>6. QED
  BY <1>3, <1>4, <1>5, SeqEqual

LEMMA VectorListPush ==
    ASSUME VectorSound, NEW x \in Values, Vector!PushBack(x)
    PROVE  [Vector!List!Next]_<<Vector!Items, vCall>>
<1>0. /\ Append(Vector!Items, x) \in Seq(Values)
      /\ Len(Append(Vector!Items, x)) = vSize + 1
      /\ \A i \in 1 .. vSize : Append(Vector!Items, x)[i] = vMem[i]
      /\ Append(Vector!Items, x)[vSize + 1] = x
  BY VectorItems, AppendProperties
<1>1. CASE Vector!Fail("fail")
  BY <1>1 DEF Vector!Fail, Vector!Items, Vector!List!Next, Vector!List!Did
<1>2. ASSUME vSize' = vSize + 1, Vector!Grows(1), vCall' = <<"push", x>>,
             vMem' = Vector!Fill(Append(Vector!Items, x), Vector!CapacityFactor)
      PROVE  Vector!Items' = Append(Vector!Items, x)
  <2>1. Vector!CapacityFactor \in Nat /\ vSize + 1 <= Vector!CapacityFactor
    BY VectorTypes DEF Vector!CapacityFactor
  <2>2. SubSeq(vMem', 1, vSize') = Append(Vector!Items, x)
    BY <1>0, <1>2, <2>1, VectorFilled
  <2>3. QED
    BY <2>2 DEF Vector!Items
<1>3. ASSUME vSize' = vSize + 1, ~Vector!Grows(1), vCall' = <<"push", x>>,
             vMem' = [vMem EXCEPT ![vSize + 1] = x]
      PROVE  Vector!Items' = Append(Vector!Items, x)
  <2>1. vSize + 1 \in 1 .. Len(vMem) /\ vSize + 1 \in Nat
    BY <1>3, VectorTypes DEF Vector!Grows
  <2>2. \A i \in 1 .. vSize + 1 : vMem'[i] = IF i = vSize + 1 THEN x ELSE vMem[i]
    BY <1>3, <2>1, VectorTypes
  <2>3. \A i \in 1 .. vSize + 1 : vMem'[i] = Append(Vector!Items, x)[i]
    BY <1>0, <2>2, VectorTypes
  <2>4. SubSeq(vMem', 1, vSize') = Append(Vector!Items, x)
    BY <1>0, <1>3, <2>1, <2>3, VectorListed
  <2>5. QED
    BY <2>4 DEF Vector!Items
<1>4. CASE Vector!Items' = Append(Vector!Items, x) /\ vCall' = <<"push", x>>
  BY <1>4 DEF Vector!List!Next, Vector!List!Did
<1>5. QED
  BY <1>1, <1>2, <1>3, <1>4 DEF Vector!PushBack

LEMMA VectorListInsert ==
    ASSUME VectorSound, NEW x \in Values, NEW p \in 0 .. vSize, NEW n \in 1 .. MaxSize,
           Vector!Insert(p, n, x)
    PROVE  [Vector!List!Next]_<<Vector!Items, vCall>>
<1>1. CASE Vector!Fail("fail")
  BY <1>1 DEF Vector!Fail, Vector!Items, Vector!List!Next, Vector!List!Did
<1>2. ASSUME vSize + n <= MaxSize, vSize' = vSize + n, vCall' = <<"insert", p, n, x>>,
             vMem' = Vector!Fill(SubSeq(vMem, 1, p) \o Vector!Slots(n, x)
                                   \o SubSeq(vMem, p + 1, vSize), Vector!NewCapacity(n))
      PROVE  [Vector!List!Next]_<<Vector!Items, vCall>>
  <2>1. p \in Nat /\ n \in Nat /\ p <= vSize
    BY VectorTypes
  <2>2. SubSeq(vMem, 1, p) \in Seq(Values) /\ Len(SubSeq(vMem, 1, p)) = p
    BY <2>1, VectorTypes, VectorPart
  <2>3. SubSeq(vMem, p + 1, vSize) \in Seq(Values) /\ Len(SubSeq(vMem, p + 1, vSize)) = vSize - p
    BY <2>1, VectorTypes, VectorPart
  <2>4. Vector!Slots(n, x) \in Seq(Values) /\ Len(Vector!Slots(n, x)) = n
    BY <2>1, VectorCopies
  <2>5. PICK s : s = SubSeq(vMem, 1, p) \o Vector!Slots(n, x) \o SubSeq(vMem, p + 1, vSize)
    OBVIOUS
  <2>6. s \in Seq(Values) /\ Len(s) = vSize + n
    <3>1. /\ SubSeq(vMem, 1, p) \o Vector!Slots(n, x) \in Seq(Values)
          /\ Len(SubSeq(vMem, 1, p) \o Vector!Slots(n, x)) = p + n
      BY <2>2, <2>4, VectorConcat
    <3>2. s \in Seq(Values) /\ Len(s) = (p + n) + (vSize - p)
      BY <2>3, <2>5, <3>1, VectorConcat
    <3>3. QED
      BY <2>1, <3>2, VectorTypes
  <2>7. Vector!NewCapacity(n) \in Nat /\ vSize + n <= Vector!NewCapacity(n)
    BY <2>1, VectorTypes DEF Vector!NewCapacity, Vector!CapacityFactor
  <2>8. Vector!Items' = s
    <3>1. SubSeq(vMem', 1, vSize') = s
      BY <1>2, <2>5, <2>6, <2>7, VectorFilled
    <3>2. QED
      BY <3>1 DEF Vector!Items
  <2>9. s = Vector!List!Upto(p) \o Vector!List!Copies(n, x) \o Vector!List!After(p)
    <3>1. Vector!List!Upto(p) = SubSeq(vMem, 1, p)
      BY <2>1, VectorParts DEF Vector!List!Upto
    <3>2. Vector!List!After(p) = SubSeq(vMem, p + 1, vSize)
      BY <2>1, VectorParts, VectorItems, VectorTypes DEF Vector!List!After
    <3>3. Vector!List!Copies(n, x) = Vector!Slots(n, x)
      BY DEF Vector!List!Copies, Vector!Slots
    <3>4. QED
      BY <2>5, <3>1, <3>2, <3>3
  <2>10. p \in 0 .. Len(Vector!Items)
    BY VectorItems
  <2>11. n \in 0 .. MaxSize
    BY VectorConstants
  <2>12. QED
    BY <1>2, <2>8, <2>9, <2>10, <2>11 DEF Vector!List!Next, Vector!List!Did
<1>3. QED
  BY <1>1, <1>2 DEF Vector!Insert

LEMMA VectorListResize ==
    ASSUME VectorSound, NEW n \in 0 .. MaxSize, Vector!Resize(n)
    PROVE  [Vector!List!Next]_<<Vector!Items, vCall>>
<1>0. n \in Nat /\ n <= MaxSize
  BY VectorConstants
<1>1. CASE Vector!Fail("fail")
  BY <1>1 DEF Vector!Fail, Vector!Items, Vector!List!Next, Vector!List!Did
<1>2. ASSUME n <= vSize, vSize' = n, vCall' = <<"resize", n>>,
             vMem' = [i \in DOMAIN vMem |-> IF i \in n + 1 .. vSize THEN Raw ELSE vMem[i]]
      PROVE  [Vector!List!Next]_<<Vector!Items, vCall>>
  <2>1. SubSeq(vMem, 1, n) \in Seq(Values) /\ Len(SubSeq(vMem, 1, n)) = n
        /\ \A i \in 1 .. n : SubSeq(vMem, 1, n)[i] = vMem[i]
    <3>1. /\ SubSeq(vMem, 1, n) \in Seq(Values)
          /\ Len(SubSeq(vMem, 1, n)) = IF 1 <= n THEN n - 1 + 1 ELSE 0
          /\ \A i \in 1 .. n - 1 + 1 : SubSeq(vMem, 1, n)[i] = vMem[1 + i - 1]
      BY <1>0, <1>2, VectorPart
    <3>2. \A i \in 1 .. n : i \in 1 .. n - 1 + 1 /\ 1 + i - 1 = i
      BY <1>0
    <3>3. QED
      BY <1>0, <3>1, <3>2
  <2>2. \A i \in 1 .. n : vMem'[i] = vMem[i]
    BY <1>0, <1>2, VectorTypes
  <2>3. SubSeq(vMem', 1, n) = SubSeq(vMem, 1, n)
    BY <1>0, <2>1, <2>2, VectorListed
  <2>4. Vector!Items' = SubSeq(vMem, 1, n)
    BY <1>2, <2>3 DEF Vector!Items
  <2>5. Vector!List!Upto(n) = SubSeq(vMem, 1, n)
    BY <1>0, <1>2, VectorParts DEF Vector!List!Upto
  <2>6. n <= Len(Vector!Items)
    BY <1>2, VectorItems
  <2>7. QED
    BY <1>2, <2>4, <2>5, <2>6 DEF Vector!List!Next, Vector!List!Did
<1>3. ASSUME ~(n <= vSize), vSize' = n, vCall' = <<"resize", n>>,
             vMem' = Vector!Fill(Vector!Items \o Vector!Slots(n - vSize, Default),
                                 Vector!NewCapacity(n - vSize))
      PROVE  [Vector!List!Next]_<<Vector!Items, vCall>>
  <2>1. n - vSize \in Nat
    BY <1>0, <1>3, VectorTypes
  <2>2. PICK t : t = Vector!Slots(n - vSize, Default)
    OBVIOUS
  <2>3. t \in Seq(Values) /\ Len(t) = n - vSize
    BY <2>1, <2>2, VectorCopies, VectorConstants
  <2>4. PICK s : s = Vector!Items \o t
    OBVIOUS
  <2>5. s \in Seq(Values) /\ Len(s) = n
    <3>1. s \in Seq(Values) /\ Len(s) = vSize + (n - vSize)
      BY <2>3, <2>4, VectorItems, VectorConcat
    <3>2. QED
      BY <1>0, <3>1, VectorTypes
  <2>6. Vector!NewCapacity(n - vSize) \in Nat /\ n <= Vector!NewCapacity(n - vSize)
    BY <1>0, <2>1, VectorTypes DEF Vector!NewCapacity, Vector!CapacityFactor
  <2>7. SubSeq(vMem', 1, vSize') = s
    BY <1>3, <2>2, <2>4, <2>5, <2>6, VectorFilled
  <2>8. Vector!Items' = Vector!Items \o Vector!List!Copies(n - Len(Vector!Items), Default)
    BY <2>2, <2>4, <2>7, VectorItems DEF Vector!Items, Vector!List!Copies, Vector!Slots
  <2>9. ~(n <= Len(Vector!Items))
    BY <1>3, VectorItems
  <2>10. QED
    BY <1>3, <2>8, <2>9 DEF Vector!List!Next, Vector!List!Did
<1>4. QED
  BY <1>1, <1>2, <1>3 DEF Vector!Resize

LEMMA VectorListAssign ==
    ASSUME VectorSound, NEW n \in 0 .. MaxSize, NEW x \in Values, Vector!Assign(n, x)
    PROVE  [Vector!List!Next]_<<Vector!Items, vCall>>
<1>0. n \in Nat
  BY VectorConstants
<1>1. ASSUME vMem' = <<>>, vSize' = 0, vCall' = <<"fail assign">>
      PROVE  [Vector!List!Next]_<<Vector!Items, vCall>>
  <2>1. \A m : SubSeq(m, 1, 0) = <<>>
    BY SubSeqEmpty
  <2>2. Vector!Items' = <<>>
    BY <1>1, <2>1 DEF Vector!Items
  <2>3. QED
    BY <1>1, <2>2 DEF Vector!List!Next, Vector!List!Did
<1>2. ASSUME vSize' = n, vCall' = <<"assign", n, x>>,
             vMem' = Vector!Slots(n, x) \o Vector!Slots(IF n < Len(vMem) THEN Len(vMem) - n ELSE 0, Raw)
      PROVE  [Vector!List!Next]_<<Vector!Items, vCall>>
  <2>1. Vector!Slots(n, x) \in Seq(Values) /\ Len(Vector!Slots(n, x)) = n
    BY <1>0, VectorCopies
  <2>2. PICK k : k = IF n < Len(vMem) THEN Len(vMem) - n ELSE 0
    OBVIOUS
  <2>3. k \in Nat /\ n + k \in Nat /\ n <= n + k /\ (n + k) - n = k
    <3>1. Len(vMem) \in Nat
      BY VectorTypes
    <3>2. k \in Nat
      BY <1>0, <2>2, <3>1
    <3>3. QED
      BY <1>0, <3>2
  <2>4. SubSeq(Vector!Fill(Vector!Slots(n, x), n + k), 1, n) = Vector!Slots(n, x)
    BY <2>1, <2>3, VectorFilled
  <2>5. Vector!Fill(Vector!Slots(n, x), n + k) = Vector!Slots(n, x) \o Vector!Slots(k, Raw)
    BY <2>1, <2>3 DEF Vector!Fill
  <2>6. Vector!Items' = Vector!List!Copies(n, x)
    BY <1>2, <2>2, <2>4, <2>5 DEF Vector!Items, Vector!List!Copies, Vector!Slots
  <2>7. QED
    BY <1>2, <2>6 DEF Vector!List!Next, Vector!List!Did
<1>3. QED
  BY <1>1, <1>2 DEF Vector!Assign

\* Erasing n from p on.
LEMMA VectorListDrop ==
    ASSUME VectorSound, NEW p \in Nat, NEW n \in Nat, p + n <= vSize, vSize' = vSize - n,
           \A i \in 1 .. vSize - n : vMem'[i] = IF i <= p THEN vMem[i] ELSE vMem[i + n]
    PROVE  Vector!Items' = Vector!List!Upto(p) \o Vector!List!After(p + n)
<1>1. vSize - n \in Nat /\ p <= vSize /\ p + n \in Nat
  BY VectorTypes
<1>2. PICK a : a = SubSeq(vMem, 1, p)
  OBVIOUS
<1>3. PICK b : b = SubSeq(vMem, p + n + 1, vSize)
  OBVIOUS
<1>4. a \in Seq(Values) /\ Len(a) = p /\ \A i \in 1 .. p : a[i] = vMem[i]
  <2>1. /\ a \in Seq(Values) /\ Len(a) = IF 1 <= p THEN p - 1 + 1 ELSE 0
        /\ \A i \in 1 .. p - 1 + 1 : a[i] = vMem[1 + i - 1]
    BY <1>1, <1>2, VectorPart
  <2>2. \A i \in 1 .. p : i \in 1 .. p - 1 + 1 /\ 1 + i - 1 = i
    OBVIOUS
  <2>3. QED
    BY <2>1, <2>2
<1>5. /\ b \in Seq(Values) /\ Len(b) = (vSize - n) - p
      /\ \A i \in 1 .. (vSize - n) - p : b[i] = vMem[p + n + i]
  <2>1. /\ b \in Seq(Values)
        /\ Len(b) = IF p + n + 1 <= vSize THEN vSize - (p + n + 1) + 1 ELSE 0
        /\ \A i \in 1 .. vSize - (p + n + 1) + 1 : b[i] = vMem[p + n + 1 + i - 1]
    BY <1>1, <1>3, VectorPart, VectorTypes
  <2>2. \A i \in 1 .. (vSize - n) - p :
          i \in 1 .. vSize - (p + n + 1) + 1 /\ p + n + 1 + i - 1 = p + n + i
    BY VectorTypes
  <2>3. Len(b) = (vSize - n) - p
    BY <2>1, VectorTypes
  <2>4. QED
    BY <2>1, <2>2, <2>3
<1>6. /\ a \o b \in Seq(Values) /\ Len(a \o b) = p + ((vSize - n) - p)
      /\ \A i \in 1 .. p + ((vSize - n) - p) : (a \o b)[i] = IF i <= p THEN a[i] ELSE b[i - p]
  BY <1>4, <1>5, ConcatProperties
<1>7. ASSUME NEW i \in 1 .. vSize - n PROVE vMem'[i] = (a \o b)[i]
  <2>1. i \in 1 .. p + ((vSize - n) - p)
    BY <1>1, VectorTypes
  <2>2. (a \o b)[i] = IF i <= p THEN a[i] ELSE b[i - p]
    BY <1>6, <2>1
  <2>3. CASE i <= p
    BY <1>4, <2>2, <2>3
  <2>4. CASE ~(i <= p)
    <3>1. i - p \in 1 .. (vSize - n) - p /\ p + n + (i - p) = i + n
      BY <1>1, <2>4, VectorTypes
    <3>2. b[i - p] = vMem[i + n]
      BY <1>5, <3>1
    <3>3. QED
      BY <2>2, <2>4, <3>2
  <2>5. QED
    BY <2>3, <2>4
<1>8. Len(a \o b) = vSize - n
  BY <1>1, <1>6, VectorTypes
<1>9. SubSeq(vMem', 1, vSize - n) = a \o b
  BY <1>1, <1>6, <1>7, <1>8, VectorListed
<1>10. Vector!List!Upto(p) = a /\ Vector!List!After(p + n) = b
  <2>1. p + n + 1 \in Nat /\ 1 <= p + n + 1 /\ vSize \in Nat /\ vSize <= vSize
    BY <1>1, VectorTypes
  <2>2. Vector!List!Upto(p) = a
    BY <1>1, <1>2, VectorParts DEF Vector!List!Upto
  <2>3. Vector!List!After(p + n) = SubSeq(Vector!Items, p + n + 1, vSize)
    BY VectorItems DEF Vector!List!After
  <2>4. SubSeq(Vector!Items, p + n + 1, vSize) = SubSeq(vMem, p + n + 1, vSize)
    BY <2>1, VectorParts
  <2>5. QED
    BY <1>3, <2>2, <2>3, <2>4
<1>11. QED
  BY <1>9, <1>10 DEF Vector!Items

LEMMA VectorListErase ==
    ASSUME VectorSound, NEW p \in 0 .. vSize, Vector!Erase(p)
    PROVE  [Vector!List!Next]_<<Vector!Items, vCall>>
<1>1. /\ p \in Nat /\ p < vSize /\ vSize' = vSize - 1 /\ vCall' = <<"erase", p, 1>>
      /\ vMem' = [i \in DOMAIN vMem |-> IF i \in p + 1 .. vSize - 1 THEN vMem[i + 1]
                                        ELSE IF i = vSize THEN Raw ELSE vMem[i]]
  BY VectorTypes DEF Vector!Erase
<1>2. \A i \in 1 .. vSize - 1 : vMem'[i] = IF i <= p THEN vMem[i] ELSE vMem[i + 1]
  BY <1>1, VectorTypes
<1>3. Vector!Items' = Vector!List!Upto(p) \o Vector!List!After(p + 1)
  <2>1. 1 \in Nat /\ p + 1 <= vSize
    BY <1>1, VectorTypes
  <2>2. QED
    BY <1>1, <1>2, <2>1, VectorListDrop
<1>4. p \in 0 .. Len(Vector!Items) - 1
  BY <1>1, VectorItems, VectorTypes
<1>5. QED
  BY <1>1, <1>3, <1>4 DEF Vector!List!Next, Vector!List!Did

LEMMA VectorListEraseRange ==
    ASSUME VectorSound, NEW p \in 0 .. vSize, NEW n \in 0 .. MaxSize, Vector!EraseRange(p, n),
           ~vStrayed'
    PROVE  [Vector!List!Next]_<<Vector!Items, vCall>>
<1>0. p \in Nat /\ n \in Nat /\ p + n <= vSize /\ (n = 0 \/ p + n = vSize)
  <2>1. vStrayed' = (n > 0 /\ p + n < vSize) /\ p + n <= vSize
    BY DEF Vector!EraseRange
  <2>2. ~(n > 0 /\ p + n < vSize) /\ p + n <= vSize
    BY <2>1
  <2>3. QED
    BY <2>2, VectorTypes
<1>1. /\ vSize' = vSize - n
      /\ vCall' = <<"erase", p, n>>
      /\ vMem' = [i \in DOMAIN vMem |->
                    IF n = 0 THEN vMem[i]
                    ELSE IF i \in p + 1 .. vSize - n THEN vMem[i + n]
                    ELSE IF i \in p + 1 .. p + n THEN Raw
                    ELSE IF i \in p + n + 1 .. vSize THEN Moved
                    ELSE vMem[i]]
  BY DEF Vector!EraseRange
<1>2. n = 0 \/ vSize - n = p
  BY <1>0, <1>1, VectorTypes
<1>3. \A i \in 1 .. vSize - n : vMem'[i] = IF i <= p THEN vMem[i] ELSE vMem[i + n]
  <2>1. CASE n = 0
    <3>1. \A i \in 1 .. vSize : i + n = i /\ vMem'[i] = vMem[i]
      BY <1>1, <2>1, VectorTypes
    <3>2. vSize - n = vSize
      BY <2>1, VectorTypes
    <3>3. QED
      BY <3>1, <3>2
  <2>2. CASE n # 0 /\ vSize - n = p
    BY <1>0, <1>1, <2>2, VectorTypes
  <2>3. QED
    BY <1>2, <2>1, <2>2
<1>4. Vector!Items' = Vector!List!Upto(p) \o Vector!List!After(p + n)
  BY <1>0, <1>1, <1>3, VectorListDrop
<1>5. p \in 0 .. Len(Vector!Items) /\ p + n <= Len(Vector!Items)
  BY <1>0, VectorItems, VectorTypes
<1>6. QED
  BY <1>1, <1>4, <1>5 DEF Vector!List!Next, Vector!List!Did

LEMMA VectorListStep ==
    ASSUME VectorSound, ~vStrayed', [Vector!Next]_vectorVars
    PROVE  [Vector!List!Next]_<<Vector!Items, vCall>>
<1>1. CASE UNCHANGED vectorVars
  BY <1>1 DEF vectorVars, Vector!Items
<1>2. CASE Vector!Clear
  <2>1. vSize' = 0 /\ vCall' = <<"clear">>
    BY <1>2 DEF Vector!Clear
  <2>2. SubSeq(vMem', 1, vSize') = <<>>
    BY <2>1, SubSeqEmpty
  <2>3. Vector!Items' = <<>>
    BY <2>2 DEF Vector!Items
  <2>4. QED
    BY <2>1, <2>3 DEF Vector!List!Next, Vector!List!Did
<1>3. ASSUME NEW n \in 0 .. MaxSize, Vector!Reserve(n)
      PROVE  [Vector!List!Next]_<<Vector!Items, vCall>>
  <2>1. CASE Vector!Fail("fail")
    BY <2>1 DEF Vector!Fail, Vector!Items, Vector!List!Next, Vector!List!Did
  <2>2. CASE vMem' = vMem /\ vSize' = vSize /\ vCall' = <<"reserve", n>>
    BY <2>2 DEF Vector!Items, Vector!List!Next, Vector!List!Did
  <2>3. CASE /\ Len(vMem) < n /\ vMem' = Vector!Fill(Vector!Items, n) /\ vSize' = vSize
             /\ vCall' = <<"reserve", n>>
    <3>1. n \in Nat /\ vSize <= n
      BY <2>3, VectorTypes
    <3>2. SubSeq(vMem', 1, vSize') = Vector!Items
      BY <2>3, <3>1, VectorItems, VectorFilled
    <3>3. Vector!Items' = Vector!Items
      BY <3>2 DEF Vector!Items
    <3>4. QED
      BY <2>3, <3>3 DEF Vector!List!Next, Vector!List!Did
  <2>4. QED
    BY <1>3, <2>1, <2>2, <2>3 DEF Vector!Reserve
<1>4. ASSUME NEW i \in 1 .. vSize, Vector!PushBackOwn(i)
      PROVE  [Vector!List!Next]_<<Vector!Items, vCall>>
  <2>1. vMem[i] \in Values /\ ~Vector!Grows(1)
    BY <1>4, VectorTypes DEF Vector!PushBackOwn
  <2>2. /\ vSize < MaxSize /\ vSize' = vSize + 1
        /\ vMem' = [vMem EXCEPT ![vSize + 1] = vMem[i]] /\ vCall' = <<"push", vMem[i]>>
    BY <1>4, <2>1 DEF Vector!PushBackOwn
  <2>3. Vector!PushBack(vMem[i])
    BY <2>1, <2>2 DEF Vector!PushBack
  <2>4. QED
    BY <2>1, <2>3, VectorListPush
<1>5. ASSUME NEW p \in 0 .. vSize, NEW x \in Values, Vector!InsertNone(p, x)
      PROVE  [Vector!List!Next]_<<Vector!Items, vCall>>
  <2>0. vStrayed' = (p < vSize)
    BY <1>5 DEF Vector!InsertNone
  <2>1. /\ p = vSize /\ vSize' = vSize /\ vCall' = <<"insert", p, 0, x>>
        /\ vMem' = [i \in DOMAIN vMem |-> IF i \in p + 1 .. vSize THEN Raw ELSE vMem[i]]
    <3>1. ~(p < vSize)
      BY <2>0
    <3>2. QED
      BY <1>5, <3>1, VectorTypes DEF Vector!InsertNone
  <2>2. vMem' = vMem
    BY <2>1, VectorTypes
  <2>3. Vector!Items' = Vector!Items
    BY <2>1, <2>2 DEF Vector!Items
  <2>4. /\ Vector!Items \in Seq(Values) /\ Len(Vector!Items) = vSize
        /\ vSize \in Nat /\ p \in 0 .. Len(Vector!Items) /\ 0 \in 0 .. MaxSize
    BY VectorItems, VectorTypes
  <2>5. Vector!List!Upto(p) = Vector!Items
    BY <2>1, <2>4, VectorListed DEF Vector!List!Upto
  <2>6. Vector!List!After(p) = <<>>
    BY <2>1, <2>4, SubSeqEmpty DEF Vector!List!After
  <2>7. Vector!List!Copies(0, x) \in Seq(Values) /\ Len(Vector!List!Copies(0, x)) = 0
    BY DEF Vector!List!Copies
  <2>8. Vector!List!Copies(0, x) = <<>>
    BY <2>7, EmptySeq
  <2>9. Vector!Items = Vector!List!Upto(p) \o Vector!List!Copies(0, x) \o Vector!List!After(p)
    BY <2>4, <2>5, <2>6, <2>8, ConcatEmptySeq
  <2>10. QED
    BY <2>1, <2>3, <2>4, <2>9 DEF Vector!List!Next, Vector!List!Did
<1>6. QED
  BY <1>1, <1>2, <1>3, <1>4, <1>5, VectorListPush, VectorListInsert, VectorListResize,
     VectorListAssign, VectorListErase, VectorListEraseRange DEF Vector!Next

\* A vector is a list under the same calls, with any elements and any bound, until
\* a call strays.
THEOREM VectorIsAList == Spec => Vector!IsAList
<1>1. ASSUME Init PROVE Vector!List!Init
  <2>1. vMem = <<>> /\ vSize = 0 /\ vCall = <<"none">>
    BY <1>1, Starts DEF Vector!Init
  <2>2. SubSeq(vMem, 1, vSize) = <<>>
    BY <2>1, SubSeqEmpty
  <2>3. QED
    BY <2>1, <2>2 DEF Vector!Items, Vector!List!Init
<1>2. VectorInv /\ [Next]_mcvars => [Vector!List!Next \/ vStrayed']_<<Vector!Items, vCall>>
  <2>1. SUFFICES ASSUME VectorInv, [Next]_mcvars, ~vStrayed'
                 PROVE  [Vector!List!Next]_<<Vector!Items, vCall>>
    OBVIOUS
  <2>2. [Vector!Next]_vectorVars
    BY <2>1, Moves
  <2>3. CASE UNCHANGED vectorVars
    BY <2>3 DEF vectorVars, Vector!Items
  <2>4. CASE Vector!Next
    BY <2>1, <2>2, <2>4, VectorListStep DEF VectorInv, Vector!Next
  <2>5. QED
    BY <2>2, <2>3, <2>4
<1>3. QED
  BY <1>1, <1>2, VectorInvariant, PTL DEF Spec, Vector!IsAList
=============================================================================
