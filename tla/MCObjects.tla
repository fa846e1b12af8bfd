------------------------------ MODULE MCObjects ------------------------------
(***************************************************************************)
(* The library's data types, its initialization and the rundown guard for  *)
(* TLC: each has its part of the state graph, chosen by the initial state  *)
(* and kept, in which it moves and the others rest.                        *)
(***************************************************************************)
EXTENDS Naturals, FiniteSets, TLC

CONSTANTS Threads, Blocks, Letters, Owned,  \* strings
          MaxLength, Slack, Empty, Literal,
          Callers, Last, MaxCalls,          \* SkBase::initialize()
          Nodes, Root, Null,                \* IntrusiveList, HashMap
          Values, Default, Raw, Moved,      \* Vector, CircularBuffer
          MaxSize, MaxCapacity,
          Keys, Hash(_), HashNodes, MaxBuckets, \* HashMap
          Users, MaxEntries                 \* RundownGuard

VARIABLES
    part,  \* the component that moves
    sPtr, sHeap, sCall,
    iRefs, iUp, iPc, iIndex, iCalls,
    lNext, lPrev, lSize, lPulled,
    vMem, vSize, vCall, vStrayed,
    cBuffer, cCall, cStrayed,
    mMap, mCall, mCrowded,
    gCount, gActive, gPc, gVal, gWaiter, gEntries

\* No string is copied while it is appended to.
Strings == INSTANCE SharedString WITH
    CopyDuringAppend <- FALSE, ptr <- sPtr, heap <- sHeap, call <- sCall

Library == INSTANCE Library WITH
    refs <- iRefs, up <- iUp, pc <- iPc, i <- iIndex, calls <- iCalls

List == INSTANCE IntrusiveList WITH
    next <- lNext, prev <- lPrev, size <- lSize, pulled <- lPulled

\* Objects with a destructor.
Vector == INSTANCE Vector WITH
    Trivial <- FALSE, mem <- vMem, size <- vSize, call <- vCall, strayed <- vStrayed

Ring == INSTANCE CircularBuffer WITH
    cb <- cBuffer, call <- cCall, strayed <- cStrayed

Map == INSTANCE HashMap WITH
    Nodes <- HashNodes, InitialCount <- 2,
    map <- mMap, call <- mCall, crowded <- mCrowded

\* A hash that some keys share.
Halved(k) == k \div 2

Guard == INSTANCE Rundown WITH
    count <- gCount, active <- gActive, pc <- gPc, val <- gVal,
    waiter <- gWaiter, entries <- gEntries

ASSUME ObjectsAssumption ==
    /\ Strings!SharedStringAssumption /\ Library!LibraryAssumption
    /\ List!ListAssumption /\ Vector!VectorAssumption /\ Ring!BufferAssumption
    /\ Map!HashMapAssumption /\ Guard!RundownAssumption

stringVars == <<sPtr, sHeap, sCall>>
libraryVars == <<iRefs, iUp, iPc, iIndex, iCalls>>
listVars == <<lNext, lPrev, lSize, lPulled>>
vectorVars == <<vMem, vSize, vCall, vStrayed>>
ringVars == <<cBuffer, cCall, cStrayed>>
mapVars == <<mMap, mCall, mCrowded>>
guardVars == <<gCount, gActive, gPc, gVal, gWaiter, gEntries>>
mcvars == <<part, stringVars, libraryVars, listVars, vectorVars, ringVars,
            mapVars, guardVars>>

Init ==
    /\ part \in {"strings", "library", "list", "vector", "ring", "map", "guard"}
    /\ Strings!Init /\ Library!Init /\ List!Init /\ Vector!Init /\ Ring!Init
    /\ Map!Init /\ Guard!Init

\* What rests while the component p moves.
Only(p) ==
    /\ part = p /\ UNCHANGED part
    /\ IF p = "strings" THEN TRUE ELSE UNCHANGED stringVars
    /\ IF p = "library" THEN TRUE ELSE UNCHANGED libraryVars
    /\ IF p = "list" THEN TRUE ELSE UNCHANGED listVars
    /\ IF p = "vector" THEN TRUE ELSE UNCHANGED vectorVars
    /\ IF p = "ring" THEN TRUE ELSE UNCHANGED ringVars
    /\ IF p = "map" THEN TRUE ELSE UNCHANGED mapVars
    /\ IF p = "guard" THEN TRUE ELSE UNCHANGED guardVars

Next ==
    \/ Only("strings") /\ Strings!Next
    \/ Only("library") /\ Library!Next
    \/ Only("list") /\ List!Next
    \/ Only("vector") /\ Vector!Next
    \/ Only("ring") /\ Ring!Next
    \/ Only("map") /\ Map!Next
    \/ Only("guard") /\ Guard!Next

Spec == Init /\ [][Next]_mcvars

\* Strings treat threads, and blocks, alike.
Symmetric == Permutations(Threads) \cup Permutations(Blocks)

----------------------------------------------------------------------------
(* The properties of the components; their modules say what they mean. *)

\* Every variable keeps its type, in each component.
TypeOK ==
    /\ Strings!TypeOK /\ Library!TypeOK /\ List!TypeOK /\ Vector!TypeOK
    /\ Ring!TypeOK /\ Map!TypeOK /\ Guard!TypeOK

\* Strings: the count of a block is that of its users, and none of them refers
\* to a block that was freed.
StringBlocksAreCounted == Strings!CountIsExact /\ Strings!BlocksInUseAreAllocated

\* Strings: sharing is not seen.
StringsAreValues == Strings!StringsAreValues

\* Initialization: components come up in the order of the table and go down in
\* reverse; who fails, and the last to go, leave nothing behind.
LibraryIsInOrder ==
    Library!UpInOrder /\ Library!NothingLeftUp /\ Library!FinalizedWereUp

\* Vector and intrusive list: objects live up to the end and only there, up to
\* a call of the vector that strays, and neighbours agree on their links and
\* the size counts them.
SequencesAreSound == Vector!LiveToTheEnd /\ List!LinksMatch /\ List!SizeIsLinked

\* Circular buffer, up to an insertion that strays, and hash map, until a bucket
\* is crowded: no slot is constructed twice or used without an object, objects
\* live from the first on, linearize() leaves one piece, and hashes and buckets
\* agree with the nodes.
StorageIsSound ==
    /\ Ring!LifetimesRespected /\ Ring!LiveFromFirst /\ Ring!Linearized
    /\ Map!TableIsSound

\* Under their calls the intrusive list is a sequence of nodes, and the vector a
\* list and the circular buffer a list of bounded length, up to a call that
\* strays.
ContainersAreLists == List!IsAList /\ Vector!IsAList /\ Ring!IsARing

\* Hash map: the calls return what those of a map return, until a bucket is
\* crowded.
MapImplementsMap == Map!ImplementsMap

\* Hash map, insert_impl(): "allow only unique keys" (HashMap_details.hxx 644).
MapKeysAreUnique == Map!OnlyUniqueKeys

\* RundownGuard: the word counts the users inside, and after wait() there are
\* none.
GuardIsExact == Guard!CountIsInside /\ Guard!ClosedIsEmpty

\* RundownGuard: its calls take effect at one instant each.
GuardImplementsGate == Guard!ImplementsGate
=============================================================================
