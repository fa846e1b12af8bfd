---------------------------- MODULE SharedString ----------------------------
(***************************************************************************)
(* Strings that share their data, String.hxx (and Utf8String.hxx), over    *)
(* the reference counts of RefCount.hxx and the blocks of SharedData.hxx.  *)
(* Copies share a block; append() writes into the block if it has it for   *)
(* itself and makes a new one otherwise.  Every thread has strings of its  *)
(* own and may copy those of others.  One action per access to a count.    *)
(***************************************************************************)
EXTENDS Integers, Sequences, FiniteSets

CONSTANTS Threads, Blocks, Letters,
          Owned,      \* strings of each thread
          MaxLength,  \* bound: letters in a string
          Slack,      \* letters grow() gives beyond the need
          CopyDuringAppend,  \* a string may be copied during its append()
          Empty, Literal     \* static blocks, with the count Persistent

SharedStringAssumption ==
    /\ IsFiniteSet(Threads) /\ IsFiniteSet(Owned) /\ Letters # {}
    /\ Empty # Literal /\ {Empty, Literal} \cap Blocks = {}
    /\ MaxLength \in Nat /\ Slack \in Nat /\ CopyDuringAppend \in BOOLEAN

Handles == Threads \X Owned

VARIABLES ptr,   \* m_ref.ptr of each string
          heap,  \* the allocated blocks: count, text and capacity
          call   \* the call each thread is in, and its locals

vars == <<ptr, heap, call>>

Allocated == DOMAIN heap
\* What a literal holds is one letter.
Text(b) == IF b \in Allocated THEN heap[b].text
           ELSE IF b = Literal THEN <<CHOOSE c \in Letters : TRUE>> ELSE <<>>

Idle == [at |-> "idle"]

Init ==
    /\ ptr = [h \in Handles |-> Empty]
    /\ heap = [b \in {} |-> 0]
    /\ call = [t \in Threads |-> Idle]

At(t, place) == call[t].at = place
Goto(t, place) == call' = [call EXCEPT ![t].at = place]
Return(t) == call' = [call EXCEPT ![t] = Idle]
Mine(t) == {h \in Handles : h[1] = t}

\* A string is busy while a call changes it or reads it.
Changing(h) == \E t \in Threads : ~At(t, "idle") /\ call[t].string = h
Reading(h) == \E t \in Threads : At(t, "copy") /\ call[t].source = h

Allocate(b, text, capacity) ==
    heap' = [x \in Allocated \cup {b} |->
                IF x = b THEN [ref |-> 1, text |-> text, capacity |-> capacity]
                ELSE heap[x]]

\* What happens to the block a string has left.
ToRelease(t, h, b) ==
    call' = [call EXCEPT ![t] = [at |-> "release", string |-> h, block |-> b]]

\* decrement(): a persistent count is left alone, and never changes, so that
\* its test needs no step of its own; who takes a count to 0 frees the block.
Release(t) ==
    /\ At(t, "release")
    /\ LET b == call[t].block IN
       IF b \notin Allocated
       THEN Return(t) /\ UNCHANGED heap
       ELSE /\ heap' = [heap EXCEPT ![b].ref = @ - 1]
            /\ IF heap[b].ref = 1 THEN Goto(t, "free") ELSE Return(t)
    /\ UNCHANGED ptr

Free(t) ==
    /\ At(t, "free")
    /\ heap' = [b \in Allocated \ {call[t].block} |-> heap[b]]
    /\ Return(t)
    /\ UNCHANGED ptr

----------------------------------------------------------------------------
(* Making, copying, assigning and destroying strings. *)

Ready(t, h) == At(t, "idle") /\ h \in Mine(t) /\ ~Reading(h)

\* A string made from text, with no room for more, or by format().
Make(t, h, c) ==
    /\ Ready(t, h) /\ ptr[h] = Empty
    /\ \E b \in Blocks \ Allocated, room \in {0, Slack} :
          Allocate(b, <<c>>, 2 + room) /\ ptr' = [ptr EXCEPT ![h] = b]
    /\ UNCHANGED call

MakeLiteral(t, h) ==
    /\ Ready(t, h) /\ ptr[h] = Empty
    /\ ptr' = [ptr EXCEPT ![h] = Literal]
    /\ UNCHANGED <<heap, call>>

\* A copy, or an assignment: the pointer is read, then the count raised.
CopyRead(t, h, g) ==
    /\ Ready(t, h) /\ ptr[g] # ptr[h]
    /\ Changing(g) => /\ CopyDuringAppend
                      /\ \E s \in Threads : ~At(s, "idle") /\ call[s].string = g
                            /\ call[s].at \in {"lock", "owned", "write", "unlock",
                                               "unlocked"}
    /\ call' = [call EXCEPT ![t] = [at |-> "copy", string |-> h, source |-> g,
                                    block |-> ptr[g]]]
    /\ UNCHANGED <<ptr, heap>>

\* Mutant: the count is raised only where it is shared already.
CopyCountShared(t) ==
    /\ At(t, "copy")
    /\ LET b == call[t].block
           h == call[t].string
       IN /\ heap' = IF b \in Allocated /\ heap[b].ref > 1
                     THEN [heap EXCEPT ![b].ref = @ + 1] ELSE heap
          /\ ptr' = [ptr EXCEPT ![h] = b]
          /\ ToRelease(t, h, ptr[h])

\* increment(); the old data goes with the temporary it was swapped into.
CopyCount(t) ==
    /\ At(t, "copy")
    /\ LET b == call[t].block
           h == call[t].string
       IN /\ heap' = IF b \in Allocated THEN [heap EXCEPT ![b].ref = @ + 1]
                     ELSE heap
          /\ ptr' = [ptr EXCEPT ![h] = b]
          /\ ToRelease(t, h, ptr[h])

Destroy(t, h) ==
    /\ Ready(t, h) /\ ptr[h] # Empty
    /\ ptr' = [ptr EXCEPT ![h] = Empty]
    /\ ToRelease(t, h, ptr[h])
    /\ UNCHANGED heap

\* Moving swaps with a new, empty string, whose data is static.
Move(t, h, g) ==
    /\ Ready(t, h) /\ Ready(t, g) /\ ptr[g] # Empty /\ ptr[h] = Empty
    /\ ptr' = [ptr EXCEPT ![h] = ptr[g], ![g] = Empty]
    /\ UNCHANGED <<heap, call>>

----------------------------------------------------------------------------
(* append() of one letter. *)

\* Mutant: no room is kept for the terminating zero.
AppendBeginNoZero(t, h, c) ==
    /\ Ready(t, h) /\ Len(Text(ptr[h])) < MaxLength
    /\ LET b == ptr[h]
           fits == b \in Allocated /\ heap[b].capacity >= Len(heap[b].text) + 1
       IN call' = [call EXCEPT ![t] =
                     [at |-> IF fits THEN "lock" ELSE "allocate", string |-> h,
                      block |-> b, letter |-> c, wrote |-> FALSE]]
    /\ UNCHANGED <<ptr, heap>>

\* writeable(), and capacity for the letter and the terminating zero.
AppendBegin(t, h, c) ==
    /\ Ready(t, h) /\ Len(Text(ptr[h])) < MaxLength
    /\ LET b == ptr[h]
           fits == b \in Allocated /\ heap[b].capacity >= Len(heap[b].text) + 2
       IN call' = [call EXCEPT ![t] =
                     [at |-> IF fits THEN "lock" ELSE "allocate", string |-> h,
                      block |-> b, letter |-> c, wrote |-> FALSE]]
    /\ UNCHANGED <<ptr, heap>>

\* Mutant: a count that is shared is locked all the same.
AppendLockShared(t) ==
    /\ At(t, "lock")
    /\ heap' = [heap EXCEPT ![call[t].block].ref = @ + 1] /\ Goto(t, "write")
    /\ UNCHANGED ptr

\* lock(): the count from 1 to 2, or not at all.
AppendLock(t) ==
    /\ At(t, "lock")
    /\ IF heap[call[t].block].ref = 1
       THEN heap' = [heap EXCEPT ![call[t].block].ref = 2] /\ Goto(t, "owned")
       ELSE Goto(t, "allocate") /\ UNCHANGED heap
    /\ UNCHANGED ptr

\* owned() before the text is written: a look at the count.
AppendOwned(t) ==
    /\ At(t, "owned")
    /\ Goto(t, IF heap[call[t].block].ref = 2 THEN "write" ELSE "scope")
    /\ UNCHANGED <<ptr, heap>>

AppendWrite(t) ==
    /\ At(t, "write")
    /\ heap' = [heap EXCEPT ![call[t].block].text = Append(@, call[t].letter)]
    /\ call' = [call EXCEPT ![t].at = "scope", ![t].wrote = TRUE]
    /\ UNCHANGED ptr

\* A text that could not be written in place goes to a new block.
AppendGoesOn(t) == IF call[t].wrote THEN Return(t) ELSE Goto(t, "allocate")

\* ~lock_scope(): owned() once more; if it says no the count is not lowered.
AppendScopeEnds(t) ==
    /\ At(t, "scope")
    /\ IF heap[call[t].block].ref = 2 THEN Goto(t, "unlock") ELSE AppendGoesOn(t)
    /\ UNCHANGED <<ptr, heap>>

\* unlock() asserts that the count is 2, and lowers it.
AppendUnlock(t) ==
    /\ At(t, "unlock")
    /\ heap' = [heap EXCEPT ![call[t].block].ref = @ - 1]
    /\ AppendGoesOn(t)
    /\ UNCHANGED ptr

\* A new block, which has the text of both; no memory leaves all as it was.
AppendAllocate(t) ==
    /\ At(t, "allocate")
    /\ LET old == call[t].block
           text == Append(Text(old), call[t].letter)
       IN \/ \E b \in Blocks \ Allocated :
                /\ Allocate(b, text, Len(text) + 1 + Slack)
                /\ ptr' = [ptr EXCEPT ![call[t].string] = b]
                /\ ToRelease(t, call[t].string, old)
          \/ Return(t) /\ UNCHANGED <<ptr, heap>>

----------------------------------------------------------------------------
Step(t) ==
    \/ CopyCount(t) \/ Release(t) \/ Free(t)
    \/ AppendLock(t) \/ AppendOwned(t) \/ AppendWrite(t)
    \/ AppendScopeEnds(t) \/ AppendUnlock(t) \/ AppendAllocate(t)

Call(t) ==
    \E h \in Handles :
        \/ \E c \in Letters : Make(t, h, c) \/ AppendBegin(t, h, c)
        \/ MakeLiteral(t, h) \/ Destroy(t, h)
        \/ \E g \in Handles : CopyRead(t, h, g) \/ Move(t, h, g)

Next == \E t \in Threads : Step(t) \/ Call(t)

Spec == Init /\ [][Next]_vars

----------------------------------------------------------------------------
(* Properties. *)

Places == {"idle", "copy", "release", "free", "lock", "owned", "write",
           "scope", "unlock", "allocate"}

TypeOK ==
    /\ ptr \in [Handles -> Blocks \cup {Empty, Literal}]
    /\ Allocated \subseteq Blocks
    /\ \A b \in Allocated :
          /\ heap[b].ref \in 0 .. Cardinality(Handles) + Cardinality(Threads)
          /\ heap[b].text \in Seq(Letters)
          /\ Len(heap[b].text) < heap[b].capacity
    /\ \A t \in Threads : call[t].at \in Places

\* The references calls under way have to b: an append()'s lock, and what an
\* assignment or a destructor is about to release.
InCalls(b) ==
    {t \in Threads : /\ call[t].at \in {"release", "owned", "write", "scope",
                                         "unlock"}
                     /\ call[t].block = b}

\* The count of a block is that of the strings that share it and of calls
\* under way (RefCount.hxx 29-56): no block is lost, none freed while in use.
CountIsExact ==
    \A b \in Allocated :
        heap[b].ref = Cardinality({h \in Handles : ptr[h] = b})
                      + Cardinality(InCalls(b))

\* No string and no call refers to a block that was freed (String.hxx 61-67).
BlocksInUseAreAllocated ==
    /\ \A h \in Handles : ptr[h] \in Allocated \cup {Empty, Literal}
    /\ \A t \in Threads :
          ~At(t, "idle") => call[t].block \in Allocated \cup {Empty, Literal}

\* Sharing is not seen: a change of one string changes no other, whatever the
\* threads do with theirs (append(), String.hxx 234-306).
Plain == INSTANCE StringValues WITH val <- [h \in Handles |-> Text(ptr[h])]
StringsAreValues == Plain!Spec
=============================================================================
