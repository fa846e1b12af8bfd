--------------------------- MODULE ServicesProofs ---------------------------
(***************************************************************************)
(* Proofs about the components of MCServices, for every value of the       *)
(* constants: the timer, the debug heap, the UDP server, the window of     *)
(* SkTracer and the rundown guard.                                         *)
(***************************************************************************)
EXTENDS MCServices, RingLemmas

\* A step of the whole is a step of a component, or leaves it alone.
LEMMA Moves ==
    ASSUME [Next]_mcvars
    PROVE  /\ [TcpServer!Next]_tcpVars /\ [UdpServer!Next]_udpVars
           /\ [Window!Next]_windowVars /\ [Guard!Next]_guardVars
           /\ [Heap!Next]_heapVars /\ [Timer!Next]_timerVars
BY DEF Next, Only, mcvars

LEMMA Starts ==
    ASSUME Init
    PROVE  /\ TcpSink!Init /\ TcpSinkKm!Init /\ TcpServer!Init /\ UdpServer!Init
           /\ Window!Init /\ Guard!Init /\ Heap!Init /\ Timer!Init
           /\ part \in {"tcp_sink", "udp_sink", "tcp_sink_km", "udp_sink_km",
                       "tcp_server", "udp_server", "window", "guard", "heap", "timer"}
BY DEF Init

LEMMA SinkMoves ==
    ASSUME [Next]_mcvars
    PROVE  /\ part' = part
           /\ \/ part = "tcp_sink" /\ TcpSink!Next
              \/ part = "udp_sink" /\ UdpSink!Next
              \/ UNCHANGED sinkVars
           /\ \/ part = "tcp_sink_km" /\ TcpSinkKm!Next
              \/ part = "udp_sink_km" /\ UdpSinkKm!Next
              \/ UNCHANGED kmVars
BY DEF Next, Only, mcvars
----------------------------------------------------------------------------
(* The timer *)

\* The handle is valid in cancel() only, and its timer is then out of the queue.
TimerInv ==
    /\ Timer!TypeOK /\ Timer!OnlyTheTimerRuns
    /\ mPc \in Timer!Modes \cup {"close", "closing", "gone"} => mHandle = NoHandle
    /\ mPc = "cancel" => mHandle \in Handles /\ mTimers[mHandle] = "none"

LEMMA TimerStep ==
    ASSUME TimerInv, [Timer!Next]_timerVars
    PROVE  TimerInv'
<1>0. /\ NoHandle \notin Handles /\ MaxRunning \in Nat \ {0}
      /\ mHandle \in Handles \cup {NoHandle}
      /\ mRunning \in [Handles -> 0 .. MaxRunning]
      /\ mTimers \in [Handles -> {"none", "fired", "once", "every"}]
  BY ServicesAssumption DEF Timer!TimerAssumption, TimerInv, Timer!TypeOK, Timer!Modes
<1> USE DEF TimerInv, Timer!TypeOK, Timer!OnlyTheTimerRuns, Timer!Modes
<1>1. CASE UNCHANGED timerVars
  BY <1>1 DEF timerVars
<1>2. ASSUME NEW what \in {"idle", "close", "once", "every"}, Timer!CancelBegin(what)
      PROVE  TimerInv'
  BY <1>0, <1>2 DEF Timer!CancelBegin
<1>3. CASE Timer!CancelEnd
  BY <1>0, <1>3 DEF Timer!CancelEnd
<1>4. CASE Timer!Arm
  BY <1>0, <1>4 DEF Timer!Arm
<1>5. CASE Timer!CloseQueue
  BY <1>0, <1>5 DEF Timer!CloseQueue
<1>6. CASE Timer!Closed
  BY <1>0, <1>6 DEF Timer!Closed
<1>7. ASSUME NEW h \in Handles, Timer!Fire(h)
      PROVE  TimerInv'
  BY <1>0, <1>7 DEF Timer!Fire
<1>8. ASSUME NEW h \in Handles, Timer!Returns(h)
      PROVE  TimerInv'
  BY <1>0, <1>8 DEF Timer!Returns
<1>9. QED
  BY <1>1, <1>2, <1>3, <1>4, <1>5, <1>6, <1>7, <1>8 DEF Timer!Next, Timer!Owner

\* The handle of the timer and the state of its call agree after every step.
THEOREM TimerInvariant == Spec => []TimerInv
<1>1. ASSUME Init PROVE TimerInv
  <2>1. Timer!Init
    BY <1>1, Starts
  <2>2. QED
    BY <2>1, ServicesAssumption DEF Timer!TimerAssumption, Timer!Init, TimerInv, Timer!TypeOK,
       Timer!OnlyTheTimerRuns, Timer!Modes
<1>2. TimerInv /\ [Next]_mcvars => TimerInv'
  BY Moves, TimerStep
<1>3. QED
  BY <1>1, <1>2, PTL DEF Spec

\* No callback of a timer runs after cancel() or the destructor, and none that
\* the handle does not stand for, with any number of timers and callbacks.
THEOREM CancelledTimerIsQuiet == Spec => []TimerOnlyTheTimerRuns
<1>1. TimerInv => TimerOnlyTheTimerRuns
  BY DEF TimerInv, TimerOnlyTheTimerRuns
<1>2. QED
  BY <1>1, TimerInvariant, PTL
----------------------------------------------------------------------------
(* The debug heap *)

HeapPCs == {"idle", "lock", "spin", "mark", "record", "remove", "dump", "count",
            "unlock", "release", "free"}
Listed == Elements(hList)

\* Where the thread holds the lock, and where its mark is in it.
HeapLocked == {"mark", "record", "remove", "dump", "count", "unlock", "release"}
HeapMarked == {"record", "remove", "dump", "count", "unlock"}

\* The lock is taken by one thread at most, and marked by the one inside.
HeapLockInv ==
    /\ \A t, s \in Threads : hPc[t] \in HeapLocked /\ hPc[s] \in HeapLocked => t = s
    /\ hLock = 1 <=> \E t \in Threads : hPc[t] \in HeapLocked
    /\ \A t \in Threads : hThread = t <=> hPc[t] \in HeapMarked

\* A thread is where its operation takes it.
HeapOpInv ==
    \A t \in Threads :
        /\ hPc[t] \in HeapPCs /\ (hPc[t] # "idle" => hOp[t] # "none")
        /\ hPc[t] \in {"record", "remove", "dump"} => hOp[t] = hPc[t]
        /\ hPc[t] = "count" => hOp[t] \in {"record", "remove"}
        /\ hPc[t] = "free" => hOp[t] = "remove"

\* The block in a thread's hand is allocated and no client's; it is listed
\* after a "record" and before a "remove".
InHand(t) == hPc[t] # "idle" /\ hOp[t] \in {"record", "remove"}
HeapBlockInv ==
    \A t \in Threads : InHand(t) =>
        /\ hBlk[t] \in hUnder \ hHeld
        /\ \A s \in Threads : InHand(s) /\ hBlk[s] = hBlk[t] => s = t
        /\ hOp[t] = "record" =>
             (hBlk[t] \in Listed <=> hPc[t] \in {"count", "unlock", "release"})
        /\ hOp[t] = "remove" =>
             (hBlk[t] \in Listed <=> hPc[t] \in {"lock", "spin", "mark", "remove"})

HeapListInv ==
    hHeld \subseteq Listed /\ Listed \subseteq hUnder /\ Distinct(hList)

\* The count is that of the list but between the two steps of an operation.
HeapCountInv ==
    /\ hPeak >= hCurrent
    /\ (\A t \in Threads : hPc[t] # "count") => hCurrent = Len(hList)
    /\ \A t \in Threads : hPc[t] = "count" =>
         /\ hReg[t] = hCurrent
         /\ hOp[t] = "record" => Len(hList) = hCurrent + 1
         /\ hOp[t] = "remove" => Len(hList) = hCurrent - 1

HeapInv == /\ Heap!TypeOK /\ hPc \in [Threads -> HeapPCs]
           /\ HeapLockInv /\ HeapOpInv /\ HeapBlockInv /\ HeapListInv /\ HeapCountInv

LEMMA HeapStep ==
    ASSUME HeapInv, [Heap!Next]_heapVars
    PROVE  HeapInv'
<1>1. CASE UNCHANGED heapVars
  BY <1>1 DEF heapVars, HeapInv, Heap!TypeOK, HeapLockInv, HeapOpInv, HeapBlockInv, InHand,
     HeapListInv, HeapCountInv, Listed
<1>2. SUFFICES ASSUME NEW t \in Threads,
                      \/ Heap!Inside(t) \/ Heap!Dump(t)
                      \/ \E b \in Blocks : Heap!Allocate(t, b) \/ Heap!Free(t, b)
               PROVE  HeapInv'
  BY <1>1 DEF Heap!Next
<1>0. /\ NoThread \notin Threads /\ NoBlock \notin Blocks
      /\ Heap!TypeOK /\ hPc \in [Threads -> HeapPCs]
      /\ HeapLockInv /\ HeapOpInv /\ HeapBlockInv /\ HeapListInv /\ HeapCountInv
  BY ServicesAssumption DEF Heap!HeapAssumption, HeapInv
<1> USE DEF HeapInv, HeapPCs, Heap!Goto, Heap!At
<1>3. ASSUME NEW b \in Blocks, Heap!Allocate(t, b) PROVE HeapInv'
  <2> USE DEF Heap!Allocate, Heap!Begin, Heap!locks
  <2>1. (Heap!TypeOK)' /\ (hPc \in [Threads -> HeapPCs])'
    BY <1>0, <1>3 DEF Heap!TypeOK
  <2>2. HeapLockInv' /\ HeapOpInv'
    BY <1>0, <1>3 DEF HeapLockInv, HeapOpInv, HeapLocked, HeapMarked, Heap!TypeOK
  <2>3. HeapBlockInv'
    BY <1>0, <1>3 DEF HeapBlockInv, HeapListInv, InHand, Listed, Heap!TypeOK
  <2>4. HeapListInv' /\ HeapCountInv'
    BY <1>0, <1>3 DEF HeapListInv, HeapCountInv, Listed, Heap!TypeOK
  <2>5. QED
    BY <2>1, <2>2, <2>3, <2>4
<1>4. ASSUME NEW b \in Blocks, Heap!Free(t, b) PROVE HeapInv'
  <2> USE DEF Heap!Free, Heap!Begin, Heap!locks
  <2>1. (Heap!TypeOK)' /\ (hPc \in [Threads -> HeapPCs])'
    BY <1>0, <1>4 DEF Heap!TypeOK
  <2>2. HeapLockInv' /\ HeapOpInv'
    BY <1>0, <1>4 DEF HeapLockInv, HeapOpInv, HeapLocked, HeapMarked, Heap!TypeOK
  <2>3. HeapBlockInv'
    BY <1>0, <1>4 DEF HeapBlockInv, HeapListInv, InHand, Listed, Heap!TypeOK
  <2>4. HeapListInv' /\ HeapCountInv'
    BY <1>0, <1>4 DEF HeapListInv, HeapCountInv, Listed, Heap!TypeOK
  <2>5. QED
    BY <2>1, <2>2, <2>3, <2>4
<1>5. CASE Heap!Dump(t)
  <2> USE DEF Heap!Dump, Heap!Begin, Heap!locks
  <2>1. (Heap!TypeOK)' /\ (hPc \in [Threads -> HeapPCs])'
    BY <1>0, <1>5 DEF Heap!TypeOK, HeapOpInv
  <2>2. HeapLockInv' /\ HeapOpInv'
    BY <1>0, <1>5 DEF HeapLockInv, HeapOpInv, HeapLocked, HeapMarked, Heap!TypeOK
  <2>3. HeapBlockInv'
    BY <1>0, <1>5 DEF HeapBlockInv, HeapListInv, HeapOpInv, InHand, Listed, Heap!TypeOK
  <2>4. HeapListInv' /\ HeapCountInv'
    BY <1>0, <1>5 DEF HeapListInv, HeapCountInv, HeapLockInv, HeapLocked, HeapBlockInv,
       HeapOpInv, InHand, Listed, Heap!TypeOK
  <2>5. QED
    BY <2>1, <2>2, <2>3, <2>4
<1>6. CASE Heap!Exchange(t)
  <2> USE DEF Heap!Exchange, Heap!data
  <2>1. (Heap!TypeOK)' /\ (hPc \in [Threads -> HeapPCs])'
    BY <1>0, <1>6 DEF Heap!TypeOK, HeapOpInv
  <2>2. HeapLockInv' /\ HeapOpInv'
    BY <1>0, <1>6 DEF HeapLockInv, HeapOpInv, HeapLocked, HeapMarked, Heap!TypeOK
  <2>3. HeapBlockInv'
    BY <1>0, <1>6 DEF HeapBlockInv, HeapListInv, HeapOpInv, InHand, Listed, Heap!TypeOK
  <2>4. HeapListInv' /\ HeapCountInv'
    BY <1>0, <1>6 DEF HeapListInv, HeapCountInv, HeapLockInv, HeapLocked, HeapBlockInv,
       HeapOpInv, InHand, Listed, Heap!TypeOK
  <2>5. QED
    BY <2>1, <2>2, <2>3, <2>4
<1>7. CASE Heap!Spin(t)
  <2> USE DEF Heap!Spin, Heap!data, Heap!locks
  <2>1. (Heap!TypeOK)' /\ (hPc \in [Threads -> HeapPCs])'
    BY <1>0, <1>7 DEF Heap!TypeOK, HeapOpInv
  <2>2. HeapLockInv' /\ HeapOpInv'
    BY <1>0, <1>7 DEF HeapLockInv, HeapOpInv, HeapLocked, HeapMarked, Heap!TypeOK
  <2>3. HeapBlockInv'
    BY <1>0, <1>7 DEF HeapBlockInv, HeapListInv, HeapOpInv, InHand, Listed, Heap!TypeOK
  <2>4. HeapListInv' /\ HeapCountInv'
    BY <1>0, <1>7 DEF HeapListInv, HeapCountInv, HeapLockInv, HeapLocked, HeapBlockInv,
       HeapOpInv, InHand, Listed, Heap!TypeOK
  <2>5. QED
    BY <2>1, <2>2, <2>3, <2>4
<1>8. CASE Heap!Mark(t)
  <2> USE DEF Heap!Mark, Heap!data
  <2>1. (Heap!TypeOK)' /\ (hPc \in [Threads -> HeapPCs])'
    BY <1>0, <1>8 DEF Heap!TypeOK, HeapOpInv
  <2>2. HeapLockInv' /\ HeapOpInv'
    BY <1>0, <1>8 DEF HeapLockInv, HeapOpInv, HeapLocked, HeapMarked, Heap!TypeOK
  <2>3. HeapBlockInv'
    BY <1>0, <1>8 DEF HeapBlockInv, HeapListInv, HeapOpInv, InHand, Listed, Heap!TypeOK
  <2>4. HeapListInv' /\ HeapCountInv'
    BY <1>0, <1>8 DEF HeapListInv, HeapCountInv, HeapLockInv, HeapLocked, HeapBlockInv,
       HeapOpInv, InHand, Listed, Heap!TypeOK
  <2>5. QED
    BY <2>1, <2>2, <2>3, <2>4
<1>9. CASE Heap!Unmark(t)
  <2> USE DEF Heap!Unmark, Heap!data
  <2>1. (Heap!TypeOK)' /\ (hPc \in [Threads -> HeapPCs])'
    BY <1>0, <1>9 DEF Heap!TypeOK, HeapOpInv
  <2>2. HeapLockInv' /\ HeapOpInv'
    BY <1>0, <1>9 DEF HeapLockInv, HeapOpInv, HeapLocked, HeapMarked, Heap!TypeOK
  <2>3. HeapBlockInv'
    BY <1>0, <1>9 DEF HeapBlockInv, HeapListInv, HeapOpInv, InHand, Listed, Heap!TypeOK
  <2>4. HeapListInv' /\ HeapCountInv'
    BY <1>0, <1>9 DEF HeapListInv, HeapCountInv, HeapLockInv, HeapLocked, HeapBlockInv,
       HeapOpInv, InHand, Listed, Heap!TypeOK
  <2>5. QED
    BY <2>1, <2>2, <2>3, <2>4
<1>10. CASE Heap!Release(t)
  <2> USE DEF Heap!Release
  <2>1. (Heap!TypeOK)' /\ (hPc \in [Threads -> HeapPCs])'
    BY <1>0, <1>10 DEF Heap!TypeOK, HeapBlockInv, InHand
  <2>2. HeapLockInv' /\ HeapOpInv'
    BY <1>0, <1>10 DEF HeapLockInv, HeapOpInv, HeapLocked, HeapMarked, Heap!TypeOK
  <2>3. HeapBlockInv'
    BY <1>0, <1>10 DEF HeapBlockInv, HeapListInv, HeapOpInv, InHand, Listed, Heap!TypeOK
  <2>4. HeapListInv' /\ HeapCountInv'
    BY <1>0, <1>10 DEF HeapListInv, HeapCountInv, HeapLockInv, HeapLocked, HeapBlockInv,
       HeapOpInv, InHand, Listed, Heap!TypeOK
  <2>5. QED
    BY <2>1, <2>2, <2>3, <2>4
<1>11. CASE Heap!Count(t)
  <2> USE DEF Heap!Count, Heap!Counted, Heap!Larger, Heap!locks
  <2>1. (Heap!TypeOK)' /\ (hPc \in [Threads -> HeapPCs])'
    BY <1>0, <1>11 DEF Heap!TypeOK, HeapOpInv, HeapCountInv
  <2>2. HeapLockInv' /\ HeapOpInv'
    BY <1>0, <1>11 DEF HeapLockInv, HeapOpInv, HeapLocked, HeapMarked, Heap!TypeOK
  <2>3. HeapBlockInv'
    BY <1>0, <1>11 DEF HeapBlockInv, HeapListInv, HeapOpInv, InHand, Listed, Heap!TypeOK
  <2>4. HeapListInv' /\ HeapCountInv'
    BY <1>0, <1>11 DEF HeapListInv, HeapCountInv, HeapLockInv, HeapLocked, HeapBlockInv,
       HeapOpInv, InHand, Listed, Heap!TypeOK
  <2>5. QED
    BY <2>1, <2>2, <2>3, <2>4
<1>12. CASE Heap!Log(t)
  <2> USE DEF Heap!Log, Heap!data, Heap!locks
  <2>1. (Heap!TypeOK)' /\ (hPc \in [Threads -> HeapPCs])'
    BY <1>0, <1>12 DEF Heap!TypeOK, HeapOpInv
  <2>2. HeapLockInv' /\ HeapOpInv'
    BY <1>0, <1>12 DEF HeapLockInv, HeapOpInv, HeapLocked, HeapMarked, Heap!TypeOK
  <2>3. HeapBlockInv'
    BY <1>0, <1>12 DEF HeapBlockInv, HeapListInv, HeapOpInv, InHand, Listed, Heap!TypeOK
  <2>4. HeapListInv' /\ HeapCountInv'
    BY <1>0, <1>12 DEF HeapListInv, HeapCountInv, HeapLockInv, HeapLocked, HeapBlockInv,
       HeapOpInv, InHand, Listed, Heap!TypeOK
  <2>5. QED
    BY <2>1, <2>2, <2>3, <2>4
<1>13. CASE Heap!Freed(t)
  <2> USE DEF Heap!Freed, Heap!locks
  <2>1. (Heap!TypeOK)' /\ (hPc \in [Threads -> HeapPCs])'
    BY <1>0, <1>13 DEF Heap!TypeOK, HeapOpInv
  <2>2. HeapLockInv' /\ HeapOpInv'
    BY <1>0, <1>13 DEF HeapLockInv, HeapOpInv, HeapLocked, HeapMarked, Heap!TypeOK
  <2>3. HeapBlockInv'
    BY <1>0, <1>13 DEF HeapBlockInv, HeapListInv, HeapOpInv, InHand, Listed, Heap!TypeOK
  <2>4. hBlk[t] \notin Listed /\ Listed' = Listed
    BY <1>0, <1>13 DEF HeapBlockInv, HeapOpInv, InHand, Listed
  <2>5. HeapListInv'
    BY <1>0, <1>13, <2>4 DEF HeapListInv
  <2>6. HeapCountInv'
    BY <1>0, <1>13 DEF HeapCountInv, Heap!TypeOK
  <2>7. QED
    BY <2>1, <2>2, <2>3, <2>5, <2>6
<1>14. CASE Heap!List(t)
  <2> USE DEF Heap!List, Heap!Listing, Heap!locks
  <2>1. /\ hBlk[t] \in Blocks /\ hBlk[t] \notin Listed /\ hOp[t] = "record"
        /\ hPc[t] = "record" /\ hList' = Append(hList, hBlk[t])
    BY <1>0, <1>14 DEF HeapBlockInv, HeapOpInv, InHand, Heap!TypeOK
  <2>2. /\ Listed' = Listed \cup {hBlk[t]} /\ Distinct(hList') /\ hList' \in Seq(Blocks)
        /\ Len(hList') = Len(hList) + 1
    BY <1>0, <2>1, AppendDistinct DEF Listed, HeapListInv, Heap!TypeOK
  <2>3. (Heap!TypeOK)' /\ (hPc \in [Threads -> HeapPCs])'
    BY <1>0, <1>14, <2>2 DEF Heap!TypeOK
  <2>4. HeapLockInv' /\ HeapOpInv'
    BY <1>0, <1>14, <2>1 DEF HeapLockInv, HeapOpInv, HeapLocked, HeapMarked, Heap!TypeOK
  <2>5. HeapBlockInv'
    BY <1>0, <1>14, <2>1, <2>2 DEF HeapBlockInv, HeapOpInv, InHand, Heap!TypeOK
  <2>6. HeapListInv'
    BY <1>0, <1>14, <2>1, <2>2 DEF HeapListInv, HeapBlockInv, InHand
  <2>7. HeapCountInv'
    BY <1>0, <1>14, <2>1, <2>2 DEF HeapCountInv, HeapLockInv, HeapLocked, HeapOpInv, Heap!TypeOK
  <2>8. QED
    BY <2>3, <2>4, <2>5, <2>6, <2>7
<1>15. CASE Heap!Unlist(t)
  <2> USE DEF Heap!Unlist, Heap!Listing, Heap!locks
  <2>1. /\ hBlk[t] \in Blocks /\ hBlk[t] \in Listed /\ hBlk[t] \notin hHeld
        /\ hOp[t] = "remove" /\ hPc[t] = "remove"
    BY <1>0, <1>15 DEF HeapBlockInv, HeapOpInv, InHand, Heap!TypeOK
  <2> DEFINE i == Heap!Place(hBlk[t])
  <2>2. i \in 1 .. Len(hList) /\ hList[i] = hBlk[t]
    BY <1>0, <2>1 DEF Heap!Place, Listed, Elements, Heap!TypeOK
  <2>3. hList' = Without(hList, i)
    BY <1>15 DEF Heap!RemoveAt, Without
  <2> HIDE DEF i
  <2>4. /\ Listed' = Listed \ {hBlk[t]} /\ Distinct(hList') /\ hList' \in Seq(Blocks)
        /\ Len(hList') = Len(hList) - 1
    <3>1. hList \in Seq(Blocks) /\ Distinct(hList)
      BY <1>0 DEF HeapListInv, Heap!TypeOK
    <3>2. Distinct(Without(hList, i)) /\ Elements(Without(hList, i)) = Elements(hList) \ {hList[i]}
      BY <2>2, <3>1, WithoutDistinct
    <3>3. Without(hList, i) \in Seq(Blocks) /\ Len(Without(hList, i)) = Len(hList) - 1
      BY <2>2, <3>1, WithoutProperties
    <3>4. QED
      BY <2>2, <2>3, <3>2, <3>3 DEF Listed
  <2>5. (Heap!TypeOK)' /\ (hPc \in [Threads -> HeapPCs])'
    BY <1>0, <1>15, <2>4 DEF Heap!TypeOK
  <2>6. HeapLockInv' /\ HeapOpInv'
    BY <1>0, <1>15, <2>1 DEF HeapLockInv, HeapOpInv, HeapLocked, HeapMarked, Heap!TypeOK
  <2>7. HeapBlockInv'
    BY <1>0, <1>15, <2>1, <2>4 DEF HeapBlockInv, HeapOpInv, InHand, Heap!TypeOK
  <2>8. HeapListInv'
    BY <1>0, <1>15, <2>1, <2>4 DEF HeapListInv
  <2>9. HeapCountInv'
    BY <1>0, <1>15, <2>1, <2>4 DEF HeapCountInv, HeapLockInv, HeapLocked, HeapOpInv, Heap!TypeOK
  <2>10. QED
    BY <2>5, <2>6, <2>7, <2>8, <2>9
<1>16. QED
  BY <1>2, <1>3, <1>4, <1>5, <1>6, <1>7, <1>8, <1>9, <1>10, <1>11, <1>12, <1>13, <1>14, <1>15 DEF Heap!Inside

\* The lock, the list, the counts and where each thread of the debug heap is agree
\* after every step.
THEOREM HeapInvariant == Spec => []HeapInv
<1>1. ASSUME Init PROVE HeapInv
  <2>1. Heap!Init
    BY <1>1, Starts
  <2>2. QED
    BY <2>1, ServicesAssumption DEF Heap!HeapAssumption, Heap!Init, HeapInv, Heap!TypeOK, HeapPCs,
       HeapLockInv, HeapLocked, HeapMarked, HeapOpInv, HeapBlockInv, InHand, HeapListInv,
       HeapCountInv, Listed, Elements, Distinct
<1>2. HeapInv /\ [Next]_mcvars => HeapInv'
  BY Moves, HeapStep
<1>3. QED
  BY <1>1, <1>2, PTL DEF Spec

\* Threads that allocate, free and dump find one owner of the spinlock; what
\* clients hold is listed, what is listed allocated, each block listed once;
\* and the counts agree with the list whenever the lock is free.
THEOREM HeapIsConsistent == Spec => []HeapIsSound
<1>1. HeapInv => HeapIsSound
  <2>1. SUFFICES ASSUME HeapInv PROVE HeapIsSound
    OBVIOUS
  <2>2. Heap!Locked = {t \in Threads : hPc[t] \in HeapLocked}
    BY <2>1 DEF HeapInv, HeapPCs, HeapLocked, Heap!Locked
  <2>3. NoThread \notin Threads
    BY ServicesAssumption DEF Heap!HeapAssumption
  <2>4. Heap!AssertOwner
    <3>1. \A t, s \in Heap!Locked : t = s
      BY <2>1, <2>2 DEF HeapInv, HeapLockInv
    <3>2. QED
      BY <2>1, <3>1 DEF HeapInv, HeapLockInv, HeapMarked, Heap!AssertOwner, Heap!At
  <2>5. Heap!ListIsSound
    <3>1. hList \in Seq(Blocks) /\ DOMAIN hList = 1 .. Len(hList)
      BY <2>1 DEF HeapInv, Heap!TypeOK
    <3>2. Heap!ToSet(hList) = Listed
      BY DEF Heap!ToSet, Listed, Elements
    <3>3. QED
      BY <2>1, <3>1, <3>2 DEF HeapInv, HeapListInv, Heap!ListIsSound, Distinct
  <2>6. Heap!CountsAgree
    BY <2>1, <2>2 DEF HeapInv, HeapCountInv, HeapLocked, Heap!CountsAgree
  <2>7. QED
    BY <2>4, <2>5, <2>6 DEF HeapIsSound
<1>2. QED
  BY <1>1, HeapInvariant, PTL
----------------------------------------------------------------------------
(* The UDP server *)

UdpInv == UdpServer!TypeOK /\ UdpServer!NothingAfterDestructor

LEMMA UdpStep ==
    ASSUME UdpInv, [UdpServer!Next]_udpVars
    PROVE  UdpInv'
<1> USE DEF UdpInv, UdpServer!TypeOK, UdpServer!NothingAfterDestructor, UdpServer!Any
<1>1. CASE UNCHANGED udpVars
  BY <1>1 DEF udpVars
<1>2. CASE UdpServer!Received
  <2>1. Head(dQueue) \in UdpServer!Any /\ Tail(dQueue) \in Seq(UdpServer!Any)
    BY <1>2, HeadTailProperties DEF UdpServer!Received
  <2>2. QED
    BY <1>2, <2>1 DEF UdpServer!Received, UdpServer!Go
<1>3. CASE UdpServer!Test \/ UdpServer!Fails
  BY <1>3 DEF UdpServer!Test, UdpServer!Fails, UdpServer!Go
<1>4. CASE UdpServer!Parse \/ UdpServer!Message \/ UdpServer!Shutdown
  BY <1>4 DEF UdpServer!Parse, UdpServer!Message, UdpServer!Shutdown, UdpServer!Go
<1>5. CASE UdpServer!Stop \/ UdpServer!Destructor
  BY <1>5 DEF UdpServer!Stop, UdpServer!Destructor, UdpServer!Close, UdpServer!Join,
     UdpServer!Owned
<1>6. ASSUME NEW d \in UdpServer!Any, UdpServer!Arrive(d) PROVE UdpInv'
  BY <1>6 DEF UdpServer!Arrive
<1>7. QED
  BY <1>1, <1>2, <1>3, <1>4, <1>5, <1>6 DEF UdpServer!Next, UdpServer!Worker

\* The socket, the thread and the destructor of the UDP server agree after every step.
THEOREM UdpInvariant == Spec => []UdpInv
<1>1. ASSUME Init PROVE UdpInv
  <2>1. UdpServer!Init
    BY <1>1, Starts
  <2>2. dQueue \in Seq(UdpServer!Any) /\ dBuffer \in UdpServer!Any \cup {NoDatagram}
    BY <2>1 DEF UdpServer!Init
  <2>3. QED
    BY <2>1, <2>2 DEF UdpServer!Init, UdpInv, UdpServer!TypeOK, UdpServer!NothingAfterDestructor
<1>2. UdpInv /\ [Next]_mcvars => UdpInv'
  BY Moves, UdpStep
<1>3. QED
  BY <1>1, <1>2, PTL DEF Spec

----------------------------------------------------------------------------
(* What the filter lets pass *)

\* The part of a sequence that passes, prefix by prefix.
PassingOf(f, s, kinds) ==
    /\ f[0] = << >>
    /\ \A i \in 1 .. Len(s) :
         f[i] = IF s[i].kind \in kinds THEN Append(f[i - 1], s[i]) ELSE f[i - 1]

LEMMA PassingIs ==
    ASSUME NEW R, NEW s \in Seq(R), NEW kinds
    PROVE  \E f : /\ Window!Passing(s, kinds) = f[Len(s)] /\ PassingOf(f, s, kinds)
                  /\ \A i \in 0 .. Len(s) : f[i] \in Seq(R) /\ Len(f[i]) <= i
<1> DEFINE m == Len(s)
           Step(h, i) == IF i = 0 THEN << >>
                         ELSE IF s[i].kind \in kinds THEN Append(h[i - 1], s[i]) ELSE h[i - 1]
           F(h, n) == [i \in 0 .. n |-> Step(h, i)]
           f == CHOOSE h : h = F(h, m)
<1>1. m \in Nat /\ \A i \in 1 .. m : s[i] \in R
  OBVIOUS
<1>2. \A n \in 0 .. m : \E h : h = F(h, n)
  <2> DEFINE T == {n \in 0 .. m : ~ \E h : h = F(h, n)}
  <2>1. SUFFICES ASSUME T # {} PROVE FALSE
    OBVIOUS
  <2>2. T \in SUBSET Nat
    BY <1>1
  <2> HIDE DEF T
  <2>3. PICK n \in T : \A k \in T : n <= k
    BY <2>1, <2>2, LeastNat
  <2>4. n \in 0 .. m /\ ~ \E h : h = F(h, n)
    BY <2>3 DEF T
  <2>5. CASE n = 0
    <3> DEFINE h == [i \in 0 .. 0 |-> << >>]
    <3>1. h = F(h, 0)
      OBVIOUS
    <3> HIDE DEF h, F
    <3>2. QED
      BY <2>4, <2>5, <3>1
  <2>6. CASE n # 0
    <3>1. n - 1 \in 0 .. m /\ ~(n <= n - 1) /\ n \in Nat /\ n - 1 \in Nat
      BY <1>1, <2>4, <2>6
    <3>2. n - 1 \notin T
      BY <2>3, <3>1
    <3>3. PICK h : h = F(h, n - 1)
      BY <3>1, <3>2 DEF T
    <3> DEFINE g == [i \in 0 .. n |-> IF i = n THEN Step(h, n) ELSE h[i]]
    <3>4. ASSUME NEW i \in 0 .. n
          PROVE  g[i] = Step(g, i)
      <4>1. CASE i = n
        <5>1. n - 1 \in 0 .. n /\ n - 1 # n
          BY <3>1
        <5>2. g[n - 1] = h[n - 1]
          BY <5>1
        <5>3. Step(g, n) = Step(h, n)
          <6> HIDE DEF g
          <6>1. QED
            BY <5>2
        <5>4. g[n] = Step(h, n)
          BY <3>1
        <5>5. QED
          BY <4>1, <5>3, <5>4
      <4>2. CASE i # n
        <5>1. i \in 0 .. n - 1
          BY <3>1, <4>2
        <5>2. h[i] = Step(h, i) /\ g[i] = h[i]
          BY <3>3, <4>2, <5>1
        <5>3. i # 0 => i - 1 \in 0 .. n /\ i - 1 # n
          BY <3>1, <5>1
        <5>4. i # 0 => g[i - 1] = h[i - 1]
          BY <5>3
        <5>5. Step(g, i) = Step(h, i)
          BY <5>4
        <5>6. QED
          BY <5>2, <5>5
      <4>3. QED
        BY <4>1, <4>2
    <3>5. g = F(g, n)
      <4>1. g = [i \in 0 .. n |-> g[i]]
        OBVIOUS
      <4> HIDE DEF g
      <4>2. QED
        BY <3>4, <4>1
    <3> HIDE DEF g, F
    <3>6. QED
      BY <2>4, <3>5
  <2>7. QED
    BY <2>5, <2>6
<1>3. f = F(f, m)
  <2>1. m \in 0 .. m
    BY <1>1
  <2> HIDE DEF F, m
  <2>2. QED
    BY <1>2, <2>1
<1>4. Window!Passing(s, kinds) = f[m]
  BY DEF Window!Passing
<1> HIDE DEF f
<1>5. \A i \in 0 .. m : f[i] = Step(f, i)
  <2> HIDE DEF Step
  <2>1. QED
    BY <1>3
<1>6. PassingOf(f, s, kinds)
  <2>1. 0 \in 0 .. m /\ \A i \in 1 .. m : i \in 0 .. m /\ i # 0
    BY <1>1
  <2>2. QED
    BY <1>5, <2>1 DEF PassingOf
<1>7. \A i \in 0 .. m : f[i] \in Seq(R) /\ Len(f[i]) <= i
  <2> DEFINE T == {i \in 0 .. m : ~(f[i] \in Seq(R) /\ Len(f[i]) <= i)}
  <2>1. SUFFICES ASSUME T # {} PROVE FALSE
    OBVIOUS
  <2>2. T \in SUBSET Nat
    BY <1>1
  <2>3. PICK i \in T : \A k \in T : i <= k
    BY <2>1, <2>2, LeastNat
  <2>4. f[0] = << >>
    BY <1>6 DEF PassingOf
  <2>5. i \in 1 .. m /\ i - 1 \in 0 .. m /\ ~(i <= i - 1) /\ i - 1 \in Nat
    <3>1. << >> \in Seq(R) /\ Len(<< >>) <= 0
      OBVIOUS
    <3>2. i # 0 /\ i \in 0 .. m
      BY <2>4, <3>1
    <3>3. QED
      BY <1>1, <3>2
  <2>6. f[i - 1] \in Seq(R) /\ Len(f[i - 1]) <= i - 1
    BY <2>3, <2>5
  <2>7. f[i] = IF s[i].kind \in kinds THEN Append(f[i - 1], s[i]) ELSE f[i - 1]
    BY <1>6, <2>5 DEF PassingOf
  <2>8. s[i] \in R
    BY <1>1, <2>5
  <2>9. f[i] \in Seq(R) /\ Len(f[i]) <= i
    BY <2>5, <2>6, <2>7, <2>8, AppendProperties
  <2>10. QED
    BY <2>9
<1>8. QED
  BY <1>4, <1>6, <1>7

LEMMA AppendToConcat ==
    ASSUME NEW R, NEW a \in Seq(R), NEW b \in Seq(R), NEW e \in R
    PROVE  a \o Append(b, e) = Append(a \o b, e)
<1>1. << e >> \in Seq(R) /\ a \o b \in Seq(R)
  BY ConcatProperties
<1>2. Append(b, e) = b \o << e >>
  BY AppendIsConcat
<1>3. Append(a \o b, e) = (a \o b) \o << e >>
  BY <1>1, AppendIsConcat
<1>4. (a \o b) \o << e >> = a \o (b \o << e >>)
  <2> DEFINE one == << e >>
  <2>1. one \in Seq(R)
    BY <1>1
  <2> HIDE DEF one
  <2>2. QED
    BY <2>1, ConcatAssociative
<1>5. QED
  BY <1>2, <1>3, <1>4

\* What passes of two sequences, one after the other.
LEMMA PassingOfBoth ==
    ASSUME NEW R, NEW s \in Seq(R), NEW t \in Seq(R), NEW kinds
    PROVE  Window!Passing(s \o t, kinds) = Window!Passing(s, kinds) \o Window!Passing(t, kinds)
<1> DEFINE u == s \o t
           m == Len(s)
           n == Len(t)
<1>1. PICK f : /\ Window!Passing(s, kinds) = f[m] /\ PassingOf(f, s, kinds)
               /\ \A i \in 0 .. m : f[i] \in Seq(R)
  BY PassingIs
<1>2. PICK g : /\ Window!Passing(t, kinds) = g[n] /\ PassingOf(g, t, kinds)
               /\ \A i \in 0 .. n : g[i] \in Seq(R)
  BY PassingIs
<1>3. /\ u \in Seq(R) /\ Len(u) = m + n /\ m \in Nat /\ n \in Nat
      /\ \A i \in 1 .. m : u[i] = s[i]
      /\ \A i \in 1 .. n : u[m + i] = t[i] /\ t[i] \in R
  <2>1. u \in Seq(R) /\ Len(u) = m + n /\ m \in Nat /\ n \in Nat
    BY ConcatProperties
  <2>2. \A i \in 1 .. m + n : u[i] = IF i <= m THEN s[i] ELSE t[i - m]
    BY ConcatProperties
  <2>3. ASSUME NEW i \in 1 .. n PROVE u[m + i] = t[i] /\ t[i] \in R
    <3>1. m + i \in 1 .. m + n /\ ~(m + i <= m) /\ m + i - m = i
      BY <2>1
    <3>2. QED
      BY <2>2, <3>1
  <2>4. ASSUME NEW i \in 1 .. m PROVE u[i] = s[i]
    <3>1. i \in 1 .. m + n /\ i <= m
      BY <2>1
    <3>2. QED
      BY <2>2, <3>1
  <2>5. QED
    BY <2>1, <2>3, <2>4
<1>4. PICK h : Window!Passing(u, kinds) = h[Len(u)] /\ PassingOf(h, u, kinds)
  BY <1>3, PassingIs
<1> HIDE DEF u, m, n
<1>a. /\ f[0] = << >> /\ g[0] = << >> /\ h[0] = << >>
      /\ \A i \in 1 .. m : f[i] = IF s[i].kind \in kinds THEN Append(f[i - 1], s[i]) ELSE f[i - 1]
      /\ \A i \in 1 .. n : g[i] = IF t[i].kind \in kinds THEN Append(g[i - 1], t[i]) ELSE g[i - 1]
      /\ \A i \in 1 .. m + n : h[i] = IF u[i].kind \in kinds THEN Append(h[i - 1], u[i]) ELSE h[i - 1]
  BY <1>1, <1>2, <1>3, <1>4 DEF PassingOf, m, n
<1>5. \A i \in 0 .. m : h[i] = f[i]
  <2> DEFINE T == {i \in 0 .. m : h[i] # f[i]}
  <2>1. SUFFICES ASSUME T # {} PROVE FALSE
    OBVIOUS
  <2>2. T \in SUBSET Nat
    BY <1>3
  <2>3. PICK i \in T : \A k \in T : i <= k
    BY <2>1, <2>2, LeastNat
  <2>4. i \in 1 .. m /\ i - 1 \in 0 .. m /\ ~(i <= i - 1) /\ i \in 1 .. m + n
    <3>1. i # 0 /\ i \in 0 .. m
      BY <1>a
    <3>2. QED
      BY <1>3, <3>1
  <2>5. h[i - 1] = f[i - 1]
    BY <2>3, <2>4
  <2>6. h[i] = f[i]
    BY <1>3, <1>a, <2>4, <2>5
  <2>7. QED
    BY <2>6
<1>6. \A i \in 0 .. n : h[m + i] = f[m] \o g[i]
  <2> DEFINE T == {i \in 0 .. n : h[m + i] # f[m] \o g[i]}
  <2>1. SUFFICES ASSUME T # {} PROVE FALSE
    OBVIOUS
  <2>2. T \in SUBSET Nat
    <3>1. T \subseteq 0 .. n
      OBVIOUS
    <3>2. 0 .. n \subseteq Nat
      BY <1>3
    <3> HIDE DEF T
    <3>3. QED
      BY <3>1, <3>2
  <2>3. PICK i \in T : \A k \in T : i <= k
    BY <2>1, <2>2, LeastNat
  <2>4. m \in 0 .. m /\ m + 0 = m /\ f[m] \in Seq(R)
    BY <1>1, <1>3
  <2>5. f[m] \o << >> = f[m]
    BY <2>4, ConcatEmptySeq
  <2>6. /\ i \in 1 .. n /\ i - 1 \in 0 .. n /\ ~(i <= i - 1)
        /\ m + i \in 1 .. m + n /\ (m + i) - 1 = m + (i - 1)
    <3>1. i # 0 /\ i \in 0 .. n
      BY <1>5, <1>a, <2>4, <2>5
    <3>2. QED
      BY <1>3, <3>1
  <2>7. h[m + (i - 1)] = f[m] \o g[i - 1]
    BY <2>3, <2>6
  <2>8. g[i - 1] \in Seq(R) /\ t[i] \in R
    BY <1>2, <1>3, <2>6
  <2>9. f[m] \o Append(g[i - 1], t[i]) = Append(f[m] \o g[i - 1], t[i])
    <3> DEFINE c == f[m]
               d == g[i - 1]
               e == t[i]
    <3>1. c \in Seq(R) /\ d \in Seq(R) /\ e \in R
      BY <2>4, <2>8
    <3> HIDE DEF c, d, e
    <3>2. c \o Append(d, e) = Append(c \o d, e)
      BY <3>1, AppendToConcat
    <3>3. QED
      BY <3>2 DEF c, d, e
  <2>10. h[m + i] = f[m] \o g[i]
    <3>1. u[m + i] = t[i]
      BY <1>3, <2>6
    <3>2. /\ g[i] = IF t[i].kind \in kinds THEN Append(g[i - 1], t[i]) ELSE g[i - 1]
          /\ h[m + i] = IF t[i].kind \in kinds THEN Append(h[m + (i - 1)], t[i]) ELSE h[m + (i - 1)]
      <4>1. g[i] = IF t[i].kind \in kinds THEN Append(g[i - 1], t[i]) ELSE g[i - 1]
        BY <1>a, <2>6
      <4>2. h[m + i] = IF u[m + i].kind \in kinds THEN Append(h[(m + i) - 1], u[m + i]) ELSE h[(m + i) - 1]
        <5> DEFINE Q(k) == h[k] = IF u[k].kind \in kinds THEN Append(h[k - 1], u[k]) ELSE h[k - 1]
        <5>1. \A k \in 1 .. m + n : Q(k)
          BY <1>a
        <5> HIDE DEF Q
        <5>2. Q(m + i)
          BY <2>6, <5>1
        <5>3. QED
          BY <5>2 DEF Q
      <4>3. QED
        BY <2>6, <3>1, <4>1, <4>2, Zenon
    <3>3. CASE t[i].kind \in kinds
      BY <2>7, <2>9, <3>2, <3>3
    <3>4. CASE t[i].kind \notin kinds
      BY <2>7, <3>2, <3>4
    <3>5. QED
      BY <3>3, <3>4
  <2>11. QED
    BY <2>10
<1>7. h[m + n] = f[m] \o g[n]
  <2>1. n \in 0 .. n
    BY <1>3
  <2>2. QED
    BY <1>6, <2>1
<1>8. QED
  BY <1>1, <1>2, <1>3, <1>4, <1>7 DEF u

----------------------------------------------------------------------------
(* The window *)

WindowTypes ==
    /\ rArrived \in 0 .. MaxRecords /\ {rPosted, rItems, rCount} \subseteq Nat
    /\ rQueue \in Seq(Window!Records) /\ rUnfiltered \in Seq(Window!Records)
    /\ rDatabase \in Seq(Window!Records)
    /\ rFilter \subseteq Kinds
    /\ rUi \in {"idle", "handler", "discard"}
    /\ rFault \in {"none", "unfiltered", "database"}

\* Whatever is kept, shown, or discarded in this turn, has arrived.
WindowCountInv ==
    /\ rCount + (Len(rUnfiltered) + Len(rQueue)) <= rArrived
    /\ Len(rDatabase) + Len(rQueue) <= rArrived
    /\ rItems <= rArrived

\* A sequence of the newest records, the last with the number n.
Newest(s, n) == \A i \in 1 .. Len(s) : s[i].id = n - Len(s) + i

\* d is the end of s.
Ends(d, s) ==
    /\ Len(d) <= Len(s)
    /\ \A i \in 1 .. Len(d) : d[i] = s[(Len(s) - Len(d)) + i]

WindowShownInv ==
    Len(rUnfiltered) + Len(rQueue) = rArrived /\ rUi # "discard" =>
        rItems = Len(rDatabase) /\ Ends(rDatabase, Window!Passing(rUnfiltered, rFilter))

WindowInv ==
    /\ WindowTypes /\ WindowCountInv /\ WindowShownInv
    /\ Window!OneWakeup /\ Newest(rUnfiltered \o rQueue, rArrived)

LEMMA PassingTypes ==
    ASSUME NEW R, NEW s \in Seq(R), NEW kinds
    PROVE  Window!Passing(s, kinds) \in Seq(R) /\ Len(Window!Passing(s, kinds)) <= Len(s)
<1>1. Len(s) \in 0 .. Len(s)
  OBVIOUS
<1>2. QED
  BY <1>1, PassingIs

LEMMA PassingOfNone == ASSUME NEW kinds PROVE Window!Passing(<< >>, kinds) = << >>
<1>1. << >> \in Seq({}) /\ Len(<< >>) = 0
  OBVIOUS
<1>2. PICK f : Window!Passing(<< >>, kinds) = f[Len(<< >>)] /\ PassingOf(f, << >>, kinds)
  BY <1>1, PassingIs
<1>3. QED
  BY <1>1, <1>2 DEF PassingOf

LEMMA EndsOfBoth ==
    ASSUME NEW R, NEW d \in Seq(R), NEW s \in Seq(R), NEW t \in Seq(R), Ends(d, s)
    PROVE  Ends(d \o t, s \o t)
<1> DEFINE k == Len(d)
           m == Len(s)
           n == Len(t)
           dt == d \o t
           st == s \o t
<1>1. /\ k \in Nat /\ m \in Nat /\ n \in Nat /\ k <= m
      /\ \A i \in 1 .. k : d[i] = s[(m - k) + i]
  BY DEF Ends
<1>2. /\ Len(dt) = k + n /\ Len(st) = m + n
      /\ \A i \in 1 .. k + n : dt[i] = IF i <= k THEN d[i] ELSE t[i - k]
      /\ \A i \in 1 .. m + n : st[i] = IF i <= m THEN s[i] ELSE t[i - m]
  BY ConcatProperties
<1> HIDE DEF k, m, n, dt, st
<1>3. ASSUME NEW i \in 1 .. k + n
      PROVE  dt[i] = st[(m - k) + i]
  <2> DEFINE j == (m - k) + i
  <2>1. j \in 1 .. m + n
    BY <1>1
  <2>2. st[j] = IF j <= m THEN s[j] ELSE t[j - m]
    <3> HIDE DEF j
    <3>1. QED
      BY <1>2, <2>1
  <2>3. CASE i <= k
    <3>1. i \in 1 .. k /\ j <= m
      BY <1>1, <2>3
    <3>2. dt[i] = d[i] /\ st[j] = s[j] /\ d[i] = s[j]
      BY <1>1, <1>2, <2>2, <2>3, <3>1
    <3>3. QED
      BY <3>2
  <2>4. CASE ~(i <= k)
    <3>1. ~(j <= m) /\ j - m = i - k
      BY <1>1, <2>4
    <3>2. dt[i] = t[i - k]
      BY <1>2, <2>4
    <3>3. st[j] = t[j - m]
      BY <2>2, <3>1
    <3>4. QED
      BY <3>1, <3>2, <3>3
  <2>5. QED
    BY <2>3, <2>4
<1>4. k + n <= m + n /\ (m + n) - (k + n) = m - k
  BY <1>1
<1>5. QED
  BY <1>2, <1>3, <1>4 DEF Ends, dt, st

LEMMA WindowStep ==
    ASSUME WindowInv, [Window!Next]_windowVars
    PROVE  WindowInv'
<1> DEFINE R == Window!Records
           kept == rUnfiltered \o rQueue
           u == Len(rUnfiltered)
           q == Len(rQueue)
           d == Len(rDatabase)
<1>0. /\ WindowTypes /\ WindowCountInv /\ WindowShownInv /\ Window!OneWakeup
      /\ Newest(kept, rArrived)
  BY DEF WindowInv
<1>1. /\ MaxRecords \in Nat /\ ToDiscard \in Nat \ {0}
      /\ rArrived \in Nat /\ rArrived <= MaxRecords /\ rPosted \in Nat /\ rItems \in Nat /\ rCount \in Nat
      /\ rQueue \in Seq(R) /\ rUnfiltered \in Seq(R) /\ rDatabase \in Seq(R)
  BY <1>0, ServicesAssumption DEF WindowTypes, Window!RecordsAssumption
<1>2. /\ u \in Nat /\ q \in Nat /\ d \in Nat
      /\ kept \in Seq(R) /\ Len(kept) = u + q
      /\ \A i \in 1 .. u + q : kept[i] = IF i <= u THEN rUnfiltered[i] ELSE rQueue[i - u]
  BY <1>1, ConcatProperties
<1>3. /\ rCount + (u + q) <= rArrived /\ d + q <= rArrived /\ rItems <= rArrived
      /\ \A i \in 1 .. u + q : kept[i].id = rArrived - (u + q) + i
  BY <1>0, <1>2 DEF WindowCountInv, Newest
<1> HIDE DEF kept, R, u, q, d
<1>4. CASE UNCHANGED windowVars
  <2>1. WindowTypes' /\ WindowCountInv'
    BY <1>0, <1>4 DEF windowVars, WindowTypes, WindowCountInv, Window!Records
  <2>2. WindowShownInv'
    BY <1>0, <1>4 DEF windowVars, WindowShownInv, Window!Passing
  <2>3. Window!OneWakeup' /\ Newest(rUnfiltered \o rQueue, rArrived)'
    BY <1>0, <1>4 DEF windowVars, Window!OneWakeup, kept, Newest
  <2>4. QED
    BY <2>1, <2>2, <2>3 DEF WindowInv
<1>5. ASSUME NEW kind \in Kinds, Window!message(kind)
      PROVE  WindowInv'
  <2> DEFINE r == [id |-> rArrived + 1, kind |-> kind]
  <2>1. /\ rArrived < MaxRecords /\ rUi # "discard" /\ rArrived' = rArrived + 1
        /\ rQueue' = Append(rQueue, r)
        /\ rPosted' = IF rQueue = << >> THEN rPosted + 1 ELSE rPosted
        /\ UNCHANGED <<rUnfiltered, rDatabase, rItems, rFilter, rUi, rCount, rFault>>
    BY <1>5 DEF Window!message
  <2>2. r \in R /\ r.id = rArrived + 1
    BY <1>1, <2>1 DEF R, Window!Records
  <2> HIDE DEF r
  <2>3. rQueue' \in Seq(R) /\ Len(rQueue') = q + 1 /\ rQueue' # << >>
    BY <1>1, <2>1, <2>2, AppendProperties DEF q
  <2>4. (rUnfiltered \o rQueue)' = Append(kept, r)
    BY <1>1, <2>1, <2>2, AppendToConcat DEF kept
  <2>5. WindowTypes'
    BY <1>0, <1>1, <2>1, <2>3 DEF WindowTypes, R
  <2>6. WindowCountInv'
    <3>1. Len(rUnfiltered') = u /\ Len(rDatabase') = d
      BY <2>1 DEF u, d
    <3>2. QED
      BY <1>1, <1>2, <1>3, <2>1, <2>3, <3>1 DEF WindowCountInv
  <2>7. WindowShownInv'
    <3>1. Len(rUnfiltered') + Len(rQueue') = rArrived' => u + q = rArrived
      BY <1>1, <1>2, <2>1, <2>3 DEF u
    <3>2. UNCHANGED Window!Passing(rUnfiltered, rFilter)
      BY <2>1 DEF Window!Passing
    <3>3. QED
      BY <1>0, <2>1, <3>1, <3>2 DEF WindowShownInv, u, q
  <2>8. Window!OneWakeup'
    BY <1>0, <1>1, <2>1, <2>3 DEF Window!OneWakeup
  <2>9. Newest(rUnfiltered \o rQueue, rArrived)'
    <3>1. /\ Len(Append(kept, r)) = (u + q) + 1
          /\ \A i \in 1 .. u + q : Append(kept, r)[i] = kept[i]
          /\ Append(kept, r)[(u + q) + 1] = r
      BY <1>2, <2>2, AppendProperties
    <3>2. ASSUME NEW i \in 1 .. (u + q) + 1
          PROVE  Append(kept, r)[i].id = (rArrived + 1) - ((u + q) + 1) + i
      <4>1. CASE i = (u + q) + 1
        BY <1>1, <1>2, <2>2, <3>1, <4>1
      <4>2. CASE i \in 1 .. u + q
        <5>1. kept[i].id = rArrived - (u + q) + i
          BY <1>3, <4>2
        <5>2. Append(kept, r)[i] = kept[i]
          BY <3>1, <4>2
        <5>3. rArrived - (u + q) + i = (rArrived + 1) - ((u + q) + 1) + i
          BY <1>1, <1>2, <4>2
        <5>4. QED
          BY <5>1, <5>2, <5>3
      <4>3. QED
        BY <1>2, <4>1, <4>2
    <3>3. QED
      BY <2>1, <2>4, <3>1, <3>2 DEF Newest
  <2>10. QED
    BY <2>5, <2>6, <2>7, <2>8, <2>9 DEF WindowInv
<1>6. CASE Window!Dispatch
  <2>1. /\ rUi = "idle" /\ rPosted > 0 /\ rPosted' = rPosted - 1 /\ rUi' = "handler"
        /\ UNCHANGED <<rArrived, rQueue, rUnfiltered, rDatabase, rItems, rFilter, rCount, rFault>>
    BY <1>6 DEF Window!Dispatch
  <2>2. WindowTypes'
    BY <1>0, <1>1, <2>1 DEF WindowTypes
  <2>3. WindowCountInv'
    BY <1>0, <2>1 DEF WindowCountInv
  <2>4. WindowShownInv'
    BY <1>0, <2>1 DEF WindowShownInv, Window!Passing
  <2>5. Window!OneWakeup'
    BY <1>0, <1>1, <2>1 DEF Window!OneWakeup
  <2>6. Newest(rUnfiltered \o rQueue, rArrived)'
    BY <1>0, <2>1 DEF Newest, kept
  <2>7. QED
    BY <2>2, <2>3, <2>4, <2>5, <2>6 DEF WindowInv
<1>7. CASE Window!NewRecord
  <2> DEFINE p == Window!Passing(rQueue, rFilter)
  <2>1. /\ rUi = "handler" /\ rQueue' = << >> /\ rUnfiltered' = kept /\ rCount' = 0
        /\ rDatabase' = rDatabase \o p
        /\ \/ rUi' = "discard" /\ rItems' = rItems
           \/ rUi' = "idle" /\ rItems' = Len(rDatabase')
        /\ UNCHANGED <<rArrived, rPosted, rFilter, rFault>>
    BY <1>7 DEF Window!NewRecord, kept
  <2>2. p \in Seq(R) /\ Len(p) \in Nat /\ Len(p) <= q
    BY <1>1, PassingTypes DEF q
  <2>3. rDatabase' \in Seq(R) /\ Len(rDatabase') = d + Len(p)
    BY <1>1, <2>1, <2>2, ConcatProperties DEF d
  <2>4. Len(rUnfiltered') = u + q /\ Len(rQueue') = 0 /\ rQueue' \in Seq(R)
    BY <1>2, <2>1
  <2>5. WindowTypes'
    BY <1>0, <1>1, <1>2, <2>1, <2>2, <2>3, <2>4 DEF WindowTypes, R
  <2>6. WindowCountInv'
    BY <1>1, <1>2, <1>3, <2>1, <2>2, <2>3, <2>4 DEF WindowCountInv
  <2>7. WindowShownInv'
    <3>1. SUFFICES ASSUME u + q = rArrived
                   PROVE  Ends(rDatabase', Window!Passing(rUnfiltered, rFilter)')
      BY <1>1, <1>2, <2>1, <2>4 DEF WindowShownInv
    <3>2. Ends(rDatabase, Window!Passing(rUnfiltered, rFilter))
      BY <1>0, <2>1, <3>1 DEF WindowShownInv, u, q
    <3>3. Window!Passing(rUnfiltered, rFilter)' = Window!Passing(rUnfiltered, rFilter) \o p
      <4>1. Window!Passing(rUnfiltered, rFilter)' = Window!Passing(kept, rFilter)
        BY <2>1 DEF Window!Passing
      <4>2. Window!Passing(rUnfiltered \o rQueue, rFilter) = Window!Passing(rUnfiltered, rFilter) \o p
        BY <1>1, PassingOfBoth
      <4> HIDE DEF p
      <4>3. QED
        BY <4>1, <4>2 DEF kept
    <3>4. QED
      BY <1>1, <2>1, <2>2, <3>2, <3>3, PassingTypes, EndsOfBoth
  <2>8. Window!OneWakeup'
    BY <1>0, <1>1, <2>1 DEF Window!OneWakeup
  <2>9. Newest(rUnfiltered \o rQueue, rArrived)'
    <3>1. (rUnfiltered \o rQueue)' = kept
      BY <1>2, <2>1, ConcatEmptySeq
    <3>2. QED
      BY <1>0, <2>1, <3>1 DEF Newest
  <2>10. QED
    BY <2>5, <2>6, <2>7, <2>8, <2>9 DEF WindowInv
<1>8. CASE Window!Discard
  <2>1. /\ rUi = "discard"
        /\ UNCHANGED <<rArrived, rQueue, rPosted, rItems, rFilter, rUi>>
    BY <1>8 DEF Window!Discard
  <2>2. WindowShownInv' /\ Window!OneWakeup'
    BY <1>0, <2>1 DEF WindowShownInv, Window!OneWakeup
  <2>3. CASE UNCHANGED <<rUnfiltered, rDatabase, rCount>> /\ rFault' \in {"unfiltered", "database"}
    <3>1. WindowTypes' /\ WindowCountInv'
      BY <1>0, <2>1, <2>3 DEF WindowTypes, WindowCountInv
    <3>2. Newest(rUnfiltered \o rQueue, rArrived)'
      BY <1>0, <2>1, <2>3 DEF Newest, kept
    <3>3. QED
      BY <2>2, <3>1, <3>2 DEF WindowInv
  <2>4. CASE /\ rUnfiltered # << >> /\ rUnfiltered' = Tail(rUnfiltered) /\ UNCHANGED rFault
             /\ \/ rCount' = rCount + 1 /\ rDatabase # << >> /\ rDatabase' = Window!EraseFirst(rDatabase)
                \/ UNCHANGED <<rDatabase, rCount>>
    <3>1. /\ rUnfiltered' \in Seq(R) /\ Len(rUnfiltered') = u - 1 /\ u > 0
          /\ \A i \in 1 .. u - 1 : rUnfiltered'[i] = rUnfiltered[i + 1]
      BY <1>1, <2>4, HeadTailProperties DEF u
    <3>2. rDatabase' \in Seq(R) /\ Len(rDatabase') = d
      <4>1. CASE rDatabase # << >> /\ rDatabase' = Window!EraseFirst(rDatabase)
        <5>1. Tail(rDatabase) \in Seq(R) /\ Len(Tail(rDatabase)) = d - 1
          BY <1>1, <4>1, HeadTailProperties DEF d
        <5>2. rDatabase[Len(rDatabase)] \in R
          <6>1. Len(rDatabase) \in 1 .. Len(rDatabase)
            BY <1>1, <4>1, EmptySeq
          <6>2. QED
            BY <1>1, <6>1
        <5>3. rDatabase' = Append(Tail(rDatabase), rDatabase[Len(rDatabase)])
          BY <4>1 DEF Window!EraseFirst, Window!Last
        <5>4. QED
          BY <1>2, <5>1, <5>2, <5>3, AppendProperties
      <4>2. QED
        BY <1>1, <2>4, <4>1 DEF d
    <3>3. WindowTypes'
      BY <1>0, <1>1, <2>1, <2>4, <3>1, <3>2 DEF WindowTypes, R
    <3>4. WindowCountInv'
      <4>1. rCount' \in Nat /\ rCount' <= rCount + 1
        BY <1>1, <2>4
      <4>2. Len(rQueue') = q
        BY <2>1 DEF q
      <4>3. rCount' + ((u - 1) + q) <= rArrived
        <5>1. /\ u \in Nat /\ q \in Nat /\ rCount \in Nat /\ rArrived \in Nat
              /\ rCount + (u + q) <= rArrived
          BY <1>1, <1>2, <1>3
        <5>2. \A a, b, c, e, n \in Nat : a <= b + 1 /\ b + (c + e) <= n => a + ((c - 1) + e) <= n
          OBVIOUS
        <5>3. QED
          BY <4>1, <5>1, <5>2
      <4>4. Len(rUnfiltered') = u - 1 /\ Len(rDatabase') = d /\ rArrived' = rArrived /\ rItems' = rItems
        BY <2>1, <3>1, <3>2
      <4>5. d + q <= rArrived /\ rItems <= rArrived
        BY <1>3
      <4>6. WindowCountInv' <=> /\ rCount' + (Len(rUnfiltered') + Len(rQueue')) <= rArrived'
                                /\ Len(rDatabase') + Len(rQueue') <= rArrived'
                                /\ rItems' <= rArrived'
        BY DEF WindowCountInv
      <4>7. QED
        BY <4>2, <4>3, <4>4, <4>5, <4>6
    <3>5. Newest(rUnfiltered \o rQueue, rArrived)'
      <4> DEFINE kept1 == rUnfiltered' \o rQueue
      <4>1. /\ Len(kept1) = (u - 1) + q
            /\ \A i \in 1 .. (u - 1) + q : kept1[i] = IF i <= u - 1 THEN rUnfiltered'[i] ELSE rQueue[i - (u - 1)]
        <5>1. rUnfiltered' \in Seq(R) /\ rQueue \in Seq(R) /\ Len(rUnfiltered') = u - 1 /\ Len(rQueue) = q
          BY <1>1, <3>1 DEF q
        <5>2. /\ Len(kept1) = Len(rUnfiltered') + Len(rQueue)
              /\ \A i \in 1 .. Len(rUnfiltered') + Len(rQueue) :
                   kept1[i] = IF i <= Len(rUnfiltered') THEN rUnfiltered'[i] ELSE rQueue[i - Len(rUnfiltered')]
          BY <5>1, ConcatProperties
        <5> HIDE DEF kept1
        <5>3. QED
          BY <5>1, <5>2
      <4> HIDE DEF kept1
      <4>2. ASSUME NEW i \in 1 .. (u - 1) + q
            PROVE  kept1[i].id = rArrived - ((u - 1) + q) + i
        <5>1. i + 1 \in 1 .. u + q /\ (i <= u - 1 <=> i + 1 <= u) /\ (i + 1) - u = i - (u - 1)
          BY <1>2
        <5>2. kept1[i] = kept[i + 1]
          <6>1. CASE i <= u - 1
            BY <1>2, <3>1, <4>1, <5>1, <6>1
          <6>2. CASE ~(i <= u - 1)
            <7>1. kept1[i] = rQueue[i - (u - 1)]
              BY <4>1, <6>2
            <7>2. kept[i + 1] = rQueue[(i + 1) - u]
              BY <1>2, <5>1, <6>2
            <7>3. QED
              BY <5>1, <7>1, <7>2
          <6>3. QED
            BY <6>1, <6>2
        <5>3. kept[i + 1].id = rArrived - (u + q) + (i + 1)
          BY <1>3, <5>1
        <5>4. rArrived - (u + q) + (i + 1) = rArrived - ((u - 1) + q) + i
          BY <1>1, <1>2
        <5>5. QED
          BY <5>2, <5>3, <5>4
      <4>3. QED
        BY <2>1, <4>1, <4>2 DEF Newest, kept1
    <3>6. QED
      BY <2>2, <3>3, <3>4, <3>5 DEF WindowInv
  <2>5. QED
    BY <1>8, <2>3, <2>4 DEF Window!Discard
<1>9. CASE Window!DiscardEnd
  <2>1. /\ rUi = "discard" /\ rCount = ToDiscard /\ rUi' = "idle" /\ rItems' = Len(rDatabase)
        /\ UNCHANGED <<rArrived, rQueue, rPosted, rUnfiltered, rDatabase, rFilter, rCount, rFault>>
    BY <1>9 DEF Window!DiscardEnd
  <2>2. WindowTypes'
    BY <1>0, <1>2, <2>1 DEF WindowTypes, d
  <2>3. WindowCountInv'
    BY <1>0, <1>1, <1>2, <1>3, <2>1 DEF WindowCountInv, d, q
  <2>4. WindowShownInv'
    <3>1. Len(rUnfiltered') = u /\ Len(rQueue') = q
      BY <2>1 DEF u, q
    <3>2. u + q # rArrived'
      BY <1>1, <1>2, <1>3, <2>1
    <3>3. QED
      BY <3>1, <3>2 DEF WindowShownInv
  <2>5. Window!OneWakeup'
    BY <1>0, <2>1 DEF Window!OneWakeup
  <2>6. Newest(rUnfiltered \o rQueue, rArrived)'
    BY <1>0, <2>1 DEF Newest, kept
  <2>7. QED
    BY <2>2, <2>3, <2>4, <2>5, <2>6 DEF WindowInv
<1>10. CASE Window!OnBnClickedClear
  <2>1. /\ rUi = "idle" /\ rDatabase' = << >> /\ rItems' = 0
        /\ UNCHANGED <<rArrived, rQueue, rPosted, rUnfiltered, rFilter, rUi, rCount, rFault>>
    BY <1>10 DEF Window!OnBnClickedClear
  <2>2. rDatabase' \in Seq(R) /\ Len(rDatabase') = 0
    BY <2>1
  <2>3. WindowTypes'
    BY <1>0, <2>1, <2>2 DEF WindowTypes, R
  <2>4. WindowCountInv'
    <3>1. Len(rUnfiltered') = u /\ Len(rQueue') = q
      BY <2>1 DEF u, q
    <3>2. QED
      BY <1>1, <1>2, <1>3, <2>1, <2>2, <3>1 DEF WindowCountInv
  <2>5. WindowShownInv'
    <3>1. Window!Passing(rUnfiltered, rFilter)' = Window!Passing(rUnfiltered, rFilter)
      BY <2>1 DEF Window!Passing
    <3>2. Len(Window!Passing(rUnfiltered, rFilter)) \in Nat
      BY <1>1, PassingTypes
    <3>3. Ends(rDatabase', Window!Passing(rUnfiltered, rFilter)')
      BY <2>2, <3>1, <3>2 DEF Ends
    <3>4. QED
      BY <2>1, <2>2, <3>3 DEF WindowShownInv
  <2>6. Window!OneWakeup'
    BY <1>0, <2>1 DEF Window!OneWakeup
  <2>7. Newest(rUnfiltered \o rQueue, rArrived)'
    BY <1>0, <2>1 DEF Newest, kept
  <2>8. QED
    BY <2>3, <2>4, <2>5, <2>6, <2>7 DEF WindowInv
<1>11. CASE Window!OnBnClickedFilters
  <2> DEFINE p == Window!Passing(rUnfiltered, rFilter')
  <2>1. /\ rUi = "idle" /\ rFilter' \in SUBSET Kinds /\ rDatabase' = p /\ rItems' = Len(p)
        /\ UNCHANGED <<rArrived, rQueue, rPosted, rUnfiltered, rUi, rCount, rFault>>
    BY <1>11 DEF Window!OnBnClickedFilters
  <2>2. p \in Seq(R) /\ Len(p) \in Nat /\ Len(p) <= u
    BY <1>1, PassingTypes DEF u
  <2>3. Window!Passing(rUnfiltered, rFilter)' = p
    BY <2>1 DEF Window!Passing
  <2> HIDE DEF p
  <2>4. WindowTypes'
    BY <1>0, <2>1, <2>2 DEF WindowTypes, R
  <2>5. WindowCountInv'
    <3>1. Len(rUnfiltered') = u /\ Len(rQueue') = q /\ Len(rDatabase') = Len(p)
      BY <2>1 DEF u, q
    <3>2. QED
      BY <1>1, <1>2, <1>3, <2>1, <2>2, <3>1 DEF WindowCountInv
  <2>6. WindowShownInv'
    <3>1. Ends(p, p)
      <4>1. \A i \in 1 .. Len(p) : (Len(p) - Len(p)) + i = i
        BY <2>2
      <4>2. QED
        BY <2>2, <4>1 DEF Ends
    <3>2. QED
      BY <2>1, <2>3, <3>1 DEF WindowShownInv
  <2>7. Window!OneWakeup'
    BY <1>0, <2>1 DEF Window!OneWakeup
  <2>8. Newest(rUnfiltered \o rQueue, rArrived)'
    BY <1>0, <2>1 DEF Newest, kept
  <2>9. QED
    BY <2>4, <2>5, <2>6, <2>7, <2>8 DEF WindowInv
<1>12. QED
  BY <1>4, <1>5, <1>6, <1>7, <1>8, <1>9, <1>10, <1>11 DEF Window!Next, Window!Window

\* What waits, what is kept and what is shown in the window agree after every step.
THEOREM WindowInvariant == Spec => []WindowInv
<1>1. ASSUME Init PROVE WindowInv
  <2>1. Window!Init
    BY <1>1, Starts
  <2>2. /\ rArrived = 0 /\ rQueue = << >> /\ rPosted = 0 /\ rUnfiltered = << >> /\ rDatabase = << >>
        /\ rItems = 0 /\ rFilter \in SUBSET Kinds /\ rUi = "idle" /\ rCount = 0 /\ rFault = "none"
    BY <2>1 DEF Window!Init
  <2>3. << >> \in Seq(Window!Records) /\ Len(<< >>) = 0 /\ << >> \o << >> = << >>
    BY ConcatEmptySeq
  <2>4. WindowTypes
    BY <2>2, <2>3, ServicesAssumption DEF WindowTypes, Window!RecordsAssumption
  <2>5. WindowCountInv
    BY <2>2, <2>3 DEF WindowCountInv
  <2>6. WindowShownInv
    BY <2>2, <2>3, PassingOfNone DEF WindowShownInv, Ends
  <2>7. Window!OneWakeup
    BY <2>2 DEF Window!OneWakeup
  <2>8. Newest(rUnfiltered \o rQueue, rArrived)
    BY <2>2, <2>3 DEF Newest
  <2>9. QED
    BY <2>4, <2>5, <2>6, <2>7, <2>8 DEF WindowInv
<1>2. WindowInv /\ [Next]_mcvars => WindowInv'
  BY Moves, WindowStep
<1>3. QED
  BY <1>1, <1>2, PTL DEF Spec

\* Whatever arrives while the window works, filters, clears and discards: no record
\* is lost, doubled or out of order, and a record that waits has one window message.
THEOREM RecordsAreKept == Spec => []WindowRecordsAreKept
<1>1. ASSUME WindowInv PROVE Window!NoneLost
  <2> DEFINE kept == rUnfiltered \o rQueue
  <2>1. kept \in Seq(Window!Records)
    BY <1>1, ConcatProperties DEF WindowInv, WindowTypes
  <2>2. Newest(kept, rArrived)
    BY <1>1 DEF WindowInv
  <2>3. DOMAIN kept = 1 .. Len(kept)
    <3> HIDE DEF kept
    <3>1. QED
      BY <2>1
  <2>4. QED
    BY <2>2, <2>3 DEF Newest, Window!NoneLost
<1>2. WindowInv => WindowRecordsAreKept
  BY <1>1 DEF WindowInv, WindowRecordsAreKept
<1>3. QED
  BY <1>2, WindowInvariant, PTL

LEMMA EndsIsSuffix ==
    ASSUME NEW R, NEW d \in Seq(R), NEW s \in Seq(R), Ends(d, s)
    PROVE  Window!IsSuffix(d, s)
<1> DEFINE k == Len(d)
           m == Len(s)
           rd == [i \in 1 .. k |-> d[(k - i) + 1]]
           rs == [i \in 1 .. m |-> s[(m - i) + 1]]
<1>1. /\ k \in Nat /\ m \in Nat /\ k <= m
      /\ \A i \in 1 .. k : d[i] = s[(m - k) + i] /\ d[i] \in R
      /\ \A i \in 1 .. m : s[i] \in R
  BY DEF Ends
<1>2. rd = Window!Reverse(d) /\ rs = Window!Reverse(s)
  BY DEF Window!Reverse
<1> HIDE DEF k, m
<1>3. rd \in Seq(R) /\ Len(rd) = k
  <2>1. \A i \in 1 .. k : (k - i) + 1 \in 1 .. k
    BY <1>1
  <2>2. \A i \in 1 .. k : d[(k - i) + 1] \in R
    BY <1>1, <2>1
  <2>3. QED
    BY <1>1, <2>2
<1>4. rs \in Seq(R) /\ Len(rs) = m
  <2>1. \A i \in 1 .. m : (m - i) + 1 \in 1 .. m
    BY <1>1
  <2>2. \A i \in 1 .. m : s[(m - i) + 1] \in R
    BY <1>1, <2>1
  <2>3. QED
    BY <1>1, <2>2
<1>5. \A i \in 1 .. k : rd[i] = rs[i]
  <2>1. ASSUME NEW i \in 1 .. k PROVE rd[i] = rs[i]
    <3>1. (k - i) + 1 \in 1 .. k /\ (m - k) + ((k - i) + 1) = (m - i) + 1 /\ i \in 1 .. m
      BY <1>1
    <3>2. d[(k - i) + 1] = s[(m - i) + 1]
      BY <1>1, <3>1
    <3>3. QED
      BY <3>1, <3>2
  <2>2. QED
    BY <2>1
<1> HIDE DEF rd, rs
<1>6. SubSeq(rd, 1, k) = SubSeq(rs, 1, k)
  <2>1. /\ \A i \in 1 .. k : rd[i] \in R /\ rs[i] \in R
    <3>1. \A i \in 1 .. k : i \in 1 .. m
      BY <1>1
    <3>2. QED
      BY <1>3, <1>4, <3>1
  <2>2. SubSeq(rd, 1, k) = [i \in 1 .. k |-> rd[i]] /\ SubSeq(rs, 1, k) = [i \in 1 .. k |-> rs[i]]
    BY <1>1, <1>3, <1>4
  <2>3. QED
    BY <1>5, <2>2
<1>7. QED
  BY <1>1, <1>2, <1>3, <1>4, <1>6 DEF Window!IsSuffix, Window!IsPrefix

\* Until the first discard, the list view shows the newest records that pass the
\* filter, all since Clear, in order, however many arrived.
THEOREM NewestAreShown == Spec => []WindowShowsTheNewest
<1>1. ASSUME WindowInv PROVE Window!ShowsTheNewest
  <2>1. rDatabase \in Seq(Window!Records) /\ rUnfiltered \in Seq(Window!Records)
    BY <1>1 DEF WindowInv, WindowTypes
  <2>2. Window!Passing(rUnfiltered, rFilter) \in Seq(Window!Records)
    BY <2>1, PassingTypes
  <2>3. WindowShownInv
    BY <1>1 DEF WindowInv
  <2>4. QED
    BY <2>1, <2>2, <2>3, EndsIsSuffix DEF WindowShownInv, Window!ShowsTheNewest
<1>2. WindowInv => WindowShowsTheNewest
  BY <1>1 DEF WindowShowsTheNewest
<1>3. QED
  BY <1>2, WindowInvariant, PTL

LEMMA WindowTypesAreOK == WindowInv => Window!TypeOK
<1>1. SUFFICES ASSUME WindowInv PROVE Window!TypeOK
  OBVIOUS
<1>2. WindowTypes /\ WindowCountInv /\ Window!OneWakeup
  BY <1>1 DEF WindowInv
<1>3. /\ rArrived \in Nat /\ rArrived <= MaxRecords /\ MaxRecords \in Nat
      /\ rPosted \in Nat /\ rItems \in Nat /\ rCount \in Nat
      /\ Len(rQueue) \in Nat /\ Len(rUnfiltered) \in Nat
  BY <1>2, ServicesAssumption DEF WindowTypes, Window!RecordsAssumption
<1>4. rItems \in 0 .. MaxRecords /\ rCount \in 0 .. MaxRecords
  BY <1>2, <1>3 DEF WindowCountInv
<1>5. rPosted \in 0 .. MaxRecords
  <2>1. CASE rQueue = << >>
    BY <1>2, <1>3, <2>1 DEF Window!OneWakeup
  <2>2. CASE rQueue # << >>
    <3>1. rPosted <= 1
      BY <1>2, <1>3, <2>2 DEF Window!OneWakeup
    <3>2. Len(rQueue) >= 1
      BY <1>2, <1>3, <2>2, EmptySeq DEF WindowTypes
    <3>3. QED
      BY <1>2, <1>3, <3>1, <3>2 DEF WindowCountInv
  <2>3. QED
    BY <2>1, <2>2
<1>6. QED
  BY <1>2, <1>4, <1>5 DEF WindowTypes, Window!TypeOK

----------------------------------------------------------------------------
(* The rundown guard *)

GuardInv == Guard!TypeOK /\ Guard!CountIsInside /\ Guard!ClosedIsEmpty

LEMMA GuardCardinality ==
    /\ IsFiniteSet(Users)
    /\ \A S : Guard!Cardinality(S) = Cardinality(S)
<1>1. \A S : Guard!IsFiniteSet(S) <=> IsFiniteSet(S)
  BY DEF Guard!IsFiniteSet, IsFiniteSet
<1>2. \A S : Guard!Cardinality(S) = Cardinality(S)
  BY <1>1 DEF Guard!Cardinality, Cardinality
<1>3. QED
  BY <1>1, <1>2, ServicesAssumption DEF Guard!RundownAssumption

LEMMA GuardStep ==
    ASSUME GuardInv, [Guard!Next]_guardVars
    PROVE  GuardInv'
<1>0. /\ gCount \in Nat /\ gActive \in BOOLEAN /\ gEntries \in 0 .. MaxEntries /\ MaxEntries \in Nat
      /\ gPc \in [Users -> {"out", "inc_test", "inc_swap", "in", "dec_swap"}]
      /\ gVal \in [Users -> Nat] /\ gWaiter \in {"idle", "wait", "done"}
      /\ gCount = Cardinality(Guard!Inside)
      /\ gActive \/ gWaiter = "done" => gActive /\ Guard!Inside = {}
      /\ IsFiniteSet(Guard!Inside) /\ Guard!Inside \subseteq Users
  <2>1. Guard!Inside \subseteq Users
    BY DEF Guard!Inside
  <2>2. QED
    BY <2>1, GuardCardinality, FS_Subset, ServicesAssumption
       DEF GuardInv, Guard!TypeOK, Guard!CountIsInside, Guard!ClosedIsEmpty, Guard!RundownAssumption
<1>1. ASSUME Guard!Inside' = Guard!Inside, gCount' = gCount, gActive' = gActive, gWaiter' = gWaiter \/ gWaiter' = "wait",
             gEntries' \in 0 .. MaxEntries, gVal' \in [Users -> Nat],
             gPc' \in [Users -> {"out", "inc_test", "inc_swap", "in", "dec_swap"}]
      PROVE  GuardInv'
  BY <1>0, <1>1, GuardCardinality DEF GuardInv, Guard!TypeOK, Guard!CountIsInside, Guard!ClosedIsEmpty
<1>2. CASE UNCHANGED guardVars
  BY <1>0, <1>1, <1>2 DEF guardVars, Guard!Inside
<1>3. CASE Guard!WaitBegin
  BY <1>0, <1>1, <1>3 DEF Guard!WaitBegin, Guard!Inside
<1>4. CASE Guard!WaitSwap
  <2>1. /\ gCount = 0 /\ gActive' = TRUE /\ gWaiter' = "done" /\ UNCHANGED <<gCount, gPc, gVal, gEntries>>
    BY <1>4 DEF Guard!WaitSwap
  <2>2. Guard!Inside' = Guard!Inside
    BY <2>1 DEF Guard!Inside
  <2>3. Guard!Inside = {}
    BY <1>0, <2>1, FS_EmptySet
  <2>4. QED
    BY <1>0, <2>1, <2>2, <2>3, GuardCardinality
       DEF GuardInv, Guard!TypeOK, Guard!CountIsInside, Guard!ClosedIsEmpty
<1>5. ASSUME NEW t \in Users, Guard!IncBegin(t)
      PROVE  GuardInv'
  <2>1. gEntries' \in 0 .. MaxEntries
    BY <1>0, <1>5 DEF Guard!IncBegin
  <2>2. Guard!Inside' = Guard!Inside
    BY <1>0, <1>5 DEF Guard!IncBegin, Guard!Goto, Guard!Inside
  <2>3. QED
    BY <1>0, <1>1, <1>5, <2>1, <2>2 DEF Guard!IncBegin, Guard!Goto
<1>6. ASSUME NEW t \in Users, Guard!IncTest(t)
      PROVE  GuardInv'
  <2>1. Guard!Inside' = Guard!Inside
    BY <1>0, <1>6 DEF Guard!IncTest, Guard!Goto, Guard!Inside
  <2>2. QED
    BY <1>0, <1>1, <1>6, <2>1 DEF Guard!IncTest, Guard!Goto
<1>7. ASSUME NEW t \in Users, Guard!IncSwap(t)
      PROVE  GuardInv'
  <2>1. CASE ~gActive /\ gCount = gVal[t]
    <3>1. /\ gPc[t] = "inc_swap" /\ gCount' = gCount + 1 /\ gPc' = [gPc EXCEPT ![t] = "in"]
          /\ UNCHANGED <<gActive, gVal, gWaiter, gEntries>>
      BY <1>7, <2>1 DEF Guard!IncSwap, Guard!Goto
    <3>2. Guard!Inside' = Guard!Inside \cup {t} /\ t \notin Guard!Inside
      BY <1>0, <3>1 DEF Guard!Inside
    <3>3. Cardinality(Guard!Inside') = gCount + 1
      BY <1>0, <3>2, FS_AddElement
    <3>4. QED
      BY <1>0, <2>1, <3>1, <3>3, GuardCardinality
         DEF GuardInv, Guard!TypeOK, Guard!CountIsInside, Guard!ClosedIsEmpty
  <2>2. CASE ~(~gActive /\ gCount = gVal[t])
    <3>1. Guard!Inside' = Guard!Inside
      BY <1>0, <1>7, <2>2 DEF Guard!IncSwap, Guard!Goto, Guard!Inside
    <3>2. QED
      BY <1>0, <1>1, <1>7, <2>2, <3>1 DEF Guard!IncSwap, Guard!Goto
  <2>3. QED
    BY <2>1, <2>2
<1>8. ASSUME NEW t \in Users, Guard!DecBegin(t)
      PROVE  GuardInv'
  <2>1. Guard!Inside' = Guard!Inside
    BY <1>0, <1>8 DEF Guard!DecBegin, Guard!Goto, Guard!Inside
  <2>2. QED
    BY <1>0, <1>1, <1>8, <2>1 DEF Guard!DecBegin, Guard!Goto
<1>9. ASSUME NEW t \in Users, Guard!DecSwap(t)
      PROVE  GuardInv'
  <2>1. /\ gPc[t] = "dec_swap" /\ ~gActive /\ gCount' = gCount - 1 /\ gPc' = [gPc EXCEPT ![t] = "out"]
        /\ UNCHANGED <<gActive, gVal, gWaiter, gEntries>>
    BY <1>9 DEF Guard!DecSwap, Guard!Goto
  <2>2. Guard!Inside' = Guard!Inside \ {t} /\ t \in Guard!Inside
    BY <1>0, <2>1 DEF Guard!Inside
  <2>3. Cardinality(Guard!Inside') = gCount - 1
    BY <1>0, <2>2, FS_RemoveElement
  <2>4. gCount - 1 \in Nat
    <3>1. gCount # 0
      BY <1>0, <2>2, FS_EmptySet
    <3>2. QED
      BY <1>0, <3>1
  <2>5. QED
    BY <1>0, <2>1, <2>3, <2>4, GuardCardinality
       DEF GuardInv, Guard!TypeOK, Guard!CountIsInside, Guard!ClosedIsEmpty
<1>10. QED
  BY <1>2, <1>3, <1>4, <1>5, <1>6, <1>7, <1>8, <1>9 DEF Guard!Next, Guard!UserStep

\* The word of the guard counts the users inside and is closed on nobody, after
\* every step, with any number of users.
THEOREM GuardInvariant == Spec => []GuardInv
<1>1. ASSUME Init PROVE GuardInv
  <2>1. Guard!Init
    BY <1>1, Starts
  <2>2. Guard!Inside = {} /\ Cardinality({}) = 0
    BY <2>1, FS_EmptySet DEF Guard!Init, Guard!Inside
  <2>3. 0 \in 0 .. MaxEntries
    BY ServicesAssumption DEF Guard!RundownAssumption
  <2>4. /\ gCount = 0 /\ gActive = FALSE /\ gWaiter = "idle" /\ gEntries = 0
        /\ gPc \in [Users -> {"out", "inc_test", "inc_swap", "in", "dec_swap"}] /\ gVal \in [Users -> Nat]
    <3>1. gPc = [t \in Users |-> "out"] /\ gVal = [t \in Users |-> 0]
      BY <2>1 DEF Guard!Init
    <3>2. gCount = 0 /\ gActive = FALSE /\ gWaiter = "idle" /\ gEntries = 0
      BY <2>1 DEF Guard!Init
    <3>3. QED
      BY <3>1, <3>2
  <2>5. Guard!TypeOK
    <3>1. gCount \in Nat /\ gActive \in BOOLEAN /\ gEntries \in 0 .. MaxEntries
      <4>1. gCount = 0 /\ gActive = FALSE /\ gEntries = 0
        BY <2>4
      <4>2. QED
        BY <2>3, <4>1
    <3>2. gWaiter \in {"idle", "wait", "done"}
      BY <2>4
    <3>3. QED
      BY <2>4, <3>1, <3>2 DEF Guard!TypeOK
  <2>6. Guard!CountIsInside
    BY <2>2, <2>4, GuardCardinality DEF Guard!CountIsInside
  <2>7. Guard!ClosedIsEmpty
    BY <2>4 DEF Guard!ClosedIsEmpty
  <2>8. QED
    BY <2>5, <2>6, <2>7 DEF GuardInv
<1>2. GuardInv /\ [Next]_mcvars => GuardInv'
  BY Moves, GuardStep
<1>3. QED
  BY <1>1, <1>2, PTL DEF Spec
=============================================================================
