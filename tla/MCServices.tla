----------------------------- MODULE MCServices -----------------------------
(***************************************************************************)
(* The components that threads and the system drive, for TLC: the network  *)
(* sinks, the servers and the record window of SkTracer, the debug heap,   *)
(* the timer and the rundown guard.  They do not share state; each has     *)
(* its part of the state graph, chosen by the initial state and kept, in   *)
(* which it moves and the others rest.                                     *)
(***************************************************************************)
EXTENDS Naturals, FiniteSets

CONSTANTS MaxRequests, Root, Null,        \* the network sinks
          Clients, NoClient,              \* TcpServer
          Datagrams, Bad, Short,          \* UdpServer
          QueueSize, NoDatagram,
          Kinds, Limit, ToDiscard,        \* the record window
          MaxRecords,
          Users, MaxEntries,              \* RundownGuard
          Threads, Blocks,                \* DebugHeap
          NoThread, NoBlock,
          Handles, NoHandle, MaxRunning   \* Timer

VARIABLES
    part,  \* the component that moves
    uSocket, uConnected, uTerminating, uTerminated, uThrottled, uPending,
    uAlive, uIo, uWriter, uUrgent, uClient, uLock,
    kPc, kUrgent, kSocket, kConnected, kThrottled, kNext, kPrev, kSize,
    kPulled, kTail, kAlive, kIo, kTorn,
    tStop, tListening, tWorker, tNew, tWatchdog, tAt, tLock, tList, tEvent,
    tAlert, tDtor, tVictim, tClient,
    dQueue, dOpen, dStop, dWorker, dBuffer, dOwner,
    rArrived, rQueue, rPosted, rUnfiltered, rDatabase, rItems, rFilter, rUi,
    rCount, rFault,
    gCount, gActive, gPc, gVal, gWaiter, gEntries,
    hUnder, hHeld, hOurs, hList, hCurrent, hPeak, hLock, hThread, hPc, hOp,
    hBlk, hReg,
    mHandle, mTimers, mRunning, mPc, mThen

\* A TCP sink that finalize() closes and a UDP sink that is unregistered: the
\* first loses connections, the second is closed beside a running writer.
TcpSink == INSTANCE NetSink WITH
    Tcp <- TRUE, SendMayFail <- TRUE, CloseLive <- FALSE,
    socket <- uSocket, connected <- uConnected, terminating <- uTerminating,
    terminated <- uTerminated, throttled <- uThrottled, pending <- uPending,
    alive <- uAlive, io <- uIo, wpc <- uWriter, urgent <- uUrgent,
    cpc <- uClient, lock <- uLock
UdpSink == INSTANCE NetSink WITH
    Tcp <- FALSE, SendMayFail <- FALSE, CloseLive <- TRUE,
    socket <- uSocket, connected <- uConnected, terminating <- uTerminating,
    terminated <- uTerminated, throttled <- uThrottled, pending <- uPending,
    alive <- uAlive, io <- uIo, wpc <- uWriter, urgent <- uUrgent,
    cpc <- uClient, lock <- uLock

\* The sink of a driver, whose socket can be closed or not.
TcpSinkKm == INSTANCE NetSinkKm WITH
    Tcp <- TRUE, CloseMayFail <- FALSE,
    pc <- kPc, urgent <- kUrgent, socket <- kSocket, connected <- kConnected,
    throttled <- kThrottled, next <- kNext, prev <- kPrev, size <- kSize,
    pulled <- kPulled, tail <- kTail, alive <- kAlive, io <- kIo, torn <- kTorn
UdpSinkKm == INSTANCE NetSinkKm WITH
    Tcp <- FALSE, CloseMayFail <- TRUE,
    pc <- kPc, urgent <- kUrgent, socket <- kSocket, connected <- kConnected,
    throttled <- kThrottled, next <- kNext, prev <- kPrev, size <- kSize,
    pulled <- kPulled, tail <- kTail, alive <- kAlive, io <- kIo, torn <- kTorn

TcpServer == INSTANCE TcpServer WITH
    stop <- tStop, listening <- tListening, worker <- tWorker, new <- tNew,
    watchdog <- tWatchdog, at <- tAt, lock <- tLock, list <- tList,
    event <- tEvent, alert <- tAlert, dtor <- tDtor, victim <- tVictim,
    client <- tClient

UdpServer == INSTANCE UdpServer WITH
    Records <- Datagrams, None <- NoDatagram,
    queue <- dQueue, open <- dOpen, m_stopFlag <- dStop, worker <- dWorker,
    m_buffer <- dBuffer, owner <- dOwner

Window == INSTANCE Records WITH
    arrived <- rArrived, queue <- rQueue, posted <- rPosted,
    unfiltered <- rUnfiltered, database <- rDatabase, items <- rItems,
    filter <- rFilter, ui <- rUi, count <- rCount, fault <- rFault

Guard == INSTANCE Rundown WITH
    count <- gCount, active <- gActive, pc <- gPc, val <- gVal,
    waiter <- gWaiter, entries <- gEntries

Heap == INSTANCE DebugHeap WITH
    under <- hUnder, held <- hHeld, ours <- hOurs, list <- hList,
    current <- hCurrent, peak <- hPeak, lock <- hLock, threadId <- hThread,
    pc <- hPc, op <- hOp, blk <- hBlk, reg <- hReg

Timer == INSTANCE Timer WITH
    m_h <- mHandle, timers <- mTimers, running <- mRunning, pc <- mPc,
    then <- mThen

ASSUME ServicesAssumption ==
    /\ TcpSink!NetSinkAssumption /\ UdpSink!NetSinkAssumption
    /\ TcpSinkKm!NetSinkKmAssumption /\ UdpSinkKm!NetSinkKmAssumption
    /\ TcpServer!TcpServerAssumption /\ UdpServer!UdpAssumption
    /\ Window!RecordsAssumption /\ Guard!RundownAssumption
    /\ Heap!HeapAssumption /\ Timer!TimerAssumption

sinkVars == <<uSocket, uConnected, uTerminating, uTerminated, uThrottled,
              uPending, uAlive, uIo, uWriter, uUrgent, uClient, uLock>>
kmVars == <<kPc, kUrgent, kSocket, kConnected, kThrottled, kNext, kPrev,
            kSize, kPulled, kTail, kAlive, kIo, kTorn>>
tcpVars == <<tStop, tListening, tWorker, tNew, tWatchdog, tAt, tLock, tList,
             tEvent, tAlert, tDtor, tVictim, tClient>>
udpVars == <<dQueue, dOpen, dStop, dWorker, dBuffer, dOwner>>
windowVars == <<rArrived, rQueue, rPosted, rUnfiltered, rDatabase, rItems,
                rFilter, rUi, rCount, rFault>>
guardVars == <<gCount, gActive, gPc, gVal, gWaiter, gEntries>>
heapVars == <<hUnder, hHeld, hOurs, hList, hCurrent, hPeak, hLock, hThread,
              hPc, hOp, hBlk, hReg>>
timerVars == <<mHandle, mTimers, mRunning, mPc, mThen>>
mcvars == <<part, sinkVars, kmVars, tcpVars, udpVars, windowVars, guardVars,
            heapVars, timerVars>>

\* The window's filter is chosen only where it matters.
Init ==
    /\ part \in {"tcp_sink", "udp_sink", "tcp_sink_km", "udp_sink_km",
                 "tcp_server", "udp_server", "window", "guard", "heap", "timer"}
    /\ TcpSink!Init /\ TcpSinkKm!Init /\ TcpServer!Init /\ UdpServer!Init
    /\ Window!Init /\ (part # "window" => rFilter = {})
    /\ Guard!Init /\ Heap!Init /\ Timer!Init

\* What rests while the component p moves.
Only(p) ==
    /\ part = p /\ UNCHANGED part
    /\ IF p \in {"tcp_sink", "udp_sink"} THEN TRUE ELSE UNCHANGED sinkVars
    /\ IF p \in {"tcp_sink_km", "udp_sink_km"} THEN TRUE ELSE UNCHANGED kmVars
    /\ IF p = "tcp_server" THEN TRUE ELSE UNCHANGED tcpVars
    /\ IF p = "udp_server" THEN TRUE ELSE UNCHANGED udpVars
    /\ IF p = "window" THEN TRUE ELSE UNCHANGED windowVars
    /\ IF p = "guard" THEN TRUE ELSE UNCHANGED guardVars
    /\ IF p = "heap" THEN TRUE ELSE UNCHANGED heapVars
    /\ IF p = "timer" THEN TRUE ELSE UNCHANGED timerVars

Next ==
    \/ Only("tcp_sink") /\ TcpSink!Next
    \/ Only("udp_sink") /\ UdpSink!Next
    \/ Only("tcp_sink_km") /\ TcpSinkKm!Next
    \/ Only("udp_sink_km") /\ UdpSinkKm!Next
    \/ Only("tcp_server") /\ TcpServer!Next
    \/ Only("udp_server") /\ UdpServer!Next
    \/ Only("window") /\ Window!Next
    \/ Only("guard") /\ Guard!Next
    \/ Only("heap") /\ Heap!Next
    \/ Only("timer") /\ Timer!Next

Spec == Init /\ [][Next]_mcvars

\* What each component assumes of the scheduler (its FairSpec), in its part.
SinkFairness ==
    /\ WF_sinkVars(part = "tcp_sink" /\ TcpSink!WriterStep)
    /\ WF_sinkVars(part = "tcp_sink" /\ TcpSink!ClientStep)
    /\ WF_sinkVars(part = "tcp_sink" /\ TcpSink!ConnectDone)
SinkKmFairness ==
    /\ WF_kmVars(part = "udp_sink_km" /\ ~kTorn /\ UdpSinkKm!Close)
    /\ \A r \in UdpSinkKm!Requests :
         /\ WF_kmVars(/\ part = "udp_sink_km" /\ ~kTorn /\ kPc = "closing"
                      /\ UdpSinkKm!CompleteBegin(r))
         /\ WF_kmVars(part = "udp_sink_km" /\ ~kTorn /\ UdpSinkKm!Complete(r))
TcpServerFairness ==
    /\ WF_tcpVars(part = "tcp_server" /\ TcpServer!Watchdog)
    /\ WF_tcpVars(part = "tcp_server" /\ TcpServer!Destructor)
    /\ WF_tcpVars(/\ part = "tcp_server" /\ TcpServer!Worker
                  /\ tWorker = "accept" => ~tListening)
    /\ \A c \in Clients :
         /\ WF_tcpVars(part = "tcp_server" /\ TcpServer!ClientStep(c))
         /\ WF_tcpVars(/\ part = "tcp_server" /\ TcpServer!ClientBreak(c)
                       /\ ~tClient[c].open)
UdpServerFairness ==
    /\ WF_udpVars(part = "udp_server" /\ UdpServer!Worker)
    /\ WF_udpVars(part = "udp_server" /\ UdpServer!Destructor)
WindowFairness == WF_windowVars(part = "window" /\ Window!Window)
GuardFairness ==
    /\ WF_guardVars(part = "guard" /\ Guard!WaitSwap)
    /\ \A u \in Users : WF_guardVars(part = "guard" /\ Guard!UserStep(u))
HeapFairness ==
    \A t \in Threads : WF_heapVars(part = "heap" /\ Heap!Inside(t))
TimerFairness ==
    /\ WF_timerVars(part = "timer" /\ Timer!Owner)
    /\ \A h \in Handles : WF_timerVars(part = "timer" /\ Timer!Returns(h))

FairSpec ==
    /\ Spec
    /\ SinkFairness /\ SinkKmFairness /\ TcpServerFairness /\ UdpServerFairness
    /\ WindowFairness /\ GuardFairness /\ HeapFairness /\ TimerFairness

----------------------------------------------------------------------------
(* The properties of the components; their modules say what they mean. *)

\* Every variable keeps its type, in each component.
TypeOK ==
    /\ TcpSink!TypeOK /\ TcpSinkKm!TypeOK /\ TcpServer!TypeOK
    /\ UdpServer!TypeOK /\ Window!TypeOK /\ Guard!TypeOK /\ Heap!TypeOK
    /\ Timer!TypeOK

\* User-mode sink: a completion to come finds its request in the list, and the
\* list is the memory that the sink holds.
SinkRequestsAreSound ==
    /\ part = "tcp_sink" => TcpSink!CompletionFindsRequest
    /\ TcpSink!PendingIsAllocated

\* User-mode sink: no completion disturbs the wait for a connection, and
\* whoever waits for m_terminated has a completion to hope for.
SinkWaitsAreSound ==
    TcpSink!ConnectsUndisturbed /\ UdpSink!TerminationIsSignalled

\* Kernel-mode sink: a completion finds its request, and the list, what is
\* allocated and what is in flight agree, until two operations on the list
\* overlap.
KmRequestsAreSound ==
    part = "tcp_sink_km" =>
        TcpSinkKm!CompletionFindsRequest /\ TcpSinkKm!PendingIsInFlight

\* Sinks: finalize() gets rid of the one of user mode; the destructor of the
\* one of kernel mode returns, even if its socket cannot be closed, unless two
\* operations on its list overlap.
SinksAreClosed ==
    /\ part = "tcp_sink" => TcpSink!SinkIsClosed
    /\ part = "udp_sink_km" => UdpSinkKm!SinkIsClosed

\* TcpServer: each accepted client has one owner or no thread, and a scan of
\* the watchdog misses no dead client for good.
TcpClientsAreTracked == TcpServer!OneOwner /\ TcpServer!ScanMissesNone

\* Servers: a destructor leaves no thread behind, and no callback follows it.
NothingRunsAfter == TcpServer!NothingRuns /\ UdpServer!NothingAfterDestructor

\* Servers: the destructors return, whatever peers and network do.
DestructorsReturn == TcpServer!DestructorReturns /\ UdpServer!DestructorReturns

\* No signal is lost: a client that ends leaves the list of its server, and
\* every record leaves the queue of the window.
SignalsAreServed == TcpServer!DeadAreRemoved /\ Window!QueueIsEmptied

\* The window: no record is lost, doubled or out of order on its way, and the
\* queue has one window message if it has records.
WindowRecordsAreKept == Window!OneWakeup /\ Window!NoneLost

\* The window: what is shown are the newest records that pass the filter.
WindowShowsTheNewest == Window!ShowsTheNewest

\* Debug heap: one owner of the lock, as the spinlock asserts; what is held is
\* listed, what is listed allocated, and the counts agree with the list.
HeapIsSound == Heap!AssertOwner /\ Heap!ListIsSound /\ Heap!CountsAgree

\* Timer: no callback runs after cancel() or the destructor.
TimerOnlyTheTimerRuns == Timer!OnlyTheTimerRuns

\* wait() of the guard returns once its users stay outside, or they are caught
\* in decrement(); the heap's lock is released; the calls on the timer return.
CallsReturn == Guard!WaitReturns /\ Heap!LockIsReleased /\ Timer!CallsReturn
=============================================================================
