------------------------------- MODULE Trace -------------------------------
(***************************************************************************)
(* The trace dispatcher of src/SkBase/Trace.cxx: clients hand records to a *)
(* queue, one writer thread takes them out and shows each to the sinks     *)
(* registered under a mutex; initialize() and finalize() count references  *)
(* and build and tear down the globals.  The queue is the bounded FIFO     *)
(* that module QueueFifo shows Queue.hxx to be when it has one consumer.   *)
(* A record is known by its number in the order of the puts.  A section    *)
(* under the mutex is one step, but for the writer's, which calls out.     *)
(***************************************************************************)
EXTENDS Integers, Sequences, FiniteSets

CONSTANTS Clients,        \* threads that use the trace API
          Names,          \* names of sinks
          Formatters,     \* formatters a sink may be given
          QueueCapacity,  \* 4096 in the code
          Overlap,        \* initialize() may overlap initialize(), finalize()
          ThreadMayFail   \* _beginthreadex() may fail

ASSUME TraceAssumption ==
    /\ IsFiniteSet(Clients)
    /\ QueueCapacity \in Nat \ {0}
    /\ Overlap \in BOOLEAN
    /\ ThreadMayFail \in BOOLEAN

VARIABLES refs,          \* g_RefCount
          global,        \* g_TraceGlobalData is not null
          stopFlag,
          queue,
          sinkList,
          locked,        \* the writer holds the mutex
          event,         \* recordAvailableEvent is set
          alert,         \* the APC of Thread::alert() is pending
          writerThread,  \* "null", "invalid" or "valid"
          wpc,           \* where the writer thread is, "none" if there is none
          rec,           \* the record in its hand, 0 if none
          using,         \* the registration it is at
          pc,            \* where each client is
          saw,           \* the m_puts a flush() read
          holders,       \* clients that called initialize() and not finalize()
          puts,          \* number of records put so far
          asked,         \* puts when the client called flush()
          given          \* given[i]: the records written to registration i

core == <<refs, global, stopFlag, writerThread, holders>>
channel == <<queue, puts, event>>
sinks == <<sinkList, given>>
writer == <<wpc, rec, using, locked>>
local == <<saw, asked>>
vars == <<core, channel, sinks, writer, alert, pc, local>>

\* since and steady are kept for the properties: the puts when the sink was
\* registered, and that its filter is still the first one.
Registration == [id : Nat, name : Names, passes : BOOLEAN,
                 formatter : Formatters, since : Nat, steady : BOOLEAN]

None == [id |-> 0]

Taken == puts - Len(queue)  \* m_gets

Init ==
    /\ refs = 0 /\ global = FALSE /\ stopFlag = FALSE
    /\ writerThread = "null" /\ holders = {}
    /\ queue = <<>> /\ puts = 0 /\ event = FALSE
    /\ sinkList = <<>> /\ given = <<>>
    /\ wpc = "none" /\ rec = 0 /\ using = None /\ locked = FALSE
    /\ alert = FALSE
    /\ pc = [t \in Clients |-> "idle"]
    /\ saw = [t \in Clients |-> 0]
    /\ asked = [t \in Clients |-> 0]

Goto(t, l) == pc' = [pc EXCEPT ![t] = l]

----------------------------------------------------------------------------
(* initialize() *)

Building == {"init_build", "init_thread"}
TearingDown == {"fin_spin", "fin_test", "fin_count", "fin_stop", "fin_alert",
                "fin_join", "fin_drain", "fin_clear", "fin_null"}

InitBegin(t) ==
    /\ pc[t] = "idle" /\ t \notin holders
    /\ ~Overlap => \A u \in Clients : pc[u] \notin Building \cup TearingDown
    /\ refs' = refs + 1
    /\ IF refs + 1 > 1
       THEN holders' = holders \cup {t} /\ UNCHANGED pc
       ELSE Goto(t, "init_build") /\ UNCHANGED holders
    /\ UNCHANGED <<global, stopFlag, writerThread, channel, sinks, writer,
                   alert, local>>

\* new (_TraceGlobalDataPlace) TraceGlobalData
InitBuild(t) ==
    /\ pc[t] = "init_build"
    /\ global' = TRUE /\ stopFlag' = FALSE /\ writerThread' = "null"
    /\ queue' = <<>> /\ sinkList' = <<>> /\ event' = FALSE /\ locked' = FALSE
    /\ Goto(t, "init_thread")
    /\ UNCHANGED <<refs, holders, puts, given, wpc, rec, using, alert, local>>

InitThread(t) ==
    /\ pc[t] = "init_thread"
    /\ \/ writerThread' = "valid" /\ wpc' = "start"
       \/ ThreadMayFail /\ writerThread' = "invalid" /\ UNCHANGED wpc
    /\ alert' = FALSE
    /\ holders' = holders \cup {t}
    /\ Goto(t, "idle")
    /\ UNCHANGED <<refs, global, stopFlag, channel, sinks, rec, using, locked,
                   local>>

\* flush(), as far as its loop.
Flush(t, loop, done) ==
    IF global /\ ~stopFlag
    THEN Goto(t, loop) /\ asked' = [asked EXCEPT ![t] = puts]
    ELSE Goto(t, done) /\ UNCHANGED asked

\* No memory for the writer: initialize() calls finalize() and returns false.
InitFail(t) ==
    /\ pc[t] = "init_thread"
    /\ Flush(t, "fin_spin", "fin_count")
    /\ UNCHANGED <<core, channel, sinks, writer, alert, saw>>

----------------------------------------------------------------------------
(* flush() *)

FlushBegin(t) ==
    /\ pc[t] = "idle" /\ t \in holders
    /\ Flush(t, "spin", "idle")
    /\ UNCHANGED <<core, channel, sinks, writer, alert, saw>>

\* empty() loads m_puts, then m_gets.  (Loading m_gets first allows less.)
SpinRead(t) ==
    /\ \/ pc[t] = "spin" /\ Goto(t, "spin_test")
       \/ pc[t] = "fin_spin" /\ Goto(t, "fin_test")
    /\ saw' = [saw EXCEPT ![t] = puts]
    /\ UNCHANGED <<core, channel, sinks, writer, alert, asked>>

\* Mutant: flush() yields once instead of until the queue is empty.
IsDrainedAfterOneYield(t) == TRUE

IsDrained(t) == saw[t] = Taken

SpinTest(t) ==
    /\ \/ pc[t] = "spin_test" /\ Goto(t, IF IsDrained(t) THEN "idle" ELSE "spin")
       \/ pc[t] = "fin_test" /\ Goto(t, IF IsDrained(t) THEN "fin_count" ELSE "fin_spin")
    /\ saw' = [saw EXCEPT ![t] = 0]
    /\ asked' = IF IsDrained(t) THEN [asked EXCEPT ![t] = 0] ELSE asked
    /\ UNCHANGED <<core, channel, sinks, writer, alert>>

----------------------------------------------------------------------------
(* finalize() *)

\* Mutant: finalize() does not flush.
FinBeginNoFlush(t) ==
    /\ pc[t] = "idle" /\ t \in holders
    /\ holders' = holders \ {t}
    /\ Goto(t, "fin_count")
    /\ UNCHANGED <<refs, global, stopFlag, writerThread, channel, sinks,
                   writer, alert, local>>

FinBegin(t) ==
    /\ pc[t] = "idle" /\ t \in holders
    /\ holders' = holders \ {t}
    /\ Flush(t, "fin_spin", "fin_count")
    /\ UNCHANGED <<refs, global, stopFlag, writerThread, channel, sinks,
                   writer, alert, saw>>

\* Mutant: the last reference but one already tears down.
FinCountEarly(t) ==
    /\ pc[t] = "fin_count"
    /\ refs' = refs - 1
    /\ Goto(t, IF refs - 1 > 1 \/ ~global THEN "idle" ELSE "fin_stop")
    /\ UNCHANGED <<global, stopFlag, writerThread, holders, channel, sinks,
                   writer, alert, local>>

FinCount(t) ==
    /\ pc[t] = "fin_count"
    /\ refs' = refs - 1
    /\ Goto(t, IF refs - 1 # 0 \/ ~global THEN "idle" ELSE "fin_stop")
    /\ UNCHANGED <<global, stopFlag, writerThread, holders, channel, sinks,
                   writer, alert, local>>

FinStop(t) ==
    /\ pc[t] = "fin_stop"
    /\ stopFlag' = TRUE
    /\ Goto(t, IF writerThread = "null" THEN "fin_drain" ELSE "fin_alert")
    /\ UNCHANGED <<refs, global, writerThread, holders, channel, sinks, writer,
                   alert, local>>

FinAlert(t) ==
    /\ pc[t] = "fin_alert"
    /\ alert' = (writerThread = "valid")
    /\ Goto(t, "fin_join")
    /\ UNCHANGED <<core, channel, sinks, writer, local>>

FinJoin(t) ==
    /\ pc[t] = "fin_join"
    /\ writerThread = "valid" => wpc = "done"
    /\ writerThread' = "null" /\ wpc' = "none" /\ alert' = FALSE
    /\ Goto(t, "fin_drain")
    /\ UNCHANGED <<refs, global, stopFlag, holders, channel, sinks, rec, using,
                   locked, local>>

\* The records left are released unwritten.
FinDrain(t) ==
    /\ pc[t] = "fin_drain"
    /\ queue' = <<>>
    /\ Goto(t, "fin_clear")
    /\ UNCHANGED <<core, puts, event, sinks, writer, alert, local>>

FinClear(t) ==
    /\ pc[t] = "fin_clear" /\ ~locked
    /\ sinkList' = <<>>
    /\ Goto(t, "fin_null")
    /\ UNCHANGED <<core, channel, given, writer, alert, local>>

FinNull(t) ==
    /\ pc[t] = "fin_null"
    /\ global' = FALSE
    /\ Goto(t, "idle")
    /\ UNCHANGED <<refs, stopFlag, writerThread, holders, channel, sinks,
                   writer, alert, local>>

----------------------------------------------------------------------------
(* writeInternalV() *)

WriteBegin(t) ==
    /\ pc[t] = "idle" /\ t \in holders
    /\ global /\ ~stopFlag
    /\ Goto(t, "write_list")
    /\ UNCHANGED <<core, channel, sinks, writer, alert, local>>

\* The list is looked at without the mutex.
WriteList(t) ==
    /\ pc[t] = "write_list"
    /\ Goto(t, IF sinkList = <<>> THEN "idle" ELSE "write_push")
    /\ UNCHANGED <<core, channel, sinks, writer, alert, local>>

WritePush(t) ==
    /\ pc[t] = "write_push"
    /\ IF Len(queue) < QueueCapacity
       THEN /\ queue' = Append(queue, puts + 1)
            /\ puts' = puts + 1
            /\ Goto(t, "write_set")
       ELSE Goto(t, "idle") /\ UNCHANGED <<queue, puts>>
    /\ UNCHANGED <<core, event, sinks, writer, alert, local>>

\* Mutant: only the put that finds the queue empty sets the event.
WriteSetFirstOnly(t) ==
    /\ pc[t] = "write_set"
    /\ event' = (event \/ Len(queue) = 1)
    /\ Goto(t, "idle")
    /\ UNCHANGED <<core, queue, puts, sinks, writer, alert, local>>

WriteSet(t) ==
    /\ pc[t] = "write_set"
    /\ event' = TRUE
    /\ Goto(t, "idle")
    /\ UNCHANGED <<core, queue, puts, sinks, writer, alert, local>>

----------------------------------------------------------------------------
(* registerSink(), unregisterSink(), setFormatter(), setFilter() *)

\* The client is about to hold the mutex for one step.
InMutex(t) == pc[t] = "idle" /\ t \in holders /\ global /\ ~locked

RegisterSink(t, n, f) ==
    /\ InMutex(t)
    /\ sinkList' = Append(sinkList,
                          [id |-> Len(given) + 1, name |-> n, passes |-> TRUE,
                           formatter |-> f, since |-> puts, steady |-> TRUE])
    /\ given' = Append(given, <<>>)
    /\ UNCHANGED <<core, channel, writer, alert, pc, local>>

\* Place i has the first registration of that name: duplicates are let in.
IsFirst(n, i) ==
    /\ sinkList[i].name = n
    /\ \A j \in 1 .. i - 1 : sinkList[j].name # n

Without(s, i) == SubSeq(s, 1, i - 1) \o SubSeq(s, i + 1, Len(s))

\* Mutant: unregisterSink() does not take the mutex.
UnregisterSinkUnlocked(t, n) ==
    \E i \in DOMAIN sinkList :
        /\ pc[t] = "idle" /\ t \in holders /\ global /\ IsFirst(n, i)
        /\ sinkList' = Without(sinkList, i)
        /\ UNCHANGED <<core, channel, given, writer, alert, pc, local>>

UnregisterSink(t, n) ==
    \E i \in DOMAIN sinkList :
        /\ InMutex(t) /\ IsFirst(n, i)
        /\ sinkList' = Without(sinkList, i)
        /\ UNCHANGED <<core, channel, given, writer, alert, pc, local>>

SetFormatter(t, n, f) ==
    \E i \in DOMAIN sinkList :
        /\ InMutex(t) /\ IsFirst(n, i)
        /\ sinkList' = [sinkList EXCEPT ![i].formatter = f]
        /\ UNCHANGED <<core, channel, given, writer, alert, pc, local>>

SetFilter(t, n, b) ==
    \E i \in DOMAIN sinkList :
        /\ InMutex(t) /\ IsFirst(n, i)
        /\ sinkList' = [sinkList EXCEPT ![i] = [@ EXCEPT !.passes = b, !.steady = FALSE]]
        /\ UNCHANGED <<core, channel, given, writer, alert, pc, local>>

----------------------------------------------------------------------------
(* TraceSinkWriter::run(), pumpEvents() *)

others == <<core, sinkList, pc, local, puts>>

\* A thread delivers the APCs queued so far before its procedure runs.
WriterStart ==
    /\ wpc = "start"
    /\ wpc' = "test" /\ alert' = FALSE
    /\ UNCHANGED <<others, queue, event, given, rec, using, locked>>

WriterTest ==
    /\ wpc = "test"
    /\ wpc' = IF stopFlag THEN "done" ELSE "look"
    /\ UNCHANGED <<others, queue, event, alert, given, rec, using, locked>>

WriterLook ==
    /\ wpc = "look"
    /\ wpc' = IF queue = <<>> THEN "wait" ELSE "drain"
    /\ UNCHANGED <<others, queue, event, alert, given, rec, using, locked>>

\* waitAlertable() returns success: the event resets itself.
WriterWake ==
    /\ wpc = "wait" /\ event
    /\ event' = FALSE /\ wpc' = "drain"
    /\ UNCHANGED <<others, queue, alert, given, rec, using, locked>>

\* Mutant: after an alert the writer waits again, the flag unread.
WriterAlertedLooks ==
    /\ wpc = "wait" /\ alert
    /\ alert' = FALSE /\ wpc' = "look"
    /\ UNCHANGED <<others, queue, event, given, rec, using, locked>>

WriterAlerted ==
    /\ wpc = "wait" /\ alert
    /\ alert' = FALSE /\ wpc' = "test"
    /\ UNCHANGED <<others, queue, event, given, rec, using, locked>>

\* The completion routine of a sink's asynchronous I/O ends the wait.
IoCompletes ==
    /\ wpc = "wait"
    /\ alert' = FALSE /\ wpc' = "test"
    /\ UNCHANGED <<others, queue, event, given, rec, using, locked>>

WriterDrain ==
    /\ wpc = "drain"
    /\ wpc' = IF queue = <<>> THEN "test" ELSE "pop"
    /\ UNCHANGED <<others, queue, event, alert, given, rec, using, locked>>

\* Mutant: pumpEvents() takes all records and writes the last.
WriterPopLast ==
    /\ wpc = "pop"
    /\ IF queue = <<>>
       THEN wpc' = "drain" /\ UNCHANGED <<queue, rec>>
       ELSE wpc' = "lock" /\ rec' = queue[Len(queue)] /\ queue' = <<>>
    /\ UNCHANGED <<others, event, alert, given, using, locked>>

WriterPop ==
    /\ wpc = "pop"
    /\ IF queue = <<>>
       THEN wpc' = "drain" /\ UNCHANGED <<queue, rec>>
       ELSE wpc' = "lock" /\ rec' = Head(queue) /\ queue' = Tail(queue)
    /\ UNCHANGED <<others, event, alert, given, using, locked>>

\* The loop over the sinks moves to place i of the list.
Visit(i) ==
    IF i \in DOMAIN sinkList
    THEN using' = sinkList[i] /\ wpc' = "filter"
    ELSE using' = None /\ wpc' = "unlock"

Place(r) == CHOOSE i \in DOMAIN sinkList : sinkList[i].id = r.id

WriterLock ==
    /\ wpc = "lock" /\ ~locked
    /\ locked' = TRUE
    /\ Visit(1)
    /\ UNCHANGED <<others, queue, event, alert, given, rec>>

WriterFilter ==
    /\ wpc = "filter"
    /\ IF using.passes THEN wpc' = "write" /\ UNCHANGED using
                       ELSE Visit(Place(using) + 1)
    /\ UNCHANGED <<others, queue, event, alert, given, rec, locked>>

\* A sink may wait alertably itself, and take the APC of alert() away.
\* Mutant: the record goes round the list again from its head.
WriterWriteAgain ==
    /\ wpc = "write"
    /\ given' = [given EXCEPT ![using.id] = Append(@, rec)]
    /\ alert' \in {alert, FALSE}
    /\ Visit(IF Len(sinkList) > Place(using) THEN 1 ELSE Place(using) + 1)
    /\ UNCHANGED <<others, queue, event, rec, locked>>

WriterWrite ==
    /\ wpc = "write"
    /\ given' = [given EXCEPT ![using.id] = Append(@, rec)]
    /\ alert' \in {alert, FALSE}
    /\ Visit(Place(using) + 1)
    /\ UNCHANGED <<others, queue, event, rec, locked>>

\* Mutant: the record is not released.
WriterUnlockKeepsRecord ==
    /\ wpc = "unlock"
    /\ locked' = FALSE /\ wpc' = "pop"
    /\ UNCHANGED <<others, queue, event, alert, given, rec, using>>

\* The writer is done with the record.  (Its reference goes at the end of the
\* loop's body, after the next pop(); no sink sees the record in between.)
WriterUnlock ==
    /\ wpc = "unlock"
    /\ locked' = FALSE /\ rec' = 0 /\ wpc' = "pop"
    /\ UNCHANGED <<others, queue, event, alert, given, using>>

----------------------------------------------------------------------------

\* A step inside a call; what a client does next is its own choice.
ClientStep(t) ==
    \/ InitBuild(t) \/ InitThread(t) \/ InitFail(t)
    \/ SpinRead(t) \/ SpinTest(t)
    \/ FinCount(t) \/ FinStop(t) \/ FinAlert(t) \/ FinJoin(t)
    \/ FinDrain(t) \/ FinClear(t) \/ FinNull(t)
    \/ WriteList(t) \/ WritePush(t) \/ WriteSet(t)

ClientCall(t) ==
    \/ InitBegin(t) \/ FinBegin(t) \/ FlushBegin(t) \/ WriteBegin(t)
    \/ \E n \in Names : \/ UnregisterSink(t, n)
                        \/ \E f \in Formatters : \/ RegisterSink(t, n, f)
                                                 \/ SetFormatter(t, n, f)
                        \/ \E b \in BOOLEAN : SetFilter(t, n, b)

WriterStep ==
    \/ WriterStart \/ WriterTest \/ WriterLook \/ WriterWake \/ WriterAlerted
    \/ WriterDrain \/ WriterPop \/ WriterLock \/ WriterFilter \/ WriterWrite
    \/ WriterUnlock

Next ==
    \/ \E t \in Clients : ClientStep(t) \/ ClientCall(t)
    \/ WriterStep
    \/ IoCompletes

Spec == Init /\ [][Next]_vars

----------------------------------------------------------------------------
(* Properties *)

PCs == {"idle", "spin", "spin_test", "write_list", "write_push", "write_set"}
          \cup Building \cup TearingDown

WriterPCs == {"none", "start", "test", "look", "wait", "drain", "pop", "lock",
              "filter", "write", "unlock", "done"}

\* Every variable has its type, and the writer has the mutex, a record and a
\* registration exactly where pumpEvents() has them.
TypeOK ==
    /\ refs \in Nat /\ global \in BOOLEAN /\ stopFlag \in BOOLEAN
    /\ writerThread \in {"null", "invalid", "valid"} /\ holders \subseteq Clients
    /\ queue \in Seq(Nat \ {0}) /\ puts \in Nat /\ event \in BOOLEAN
    /\ sinkList \in Seq(Registration) /\ given \in Seq(Seq(Nat))
    /\ wpc \in WriterPCs /\ alert \in BOOLEAN
    /\ locked \in BOOLEAN /\ (locked <=> wpc \in {"filter", "write", "unlock"})
    /\ rec \in Nat /\ (rec # 0 <=> locked \/ wpc = "lock")
    /\ using \in Registration \cup {None}
    /\ using # None <=> wpc \in {"filter", "write"}
    /\ pc \in [Clients -> PCs]
    /\ saw \in [Clients -> Nat] /\ asked \in [Clients -> Nat]

\* While the writer is inside a registration's filter, formatter or sink, the
\* registration is still in the list and nothing of it was replaced: once
\* unregisterSink() has returned, its sink is not called again, and its owner
\* (the dialog behind LocalSink) may go.
SinkInUseIsRegistered ==
    wpc \in {"filter", "write"} => \E i \in DOMAIN sinkList : sinkList[i] = using

\* A call that is past its null check, and the writer thread, run only while
\* the globals exist: with one initialize() at a time the count of references
\* keeps them alive for every other holder.
GlobalsOutliveCalls ==
    /\ \A t \in Clients : pc[t] \notin {"idle", "init_build", "fin_count"} => global
    /\ holders # {} => global /\ ~stopFlag
    /\ wpc # "none" => global

\* The records a sink was given are in the order of their puts, and none was
\* given to it twice.
GivenInOrder ==
    \A i \in DOMAIN given :
        \A j, k \in DOMAIN given[i] : j < k => given[i][j] < given[i][k]

\* A sink whose filter passes all and was not replaced was given every record
\* put since it was registered and taken by the writer, but for the one in the
\* writer's hand.
NoneSkipped ==
    \A i \in DOMAIN sinkList :
        LET r == sinkList[i]
        IN  r.steady => \A n \in r.since + 1 .. Taken :
                            n = rec \/ \E j \in DOMAIN given[r.id] : given[r.id][j] = n

\* What finalize() drains is already empty: each holder flushes before it
\* gives up its reference, so no record is thrown away at the end.
NothingThrownAway == \A t \in Clients : pc[t] = "fin_drain" => queue = <<>>

\* A flush() that returns has seen the writer take every record put before it
\* was called, though it reads m_puts and m_gets one after the other.
FlushTakesAll ==
    [][\A t \in Clients :
          (pc[t] \in {"spin_test", "fin_test"} /\ pc'[t] \in {"idle", "fin_count"})
             => Taken >= asked[t]]_vars

\* SK_ASSERT(!g_TraceGlobalData) in initialize().
AssertNoGlobals == \A t \in Clients : pc[t] = "init_build" => ~global

\* SK_ASSERT(g_TraceGlobalData) in registerSink(): who was told that the
\* library is initialized finds it so.
AssertGlobals == \A t \in holders : pc[t] = "idle" => global

\* SK_ASSERT(valid()) in Thread::alert().
AssertThreadValid ==
    \A t \in Clients : pc[t] = "fin_alert" => writerThread = "valid"

----------------------------------------------------------------------------
(* The inductive invariant behind GlobalsOutliveCalls and                  *)
(* SinkInUseIsRegistered, when initialize() calls do not overlap           *)

\* The clients that refs counts.
Counted == Building \cup {"fin_spin", "fin_test", "fin_count"}
Owners == holders \cup {t \in Clients : pc[t] \in Counted}

\* The count is that of the owners; only a holder is inside an ordinary call,
\* and none is initializing or finalizing.
OwnersInv ==
    /\ refs = Cardinality(Owners)
    /\ \A t \in Clients : pc[t] \notin {"idle"} \cup Building \cup TearingDown
                              => t \in holders
    /\ \A t \in holders : pc[t] \notin Building \cup TearingDown

\* Who builds the globals or tears them down is the only one in the library.
Alone == Building \cup (TearingDown \ Counted)
AloneInv ==
    \A t, u \in Clients :
        pc[t] \in Alone /\ u # t => pc[u] = "idle" /\ u \notin holders

GlobalsInv ==
    /\ \A t \in Owners : pc[t] # "init_build" => global /\ ~stopFlag
    /\ \A t \in Clients : pc[t] = "init_build" => ~global
    /\ \A t \in Clients : pc[t] \in TearingDown => global
    /\ global => \E t \in Clients : t \in holders \/ pc[t] \notin {"idle", "init_build"}

\* There is a writer exactly while there is a valid thread to run it.
WriterInv ==
    /\ writerThread = "valid" <=> wpc # "none"
    /\ wpc # "none" => global
    /\ \A t \in Clients : pc[t] \in {"init_thread", "fin_drain", "fin_clear", "fin_null"}
                              => wpc = "none"

IndInv == TypeOK /\ OwnersInv /\ AloneInv /\ GlobalsInv /\ WriterInv
            /\ SinkInUseIsRegistered

----------------------------------------------------------------------------
(* What is inductive together with IndInv and implies GivenInOrder,        *)
(* NoneSkipped and NothingThrownAway                                       *)

\* While a record waits, somebody will flush before the globals can go: a
\* holder, or one inside the flush() of finalize() who has not read m_puts
\* since the last put.
DrainInv ==
    queue # <<>> => \E t \in Clients : \/ t \in holders
                                       \/ pc[t] = "fin_spin"
                                       \/ pc[t] = "fin_test" /\ saw[t] = puts

\* The queue holds the numbers that follow m_gets, one by one, and the writer
\* has the last one taken.
TakenInv ==
    /\ Taken \in Nat
    /\ \A i \in DOMAIN queue : queue[i] = Taken + i
    /\ rec # 0 => rec = Taken

\* The list is in the order of registration; a filter that was not replaced
\* still passes all.
ListInv ==
    \A i \in DOMAIN sinkList :
        /\ sinkList[i].id \in DOMAIN given
        /\ sinkList[i].steady => sinkList[i].passes
        /\ \A j \in DOMAIN sinkList : j < i => sinkList[j].id < sinkList[i].id

\* No sink has a record that was not taken.
GivenInv ==
    /\ GivenInOrder
    /\ \A i \in DOMAIN given : \A j \in DOMAIN given[i] : given[i][j] <= Taken

\* The record in the writer's hand goes down the list: the registrations it
\* has yet to come to, and those it has passed.
Ahead(r) == wpc = "lock" \/ (wpc \in {"filter", "write"} /\ r.id >= using.id)
Passed(r) == wpc = "unlock" \/ (wpc \in {"filter", "write"} /\ r.id < using.id)

RoundInv ==
    \A i \in DOMAIN sinkList :
        LET r == sinkList[i]
        IN  /\ Ahead(r) => \A j \in DOMAIN given[r.id] : given[r.id][j] < rec
            /\ Passed(r) /\ r.steady /\ r.since < rec
                  => \E j \in DOMAIN given[r.id] : given[r.id][j] = rec

RecordInv == DrainInv /\ TakenInv /\ ListInv /\ GivenInv /\ RoundInv /\ NoneSkipped

\* What a flush() has read is not older than its call.
FlushInv ==
    \A t \in Clients :
        /\ pc[t] \in {"spin", "fin_spin", "spin_test", "fin_test"} => asked[t] <= puts
        /\ pc[t] \in {"spin_test", "fin_test"} => asked[t] <= saw[t] /\ saw[t] <= puts
=============================================================================
