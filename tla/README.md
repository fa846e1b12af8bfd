# TLA+ models of Sketch

Sketch is a C++ base library for Windows that is built twice, for programs (UM)
and for drivers (KM), with a viewer for the traces the library sends
(`SkTracer`).  This directory has the models of its concurrent parts, the
instances TLC checks, and the proofs TLAPS checks.  `include/SkBase/X` of the
repository is written `SkBase/X` below when there is no doubt.

Contents: 1 the system, 2 the modules and how they follow the code, 3 the runs,
4 bounds and fairness, 5 the proofs, 6 where code and text disagree, 7 what is
left out, 8 the plan.

## 1. The system

| Component | State it keeps | Operations | What is hard |
| --- | --- | --- | --- |
| `Queue` (`SkBase/Queue.hxx`) | ring of slots, `m_puts`, `m_gets` | `push`, `pop`, `empty`, `size` | any number of threads, no lock; three atomic words that move one after the other |
| Trace dispatcher (`src/SkBase/Trace.cxx`) | `g_RefCount`, the globals: queue, sink list, mutex, event, stop flag, writer thread | `initialize`, `finalize`, `registerSink`, `unregisterSink`, `setFilter`, `setFormatter`, `flush`, `write`; the writer's loop | clients against the writer thread; one auto-reset event; APCs; tear-down |
| Sinks: debugger, file, network | network: socket, `m_connected`, list of pending requests, start of the last attempt | `write`, completion routines, close | completions run inside alertable waits (UM) or on other processors (KM); throttled reconnecting |
| `RefCount`, `IRefCounted`, `RefCountedPtr`, `SharedData` | a count per object | `increment`, `decrement`, `lock`, `unlock`, pointer operations | last release against a late reference; `lock_scope` guesses ownership from the count |
| `String`, `Utf8String` | a pointer to a shared, counted buffer | copy, move, assign, `append`, destroy | copies in several threads; changing in place when nobody else has the buffer |
| `RundownGuard` (`SkBase/Rundown.hxx`) | one word: count, or a mark | `increment`, `decrement`, `wait` | compare-and-exchange loops whose comparand is read once |
| Library initialization (`src/SkBase/init.cxx`) | a count, the table of initializers | `initialize`, `finalize` | rollback after a failure |
| Spinlock, Mutex, Event, RwLock, Thread, Timer | system objects | lock, wait, alert, join, cancel | owner checks; `cancel` against the callback |
| Heaps, `DebugHeap` | list of blocks, counters | `allocate`, `free` | the counters against the list |
| Containers: `IntrusiveList`, `CircularBuffer`, `HashMap`, `Vector` | links, ring indices, buckets, which slots have objects | insert, erase, rehash, linearize, change of capacity | links, wrapping, lifetimes of elements, chains of equal hashes |
| `TcpServer`, `UdpServer` (`SkTracer`) | listening socket, list of clients, watchdog's event | accept, receive, disconnect, reap | client threads end while the watchdog and the destructor reap them |
| Record database (`SkTracer/MainDlg.cpp`) | queue of records, the posted message, all records, filtered records | receive, discard, clear, filter | one window message for a queue that many threads fill; two lists that must agree |
| Service application (`SkService`) | reported state | start, stop, report | the control handler's thread against `main` |
| Time, random, registry, COM, console, DLL and driver frames, command line, errors | little or none | wrappers | nothing a model would show |

How they interact.  Clients of the trace call `write`, which formats a record,
pushes it into the `Queue` and sets an event.  The writer thread waits
alertably for the event, pops records and, under the mutex, offers each to the
filter, formatter and sink of every registration.  `registerSink` and its like
take the same mutex.  `finalize` flushes, drops its reference, and the last one
sets the stop flag, alerts and joins the writer and destroys the globals.  The
network sink starts asynchronous I/O from the writer thread, so its completion
routines run on that thread, in the writer's own alertable wait.  `SkTracer`
receives the records (`TcpServer`, `UdpServer`) and its own (`LocalSink`), and
its window keeps the lists; it unregisters `LocalSink` in `OnDestroy`
(MainDlg.cpp:442) just before the object goes away.

What makes each part correct:

* `Queue`: no pointer lost, none handed out twice; "full" and "empty" are said
  only when true; first in, first out; no thread waits for another.
* Trace: a sink is not called after `unregisterSink` returned; the globals
  outlive every call and the writer; each sink is given every record put since
  it was registered, once and in order; `flush` and `finalize` leave nothing
  behind; `finalize` ends; no wakeup is lost.
* Network sink: every request is completed, freed and out of the list exactly
  once; no I/O outlives the sink; closing ends; a lost connection is tried again.
* Strings: a shared buffer is freed once, by its last user, and sharing is not
  seen.  `RundownGuard`: after `wait` nobody is inside and nobody comes in.
* Initialization: what was initialized is finalized, in the reverse order.
* `DebugHeap`: the counters are those of the list.  `Timer`: no callback after
  `cancel`.  Containers: each is the list or map it stands for, and its objects
  live exactly where its members say.
* Servers: each client has one owner, dead ones are reaped; after the destructor,
  which ends, no thread runs and no callback comes.
* Record database: what is shown is what passes the filters of what is kept, and
  no more than the limit is kept.
* Service application: the last state reported is the service's.

The hazards the code is exposed to are in `PROJECT.json`, each at its line, with
the properties that would catch it going wrong, and a note where a property is
checked under a restriction or there is none.

## 2. The modules

    BoundedFifo   what a bounded first-in-first-out queue promises
       ^ implemented by (QueueFifo!ImplementsFifo, for one consumer)
    Queue  <---  QueueFifo  <---  MCQueue
                    ^
                 QueueProofs

    Trace  <---  MCTrace
       ^
    TraceProofs

    MCServices    instances, side by side, of
                  NetSink (TCP, UDP), NetSinkKm (TCP, UDP; its list is an
                  instance of IntrusiveList), TcpServer, UdpServer, Records,
                  DebugHeap, Timer, Rundown
    MCObjects     instances, side by side, of
                  SharedString   implements StringValues
                  IntrusiveList  implements ListOps
                  Vector         implements ListCalls
                  CircularBuffer implements RingOps
                  HashMap        implements MapCalls
                  Rundown        implements RundownGate
                  Library

    RingLemmas    rings of links, the sequences they stand for, and loops
       ^
       +--  ServicesProofs      about MCServices: timer, heap, window, guard
       |       +--  NetworkProofs      sinks and servers, and all of MCServices
       +--  ObjectsProofs       about MCObjects: guard, library, strings, list, vector
       +--  BufferProofs        about MCObjects: CircularBuffer
               +--  MapProofs          HashMap, and (with ObjectsProofs) all of MCObjects

`Trace` has its queue as a sequence.  That is justified by `ImplementsFifo`:
the dispatcher's queue has one consumer at a time (the writer, and `finalize`
once the writer is joined), and with one consumer every `push` and `pop` of the
ring takes effect at one instant.  The code of `flush` reads the two counters
one after the other, and so does the model.

`MCServices` and `MCObjects` check small components that share no state in one
run each.  A variable `part`, chosen by the initial state and kept, names the
component that moves; the others rest in their initial state.  The graph of the
run is the disjoint union of the components' graphs, so that every property is
checked as if its component were alone, and a property of several components is
one of each.  `NetSink` and `NetSinkKm` occur twice with other constants, over
the same variables.  Their properties, defined at the end of the two modules, are
conjunctions of those in the components' modules, which say what they mean.

Definitions under a comment that begins with "Mutant" are deliberate
errors next to the definition they distort; nothing uses them but the
mutation runs of `PROJECT.json`.

### Queue

One action per access to shared memory; the program counter names the access to
come.  Numbers are lines of `Queue.hxx`.

| Model | Code |
| --- | --- |
| `slots`, `m_puts`, `m_gets` | `m_queue`, `m_puts`, `m_gets` |
| `cnt[t]`, `val[t]`, `won[t]` | the locals `putCnt`/`getCnt`, `p`/`item`, `res` |
| `free` | pointers no queue and no call has |
| `PushBegin`, `PushReload` | the loads of `m_puts` (84, 104) |
| `PushCheck`, `PushFull` | the test against `m_gets` (86), the way out (106-109) |
| `PushSwap` | the exchange of the slot's tag for the pointer (88-91) |
| `PushAdvance`, `PushReturn` | moving `m_puts`, by winner and loser alike (93-97), the return |
| `PopBegin`, `PopReload`, `PopCheck`, `PopEmpty`, `PopLoad`, `PopSwap`, `PopAdvance`, `PopReturn` | the same of `pop()` (112-158), with the load of the slot (121) apart from its exchange (123) |

Abstractions.  A vacant tag is a hash of the number of the put that may fill the
slot (161-168); here it is that number, so two puts never share a tag.  The
counters do not wrap.  `push` refuses a pointer that looks like a tag (78-82);
no pointer of the model does.  The atomics are sequentially consistent, as the
interlocked operations of x86 and x64 are.  `QueueFifo` maps the ring to
`BoundedFifo`: the contents are the pointers put under the numbers `m_gets ..
m_puts - 1`, a push takes effect when `m_puts` passes its slot (whichever thread
moves it), a pop when `m_gets` does.

### Trace

Numbers are lines of `Trace.cxx`.

| Model | Code |
| --- | --- |
| `refs`, `global`, `stopFlag` | `g_RefCount`, `g_TraceGlobalData != nullptr`, `stopFlag` |
| `queue`, `puts`; `Taken` | `queue` and its `m_puts`; `m_gets` |
| `sinkList`, `locked` | `sinkList`, the mutex `lock` while the writer has it |
| `event`, `alert` | `recordAvailableEvent`, the APC of `Thread::alert()` |
| `writerThread`, `wpc`, `rec`, `using` | the thread object, where the thread is, the record and registration in its hands |
| `holders`, `asked`, `given`, and `since`, `steady` of a registration | history, for the properties |
| `InitBegin`, `InitBuild`, `InitThread`, `InitFail` | `initialize()` 160-191 |
| `FinBegin`, `FinCount`, `FinStop`, `FinAlert`, `FinJoin`, `FinDrain`, `FinClear`, `FinNull` | `finalize()` 193-238 |
| `FlushBegin`, `SpinRead`, `SpinTest` | `flush()` 432-456: test of the globals, load of `m_puts`, load of `m_gets` and comparison |
| `WriteBegin`, `WriteList`, `WritePush`, `WriteSet` | `writeInternalV()` 458-525: null check, unlocked look at the list, push, event |
| `RegisterSink`, `UnregisterSink`, `SetFormatter`, `SetFilter` | 240-430: a section under the mutex |
| `WriterStart` ... `WriterAlerted`, `IoCompletes`, `WriterDrain` | `TraceSinkWriter::run()` 123-143 |
| `WriterPop`, `WriterLock`, `WriterFilter`, `WriterWrite`, `WriterUnlock` | `pumpEvents()` 89-110 |

The client's sections under the mutex are one step each: they touch nothing
outside it but the list, which only the unlocked `empty()` of `write` reads.  The
writer's section is several steps, since it calls filters, formatters and sinks
from inside.  A sink may itself wait alertably (`Trace.NetSink_win32.cxx`
402-405) and so consume the pending alert: `WriterWrite` leaves `alert` or clears
it.  `IoCompletes` is the completion routine of a sink's I/O: it ends the wait
as the alert does.  A record is its number in the order of the puts; its level,
text and allocation, and the "no sinks" output to the debugger, are left out.
Records whose allocation fails are never put.  Clients call the API as the
programs of the repository do: between their own `initialize` and `finalize`,
and, unless `Overlap`, with one thread at a time inside `initialize` or the
`finalize` it may meet.  Sinks do not call back into the API.

### NetSink and NetSinkKm

`NetSink` is `win32/Trace.NetSink_win32.cxx` with the part of the writer's loop
that calls it; `NetSinkKm` is `nt/Trace.NetSink_nt.cxx`.

| Model | Code (UM) | Code (KM) |
| --- | --- | --- |
| `socket`, `connected`, `throttled` | `m_socket`, `m_connected`, less than 5 s since `m_lastReconnectAttempt` | the same; a socket may be made and not yet bound |
| `pending`; `next`, `prev`, `size` | `m_pending` as a sequence | `m_pending` link by link |
| `alive`, `io[r]` | memory of a request; what the system does with it | the same |
| `TakeRecord`, `LockList`, `UnlockList` | the writer around `write()` (`Trace.cxx` 97-138) | `idle` |
| `CheckSocket`, `CheckConnection`, `ConnectDone` | 286-431 | 304-464 |
| `Send`, `NoRequest`, `SendFails` / `MakeRequest`, `Send` | 96-173 | 110-154 |
| `IoDone`, `Complete` / `CompleteBegin`, `Complete` | the system, and `_completionProc` (207-232) in an alertable wait | the completion (246-282), at any moment |
| `Unregister`, `Finalize`, `Joined` / `Destroy` | who drops the last reference | 38-41 |
| `CloseBegin`, `CloseWait`, `CloseEnd` / `CloseBegin`, `CloseDone`, `Free` | `_closeSocket` (260-284) | 467-528 |

A request is a number; its bytes, addresses and error codes are left out, what
can fail fails nondeterministically.  The wait for a connection is a step in
which completions may run.  Of a request that was freed a completion is
undefined; the completion changes nothing then, and the property has caught it.

`m_pending` of the kernel-mode sink has no lock.  `push_back` (123) takes two steps,
the look at the last request (`MakeRequest`) and the links (`Send`), and so does
`erase` (272: `CompleteBegin`, `Complete`); anything may come between them.  If
another operation on the list begins there, their loads and stores race and what
becomes of the list is undefined: `torn` is set and the model ends.  The
properties say "torn, or ...": nothing goes wrong before that, and the race of these
operations is all that goes wrong with the list (section 6).

### TcpServer, UdpServer, Records

`TcpServer` has the accepting worker, the clients' threads, the watchdog and the
destructor of `TcpServer.cpp`, one action per access to what they share: the list
(under `m_lock`), the event, the alert, the flags and the sockets.  A client's
thread starts in its constructor, before the flags that are declared behind it
are initialized (`StartThread`, `InitFlags`: it may find anything in them).  The
members, and with them the clients that are left, are destroyed after the
destructor's body (`dtor` = "members").  `UdpServer` has the one thread of
`UdpServer.cpp` against its destructor; datagrams of three kinds (parse, do not
parse, too short) arrive in any order and number.  The bytes of messages are left
out.

`Records` is the life of a record in `MainDlg.cpp`: `message()` (503-513) queues it
and posts a window message if the queue was empty; `NewRecord` (568-597) takes the
queue into the two vectors; `Discard` (594-610) removes one at a time, with the
handler between two steps (`ui` = "discard"); `OnBnClickedClear` and
`OnBnClickedFilters` rebuild the filtered vector.  Where the loop would leave a
vector (`fault`) the code is undefined and the model stops.

### DebugHeap, Timer, Rundown, Library

`DebugHeap` is `Heap.Debug.hxx` over `Spinlock_win32.hxx`: the exchange of the lock,
the owner's id, the list, and the counters, read and written in two steps; a
block is freed to the heap below after it left the list.  `Timer` is the
user-mode timer: `cancel()` takes the timer out of its queue (`CancelBegin`), then
waits for callbacks (`CancelEnd`); `Fire` and `Returns` are a pool thread's.
`Rundown` has one action per access to the guard's word.  Its loops compare with
a value they read once; in `wait()` that value is always 0, so it spins until
nobody is inside, and its wait block is never used.  A user in `decrement()` whose
value is stale (`Caught`) spins until others make the word that value again.
`RundownGate` is what the guard implements: enter, leave, close.  `Library` is `init.cxx`: the count, the table in
order, the rollback, the finalizers in reverse; one thread at a time calls it.

### SharedString

One action per access to a count (`RefCount.hxx`): copying reads the pointer
(`CopyRead`), then raises the count (`CopyCount`); assigning and destroying release
(`Release`), and the last frees (`Free`); `append()` locks (`AppendLock`), asks
whether the lock is its own (`AppendOwned`), writes in place or goes on to a new
buffer (`AppendAllocate`), and unlocks.  A buffer has its count, text and capacity.
Every thread has strings of its own, and copies those of others, but not one in
the middle of its `append()` unless `CopyDuringAppend`.  `Utf8String` has the same
code.

### IntrusiveList, Vector, CircularBuffer, HashMap

Calls are one step each, over the representation: links and size; the slots of
an array, raw, moved from or with a value; the slots with `m_first`, `m_last` and
`m_size`; buckets with their first node, size, hash and dirty flag, and nodes with
their links.  `CircularBuffer` makes each construction and assignment of a slot by
the code's own test (`is_uninitialized`) and keeps whether it was right (`cb.ok`).
`Vector` growth may fail for memory.  `HashMap` takes the hash as a parameter; the
node `erase()` returns is left out, and the nodes of a rehashed table are numbered
afresh.  Loops over slots
and chains are recursive functions, of the number of steps done.  The abstract modules have the same calls on
sequences, and on a set of keys; `call` is the last call with its answer, so that
the refinement is of each call and what it returns.

Each of the three stays true to its promise only up to a point, which the model
marks.  `strayed` of `Vector` is set by `erase(first, last)` before the last element
(`EraseRange`), by `push_back` of an own element that is moved first (`PushBackOwn`) and by
`insert(p, 0, x)` before an element, where `_move` constructs each element of the tail
on itself and destroys it (550-554, 613-618: `InsertNone`).  `strayed` of
`CircularBuffer` is set when an insertion of several takes a raw slot for an object:
there is room before the first item and behind the last (`Amid`), and items get to the
room before the first, by `rinsert` always, by `insert` if those behind do not fit in
the room behind (`Past`).  The model ends there, for what follows is undefined.
`crowded` of `HashMap` is set when a bucket has three nodes, or two of the same hash
(`~Sparse`).  The map goes on, with every insertion, search and erasure the code
makes, until a chain refers to a freed node (`Intact`), `erase` reads through a null
pointer (`ReadsNull`) or there is a key twice; only `clear` and `rehash` are left out of a
crowded map.  The properties of these modules are about the calls before; that each
mark is needed shows in section 6.  Of an rvalue `_insert_impl` (Vector.hxx 642-656)
moves one value-initialized object into all new elements of `resize`; `Default` is
what value initialization makes and also what is left of it when moved from.

## 3. The runs

| Run | Instance | Shows |
| --- | --- | --- |
| `queue_single` | 2 producers, 1 consumer, 2 slots, 3 pointers, 5 puts; one producer or the consumer is scheduled fairly, the others may stop anywhere | "full" and "empty" are true; the ring implements `BoundedFifo`; `push` and `pop` return all the same: losers move the counters for winners that stopped |
| `queue_multi` | 2 producers, 2 consumers, otherwise the same | types; the counters stay a lap apart at most; no pointer is lost or doubled |
| `queue_empty_two_consumers` | 2 consumers, 1 slot | **violation**: `pop` says empty of a queue that is not (section 6) |
| `queue_tag_two_consumers` | 2 consumers, 1 slot | **violation**: a late `pop` restores a tag no put can match (section 6) |
| `trace_safe` | 2 clients come and go, 2 registrations, 2 formatters, 2 records | sinks are registered while in use; the globals outlive calls; records in order, once, none skipped; nothing thrown away; `flush` takes all put before it |
| `trace_live` | 2 clients, fair | `finalize` returns; every record put is taken |
| `trace_fresh`, `trace_ready` | `initialize` may overlap | **violations** of two assertions of `Trace.cxx` |
| `trace_thread` | `_beginthreadex` may fail | **violation** of an assertion of `Thread_win32.cxx` |
| `services` | `MCServices`, fair | see below |
| `objects` | `MCObjects` | see below |
| `objects_keys` | the same, with keys of one hash | **violation**: the hash map lets a key in twice (section 6) |

`services` shows, component by component:

| Property | Says |
| --- | --- |
| `SinkRequestsAreSound`, `KmRequestsAreSound` | a completion to come finds its request in the list and its memory allocated; the list is what is allocated, each request once; nothing is left when the sink is gone; in the kernel-mode sink until two operations on its list overlap |
| `SinkWaitsAreSound` | the alertable wait for a connection is not disturbed by a completion of the same sink; who waits for `m_terminated` has a completion to come |
| `SinksAreClosed` | `finalize()` gets rid of a user-mode sink, unless a send error has ended the process; the kernel-mode destructor returns even without memory for its own request, unless its list is torn |
| `TcpClientsAreTracked`, `NothingRunsAfter` | a client has one owner, or no thread; a scan of the watchdog that passed a dead client will be repeated; no thread or callback outlives a destructor |
| `DestructorsReturn`, `SignalsAreServed` | destructors end whatever peers do; a client that ends in the list is removed, and a queued record is taken |
| `WindowRecordsAreKept`, `WindowShowsTheNewest` | a queue with records has one window message; records are kept in order, without loss but of the oldest; what is shown is the newest of what passes the filter, up to the first discard |
| `HeapIsSound`, `TimerOnlyTheTimerRuns`, `CallsReturn` | list, counters and owner of the heap's lock agree; no callback after `cancel`; the section under the heap's lock and calls on a timer end, and `wait` of a guard does, unless from some time on there is always a user caught in `decrement` with a stale value |

`objects` shows that the count of a string's buffer is that of its users and that
strings implement `StringValues`; that components come up in order and nothing is
left up after a failure or the last `finalize`; that objects live in a vector up
to its end and that links and size of a list agree (`SequencesAreSound`); that the
circular buffer constructs and assigns each slot rightly, and buckets, chains and
hashes of the map agree (`StorageIsSound`); that the containers implement `ListOps`,
`ListCalls`, `RingOps` and `MapCalls`, vector and circular buffer up to a call that
strays, the map until a bucket is crowded; and that the guard counts its users and implements `RundownGate`.

Properties are defined and explained in the components' modules, in `MCQueue`
and in `MCTrace`.  For each property of a passing run there is a distortion of the
code in `PROJECT.json` under which the same run finds it violated.

## 4. Bounds and fairness

* `MCQueue!MaxPuts` stops new pushes when `m_puts` reaches it.  With 2 slots and
  5 puts every slot is filled for the third time; a thread can be two laps
  late, which is as late as the code's tags can tell apart.  Three pointers for
  two slots make the ring full with one push to be refused.  Two producers are
  enough for a race on a slot and one to help the other.  Two consumers are
  needed, and enough, for the violations.
* `MCTrace`: `MaxInits` = 2 lets the globals be torn down and built again (or
  shared by two holders), `MaxPuts` = 2 lets a record overtake another if the
  code let it, `MaxSinks` = 2 lets a list lose its head while the writer is at
  it, `MaxSets` = 1 replaces one filter or formatter.  `QueueCapacity` = 2, so
  the queue is never full there: a refused put is a record that never was, and
  `trace_safe` says nothing of it.
* `MCServices`: 3 requests let two complete in either order while a third is made;
  2 TCP clients let one die behind the watchdog's iterator, or be destroyed while
  the other is accepted; a window that keeps 3 records and discards 2 at a time
  meets 6; 3 blocks and 2 threads; 3 timers, so that one is armed twice; a guard
  with 2 users, who can catch each other with stale values, in 5 entries.
* `MCObjects`: 2 threads with 2 strings over 2 buffers of at most 2 letters, with
  one letter to spare, so that an append is in place or not; 3 callers and 3
  components, of which any may fail, in 5 calls of `initialize`; 4 nodes; a vector
  of up to 3 elements of 2 values, which grows and fails to; a circular buffer of
  capacity up to 3, at every offset; a table that starts with 3 buckets and grows
  to 7, with 4 keys, of which two have the same hash, two others share a bucket
  in the small table and none in the large one, and three nodes meet in a bucket; a guard with 3 users in 5
  entries.
* Four constants of the components keep known defects of section 6 out of the
  passing runs: `CloseLive` and `SendMayFail` (`NetSink`), `CloseMayFail` (`NetSinkKm`; the
  UDP sink has it and checks that it ends) and `CopyDuringAppend` (`SharedString`).
  `Trivial` (`Vector`) is the kind of element.  Where a defect is in the order of steps or
  calls, nothing is kept out: the model takes the step, and marks it (`torn`,
  `strayed`, `crowded`, section 2).
* Clients, names, formatters, threads and pointers are symmetric sets in the
  safety runs, threads and buffers in `objects`; no liveness run uses symmetry.
* Deadlock is not checked in the trace runs, `services` and `objects`: once the
  bounds are used up, and all have finalized or are destroyed, there is nothing
  left to do.  In the queue runs it is.
* Fairness of `MCQueue!FairSpec`: weak fairness of the one thread `running`, chosen
  from `Running`.  The scheduler runs a ready thread at last; nothing is assumed
  of the others.
* Fairness of `MCServices!FairSpec`, each in its own part: threads are scheduled,
  inside a call; a call on a closed socket fails, while nothing says that a peer
  connects, sends or goes; an attempt to connect ends, if only by the timeout of
  the protocol; the I/O of a closing kernel-mode sink completes, for the close
  cancels it; the window's thread dispatches its messages; who holds the heap's lock goes
  on, while who waits for it may do so for ever, for the spinlock is not fair;
  callbacks of a timer return.  The guard's users stop coming after
  `MaxEntries`, for nothing in the code lets `wait()` ahead of them.
* Fairness of `MCTrace!FairSpec`: weak fairness of the writer's next step and of
  each client's next step inside a call: threads are scheduled, `SwitchToThread`
  yields, a signalled wait ends.  None for beginning a call, and none for
  completions of I/O: no client is obliged to call and no I/O to complete.  The
  mutex needs no strong fairness: each holder leaves it and the only client
  step that waits for it inside a call, `FinClear`, has no rival by then.

## 5. The proofs

TLC's runs are of the small instances above.  The theorems are for every value of
the constants: any number of threads, clients, sinks, requests, connections,
blocks and slots, any capacity and limit.  They use the assumptions that the
modules state about their constants, which TLC evaluates in the runs, and no
others: that sets of threads, clients, nodes, strings and users are finite, that
markers like "no client" are not members, that capacities are positive, that the hash
map has a node for every key.  What
`MCServices` and `MCObjects` fix for their instances (section 4, the four constants
and `Trivial`) holds in the theorems about them too, while the hash is any function
to the naturals; theorems about a state that can be marked speak of it until it is; bounds on the number of calls do not matter.

| Theorem | States |
| --- | --- |
| `QueueProofs!TypeCorrect`, `CountersStayBounded`, `PointersConserved` | `TypeOK`, `CountersBounded`, `ItemsConserved` for any number of producers and consumers |
| `QueueProofs!EmptyAnswersTrue`, `FullAnswersTrue` | `EmptyIsEmpty`, `FullIsFull`, given one consumer |
| `QueueProofs!RingImplementsFifo` | `Spec => Fifo!Spec`, given one consumer: the ring implements `BoundedFifo` |
| `TraceProofs!TypeCorrect`, `GlobalsLive`, `NoUseAfterUnregister` | `TypeOK`, `GlobalsOutliveCalls`, `SinkInUseIsRegistered`, given `~Overlap` |
| `TraceProofs!InOrderAndOnce`, `NoRecordSkipped`, `NoRecordThrownAway` | `GivenInOrder`, `NoneSkipped`, `NothingThrownAway`, given `~Overlap` |
| `TraceProofs!FlushWaitsForAll` | the action property `FlushTakesAll`, given `~Overlap` |
| `ServicesProofs!CancelledTimerIsQuiet`, `HeapIsConsistent` | `TimerOnlyTheTimerRuns`, `HeapIsSound` |
| `ServicesProofs!RecordsAreKept`, `NewestAreShown` | `WindowRecordsAreKept`, `WindowShowsTheNewest` |
| `NetworkProofs!RequestsAreSound`, `WaitsAreSound`, `KmRequestsAreTracked` | `SinkRequestsAreSound`, `SinkWaitsAreSound`, `KmRequestsAreSound` |
| `NetworkProofs!EveryClientIsTracked`, `NothingOutlivesItsServer`, `TypesAreOK` | `TcpClientsAreTracked`, `NothingRunsAfter`, `TypeOK` of `MCServices` |
| `ObjectsProofs!GuardCountsItsUsers`, `GuardIsAGate` | `GuardIsExact`, and that `Rundown` implements `RundownGate` |
| `ObjectsProofs!LibraryKeepsOrder` | `LibraryIsInOrder` |
| `ObjectsProofs!BlocksAreCounted`, `StringsHaveValues` | `StringBlocksAreCounted`, and that `SharedString` implements `StringValues` |
| `ObjectsProofs!SequencesStaySound` | `SequencesAreSound` |
| `ObjectsProofs!ListIsAList`, `VectorIsAList` | `IntrusiveList` implements `ListOps`, `Vector` implements `ListCalls` |
| `BufferProofs!BufferIsARing` | `CircularBuffer` implements `RingOps` |
| `MapProofs!MapTableIsSound`, `MapIsAMap` | the map's part of `StorageIsSound`, and `MapImplementsMap` |
| `MapProofs!ObjectsKeepTypes`, `StorageStaysSound`, `ContainersAreSequences` | `TypeOK` of `MCObjects`, `StorageIsSound`, `ContainersAreLists` |

Each rests on a theorem that an inductive invariant always holds (`...Invariant`);
TLC found that invariant true on the instances above before its proof was
written.  The shape is the same throughout: a lemma that a step keeps the
invariant, with one step for each action, and lemmas for what several need.

*Queue.*  `CountersBounded` is not inductive: the exchange that moves a counter
knows only that the counter still is `cnt`.  `IndInv` adds `Window`, that a check
once passed stays true because both counters only grow, and `CallShape`, what
the locals are worth at each point.  `ItemsConserved` follows by cases on where
each pointer is before the step.  With one consumer, `RingInv` describes every
slot: numbers `m_gets .. m_puts - 1` have pointers (`FilledInv`), later numbers of
the lap have their own tags but for the next one, which a producer may have
filled and not counted (`VacantInv`), only one thread fills it (`AdvanceInv`), and
the consumer is always at the oldest (`ConsumerInv`).  From this each step is a
step of `BoundedFifo` or leaves its state alone; the sequence
`FifoContents` grows at `PushAdvance` and shrinks at `PopAdvance`.

*Trace, the globals.*  `GlobalsOutliveCalls` is not inductive: it does not say why
the last `finalize` finds nobody inside.  `IndInv` adds: `OwnersInv`, that `refs` is
the number of owners, the holders and those that `initialize` or `finalize` still
counts, and only a holder is in an ordinary call; `AloneInv`, that who builds or
tears down the globals is alone in the library; `GlobalsInv`, that owners have the
globals and, when nobody is in, there are none; `WriterInv`, that there is a
writer exactly while there is a valid thread object.  `FinCount` is the core of
it: the count reaches 0 only when the set of owners becomes empty
(`FS_RemoveElement`), so the client that goes on to `fin_stop` is alone.  `AloneInv`
needs `~Overlap`, and the runs `trace_fresh` and `trace_ready` show what happens
without it.  `SinkInUseIsRegistered` needs only that the list changes under the
mutex and that the writer has it from `WriterLock` to `WriterUnlock`.

*Trace, the records.*  `DrainInv` says who will flush: while records wait there is a
holder, or a client in the flush of its `finalize` that has yet to see them taken;
so nothing is left when the count is 0.  `TakenInv` makes the queue
the numbers from `Taken + 1` to `puts`.  `ListInv` keeps registrations in the order
of their numbers, `GivenInv` keeps what each was given below the record in hand,
and `RoundInv` splits the list while the writer is at it into those that have the
record already (`Passed`) and those that do not (`Ahead`): registering adds to
the end, and unregistering or replacing waits for the mutex, so the split stays.
`FlushInv` bounds the values a flush has read.

*Window.*  What arrived is history; kept and waiting records are an end of it, and
what is shown is an end of what of the former passes the filter.  `Passing` is a
recursive function, and what it computes of a concatenation is proved from the
equation of the function and the least index at which the claim would fail
(`LeastNat`).

*Sinks.*  Writer and closing client take turns (`SinkTurnInv`): the client closes
under the mutex, or after the writer's end, and who awaits `m_terminated` has
something in flight.  The kernel-mode sink has links only.  Its invariant says that
*some* sequence of requests is what they represent (`KmRing`); linking and unlinking
act on the sequence.  A completion or a close between the two steps of a `push_back` or
an `erase` tears the list unless it leaves it alone; so, while it is not torn, who is between
the two is the only one, and what it found of the list still holds (`tail`).

*Servers.*  `TcpOwnerInv` gives each client one owner, `TcpPlaceInv` says what is in
each thread's hands, and `TcpScanInv`, that a dead client behind the watchdog's
iterator has set the event or is about to, makes a wakeup impossible to lose.

*Heap, timer, guard, library.*  The counts of the debug heap are related to the
list at each point of their update, by who has the lock.  The guard's word
counts the users at every point of their loops; each exchange that succeeds is the
step of `RundownGate`, and nothing else is.  `Library` relates the count to its
callers, and the table to the index of the one that works on it.

*Strings.*  `StringInv` says of each block that its count is the number of strings
that share it and of calls under way that count, and of each call what it may rely
on (`StringTurn`): while an `append` writes, the count of its block is 2, which are
the string itself and the lock (`OneLocks`: no other call can have the block); who
frees a block is the last to know of it.  Then no step of a thread writes to a block that another string has, which is what
`StringsHaveValues` needs: `ValuesStay` says that blocks in use keep their texts.

*Lists of links.*  `RingOf` says that links, size and root represent a sequence of
distinct nodes.  `RingLemmas` has what both lists need of it: adding a node at either
end and deleting one act on the sequence (`RingAdd`, `RingAddFirst`, `RingDelete`), and
walking the links from the root meets it (`RingWalk`).  The invariant of each list is
that there is such a sequence; it is the one that `ListOps` has in its variable.

*Vector.*  A vector's memory is described slot
by slot (`VectorShape`); for the refinement, the sequence of the values below the
end is shown to be what `Append`, `InsertAt`, `SubSeq` and concatenation make of
it, call by call.

*Room in a block.*  `Strings!TypeOK` says that a text is shorter than its block, for
the zero behind it.  That is not inductive, for `append` tests the room in one step
and writes in another: `StringRoom` adds that between the two there is room for one
letter more, which nobody else takes, by `StringInv`.

*Circular buffer.*  `BufferInv` says that there are a capacity `N` and a sequence `s`
of items which the buffer is (`Becomes`): for some offset `f` the slot `f + i`, round the
end, has the item `i + 1` for `i < Len(s)`, and all other slots are raw; `m_first`, `m_last`
and `m_size` are what `f` and `s` make them; and no slot was ever misused.  A loop of
the code is a recursive function of its steps, and what it has done after `i` of them
is given in closed form (`Written`: the slots of a plan `J` have the values `V`, the
others are as before; `SameLoop` of `RingLemmas`).  For each call a lemma
shows that its slots are distinct, that each is constructed or assigned by
whether it is raw, and that the result is some `At(N, f, s)` again, with the
`s` that the call of `RingOps` has (`InsertItemIs`, `RinsertItemsAre`, `SetCapacityIs`, ...).
The insertion of several items is the hard one: `is_uninitialized` is right about the
slots it is asked of when the items wrap, when they begin at slot 0 (`FreeIs`), or when
none gets past the last slot (`FreeBehindIs`), and `strayed` marks the other cases and no
others: there the very step misuses a slot.  The
loop of `linearize` moves the items in cycles (`LinearizeStepIs`, `LinearizeLoops`).  Its invariant has the items that are
in their place, those still to come and where the next gap is, and a measure that
each round of it decreases bounds the rounds (`EffortIs`).

*Hash map.*  `MapSound` describes each bucket (`BucketSound`: empty, one node, or two
that are linked both ways, of different keys that map to it, the dirty flag set, and
the hash that of the first), each node (`NodeSound`: free, or in the bucket of its
key), the head and the count.  `TableIsSound` is weaker and not inductive: it does
not say that a bucket of two is dirty, on which depends that `insert` searches it.
The invariant `MapInv` is "crowded, or sound": an insertion or a rehash that does not
crowd the table leaves at most two nodes to a bucket, of different hashes.
A chain is a recursive function along links, of which two equations are all that is
needed.  `insert` keeps the soundness by cases on the bucket (`InsertIs`), `erase` by
cases on the place of the node (`EraseIs`), and `clear` and `rehash` by the number of
nodes that are gone or copied.  The mask that picks a bucket is only shown to lie
in the table (`AndBound`).

Only model-checked:

* liveness, which the prover does not do: `CallReturns`, `FinalizeReturns`,
  `PutIsTaken`, `SinksAreClosed`, `DestructorsReturn`, `SignalsAreServed`,
  `CallsReturn`;
* the violations of section 6.

Every invariant and every action property of the passing runs, and every
refinement, is proved.

## 6. Where the code and its text disagree

* `Queue.hxx` with two consumers.  A consumer that loaded a slot and was overtaken
  by a lap swaps the tag of the coming put for one that is over, where the
  comment (142) says the tag was set back to what it should be; and `pop` may
  answer null while a finished push is in a slot.  The trace library has one
  consumer and is not affected: there both properties are proved.
* `Trace.cxx` 172 asserts that there are no globals when the first reference
  builds them; `finalize` takes the count to 0 (197) before it destroys them
  (234-236), and an `initialize` in between builds over them.
* `Trace.cxx` 162 returns true to a second `initialize` before the first has built
  anything; `registerSink` then meets its own assertion (266).
* `initialize` checks that the writer's thread object was allocated, not that it
  has a thread (184); `finalize` then alerts a thread that is not valid
  (`Thread_win32.cxx` 240).

* `HashMap_details.hxx` 671: a second key of the same hash is linked before the
  first node, but the bucket still begins with that node: the new one is never found
  and, against the comment (644, "allow only unique keys"), let in again.

The first needs two consumers, the next two need calls that overlap, the
fourth a system out of threads; no program of the repository does the first three.
Each of these has a run.

The following came up while the other components were modelled.  No text of the
repository says otherwise, so there is no violation run; the models have them
behind the constants named, which the passing runs set to the other value, or
mark them, or stop there.

* `Trace.NetSink_win32.cxx` 156: when a send fails at once the code stores the
  error through `req`, which was detached at 120 (`SendFails`).
* `Trace.NetSink_win32.cxx` 269: a sink that is closed by `unregisterSink` while all
  its sends have finished but their routines have not run frees the requests
  under them (`CloseLive`).  With sends in flight it waits, with the trace
  library's mutex, for the writer to become alertable, which may be waiting
  for that mutex.
* `Trace.NetSink_nt.cxx` 123, 272: completions unlink requests while `push_back`
  links one, or another completion unlinks its neighbour, with no lock (`torn`): requests are
  lost from the list, or freed ones left in it.  494: without memory for the request that closes, requests
  in flight are deleted (`CloseMayFail`).
* `RefCount.hxx` 56, 102: a copy made during an `append()` of the original breaks
  the assertion of `lock_scope` (`CopyDuringAppend`).
* `init.cxx` 68: a failed `initialize()` leaves the count raised.  The next one
  returns true with nothing up; `Heap.cxx` 77 then asserts.
* `TcpServer.cpp` 126: the event is destroyed before the clients that set it.
* `MainDlg.cpp` 598-605: discarding counts filtered records only, and runs out of
  records if there are too few; after Clear (248) it erases from an empty vector.
* `Vector.hxx` 168: elements without a destructor are never erased (`Trivial`); 190:
  objects moved from are not destroyed when a range in the middle is erased;
  446: an element of the vector pushed while it grows is read after it was moved; 613-618
  with 550-554: `insert(position, 0, x)` before an element constructs each element of
  the tail on itself and destroys it, and leaves the end behind them (all three `strayed`).
* `Rundown.hxx` 46-71: `decrement()` reads the word once, before its loop (as does
  `increment()`, 27-42).  Two users whose exchanges both lost may compare with values that
  the word never takes again: both spin for ever, and with them whoever is in `wait()`
  (`Caught`).
* `CircularBuffer.hxx` 853: free slots before `m_first` are taken for used while the
  items do not wrap: inserting several items assigns to them (`strayed`).
* `HashMap_details.hxx` 141, 681: with a third node in a bucket the `prev` of
  the second is left behind, and erasing takes the wrong node's link; 729: erasing
  the first marks the bucket clean, and a key is let in twice, or reads the hash of a
  node that is not there (`crowded`).  1021 frees nodes without destroying what they
  hold; 739 and 772 return the wrong next node.
* `Date.hxx` 321: milliseconds are compared when the minutes are equal, whatever the
  seconds; 336: `operator>` answers what `operator<` does.  (Read, not modelled.)

## 7. What is not modelled

* Of the queue: wrapping of the counters, and tags that collide (their width and
  hash); reordering by processors other than x86 and x64.
* Of the trace: formatting and its buffers, severity levels, failing allocations
  other than the writer's, the full queue's effect on clients, sinks that call
  back, callers without a reference of their own, and the KM build, whose
  `flush` returns at once at DISPATCH level and whose alert is an APC queued to a
  kernel thread.
* Of the sinks: addresses, the text of a record, the file and debugger sinks.
* Of the servers: bytes on the wire, messages split by TCP (the client gives up),
  the reuse of socket numbers, connections whose insertion in the list fails.
* Of the viewer: painting, selection, menus; a `PostMessageW` that fails.
* Of the containers: iterators and their checks, ranges of iterators, copies of a
  whole container, `equal_range`, the node that `erase` of the hash map returns, `clear` and
  `rehash` of a map that was crowded, what a container is after a call that strays; `Array`, `Pair`, `UniquePtr`.
* Of strings: text, conversion, searching.
* Of the debug heap: guard bytes and the heaps below; of spinlock and timer: the
  kernel-mode ones, which are the system's.
* `Mutex`, `Event`, `Thread` as such: their behaviour is in the models that use them.
  `RwLock`, a wrapper, has no user with state.
* `Service`: its states are reported whole, by two threads, to a manager outside
  the repository that alone could mind their order.
* For good: text and conversion (`String`, `Utf8String`, `Error`, `Date`, JSON),
  painting and menus, system calls behind thin wrappers (registry, COM, console,
  process), generated tables (`ntstatus.h`), jansson and the scripts.

## 8. The plan

Done: all modules of section 2, model-checked; and the proofs of section 5, which
leave no safety property of the passing runs unproved.

What further work would take up: the containers and the kernel-mode sink's list
without their marks, once the code keeps its chains, slots and links there (section 6);
the copies of whole containers; the
kernel-mode build of the dispatcher.
