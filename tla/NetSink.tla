------------------------------ MODULE NetSink ------------------------------
(***************************************************************************)
(* The network sink of user-mode builds, Trace.NetSink_win32.cxx.  Its     *)
(* requests are asynchronous sends: the completion routine runs as an APC  *)
(* of the thread that issued them, the trace library's writer thread, and  *)
(* only while that thread is in an alertable wait.  A client closes the    *)
(* sink: by unregistering it, under the mutex of the trace library, or in  *)
(* finalize(), once the writer thread is gone.                             *)
(***************************************************************************)
EXTENDS Naturals, Sequences, SequencesExt

CONSTANTS Tcp,          \* TRUE: createTcpSink(), FALSE: createUdpSink()
          MaxRequests,  \* bound: requests the sink makes
          SendMayFail,  \* a send may fail at once, as after a lost connection
          CloseLive     \* the sink may be unregistered while the writer runs

NetSinkAssumption ==
    /\ MaxRequests \in Nat
    /\ {Tcp, SendMayFail, CloseLive} \subseteq BOOLEAN

VARIABLES socket,       \* m_socket: "none" or "open"
          connected,    \* m_connected
          terminating,  \* m_terminating
          terminated,   \* the event m_terminated
          throttled,    \* less than 5 s since m_lastReconnectAttempt
          pending,      \* m_pending, the list of requests
          alive,        \* requests whose memory is allocated
          io,           \* of each request: "failed", "flight", "done", "over"
          wpc, urgent,  \* the writer thread, and the level of its record
          cpc,          \* the client that closes the sink
          lock          \* the trace library's mutex

vars == <<socket, connected, terminating, terminated, throttled, pending,
          alive, io, wpc, urgent, cpc, lock>>
sock == <<socket, connected, terminating, terminated>>
reqs == <<pending, alive, io>>

Requests == 1 .. Len(io)

Init ==
    /\ socket = "none"
    /\ connected = FALSE /\ terminating = FALSE /\ terminated = FALSE
    /\ throttled = FALSE
    /\ pending = <<>> /\ alive = {} /\ io = <<>>
    /\ wpc = "wait" /\ urgent = FALSE /\ cpc = "idle" /\ lock = "none"

----------------------------------------------------------------------------
(* The writer thread and write(). *)

TakeRecord ==
    /\ wpc = "wait" /\ cpc # "join"
    /\ wpc' = "lock"
    /\ urgent' \in BOOLEAN
    /\ UNCHANGED <<sock, throttled, reqs, cpc, lock>>

\* Once it is unregistered the list has no such sink any more.
LockList ==
    /\ wpc = "lock" /\ lock = "none"
    /\ IF cpc \in {"idle", "join"} THEN wpc' = "socket" /\ lock' = "writer"
                       ELSE wpc' = "wait" /\ UNCHANGED lock
    /\ UNCHANGED <<sock, throttled, reqs, urgent, cpc>>

UnlockList ==
    /\ wpc = "unlock"
    /\ wpc' = "wait" /\ lock' = "none"
    /\ UNCHANGED <<sock, throttled, reqs, urgent, cpc>>

\* _checkSocket(): creating, binding and looking up ConnectEx may fail.
CheckSocket ==
    /\ wpc = "socket"
    /\ IF socket = "open"
       THEN UNCHANGED <<socket, terminating, terminated>>
       ELSE /\ terminating' = FALSE /\ terminated' = FALSE
            /\ socket' \in {"open", "none"}
    /\ wpc' = CASE socket' = "none" -> "unlock"
                [] socket' = "open" /\ Tcp -> "connection"
                [] OTHER -> "send"
    /\ UNCHANGED <<connected, throttled, reqs, urgent, cpc, lock>>

\* _checkConnection() up to ConnectEx.  A call that is not pending, be it an
\* error or a success at once, leaves m_connected FALSE.
CheckConnection ==
    /\ wpc = "connection"
    /\ \/ connected /\ wpc' = "send" /\ UNCHANGED throttled
       \/ ~connected /\ throttled /\ ~urgent /\ wpc' = "unlock"
          /\ UNCHANGED throttled
       \/ /\ ~connected /\ (throttled => urgent)
          /\ throttled' = TRUE
          /\ wpc' \in {"connect", "unlock"}
    /\ UNCHANGED <<sock, reqs, urgent, cpc, lock>>

\* The alertable wait for the connection ends.
ConnectDone ==
    /\ wpc = "connect"
    /\ \/ connected' = TRUE /\ wpc' = "send"
       \/ UNCHANGED connected /\ wpc' = "unlock"
    /\ UNCHANGED <<socket, terminating, terminated, throttled, reqs, urgent,
                   cpc, lock>>

NewRequest(state) ==
    /\ Len(io) < MaxRequests
    /\ io' = Append(io, state)
    /\ alive' = alive \cup {Len(io) + 1}
    /\ pending' = Append(pending, Len(io) + 1)

\* packRecord() may have no memory.
NoRequest ==
    /\ wpc = "send" /\ wpc' = "unlock"
    /\ UNCHANGED <<sock, throttled, reqs, urgent, cpc, lock>>

\* Even a send that succeeds at once completes through its routine.
Send ==
    /\ wpc = "send" /\ wpc' = "unlock"
    /\ \E state \in {"flight", "done"} : NewRequest(state)
    /\ UNCHANGED <<sock, throttled, urgent, cpc, lock>>

\* req was detached when it entered the list: storing the error through it
\* ends the process.
SendFails ==
    /\ SendMayFail
    /\ wpc = "send" /\ wpc' = "crashed"
    /\ NewRequest("failed")
    /\ UNCHANGED <<sock, throttled, urgent, cpc, lock>>

\* Thread exit cancels the thread's I/O and drops its APCs.
WriterExits ==
    /\ wpc = "wait" /\ cpc = "join"
    /\ wpc' = "exited"
    /\ io' = [r \in Requests |-> IF io[r] \in {"flight", "done"} THEN "over"
                                 ELSE io[r]]
    /\ UNCHANGED <<sock, throttled, pending, alive, urgent, cpc, lock>>

----------------------------------------------------------------------------
(* The system: the network, the clock, the delivery of APCs. *)

IoDone(r) ==
    /\ io[r] = "flight"
    /\ io' = [io EXCEPT ![r] = "done"]
    /\ UNCHANGED <<sock, throttled, pending, alive, wpc, urgent, cpc, lock>>

TimePasses ==
    /\ throttled /\ throttled' = FALSE
    /\ UNCHANGED <<sock, reqs, wpc, urgent, cpc, lock>>

\* Where a request is in the list, whose links are in the request itself.
Place(r) == CHOOSE i \in DOMAIN pending : pending[i] = r

\* Mutant: the list is looked at before the request leaves it.
CompleteLooksFirst(r) ==
    /\ wpc \in {"wait", "connect"}
    /\ io[r] = "done"
    /\ io' = [io EXCEPT ![r] = "over"]
    /\ pending' = SelectSeq(pending, LAMBDA q : q # r)
    /\ alive' = alive \ {r}
    /\ terminated' = (terminated \/ (pending = <<>> /\ terminating))
    /\ UNCHANGED <<socket, connected, terminating, throttled, wpc, urgent,
                   cpc, lock>>

\* _completionProc(); of a request that was freed it is undefined, and taken
\* here to change nothing.
Complete(r) ==
    /\ wpc \in {"wait", "connect"}
    /\ io[r] = "done"
    /\ io' = [io EXCEPT ![r] = "over"]
    /\ IF r \in alive
       THEN /\ pending' = RemoveAt(pending, Place(r))
            /\ alive' = alive \ {r}
            /\ terminated' = (terminated \/ (pending' = <<>> /\ terminating))
       ELSE UNCHANGED <<pending, alive, terminated>>
    /\ UNCHANGED <<socket, connected, terminating, throttled, wpc, urgent,
                   cpc, lock>>

----------------------------------------------------------------------------
(* The client: the last reference goes, ~NetSinkImpl() calls _closeSocket(). *)

\* unregisterSink() destroys the registration under the mutex.
Unregister ==
    /\ CloseLive
    /\ cpc = "idle" /\ lock = "none" /\ wpc # "crashed"
    /\ cpc' = "close" /\ lock' = "client"
    /\ UNCHANGED <<sock, throttled, reqs, wpc, urgent>>

\* finalize(), from its alert to its join.
Finalize ==
    /\ cpc = "idle" /\ wpc # "crashed"
    /\ cpc' = "join"
    /\ UNCHANGED <<sock, throttled, reqs, wpc, urgent, lock>>

Joined ==
    /\ cpc = "join" /\ wpc = "exited"
    /\ cpc' = "close"
    /\ UNCHANGED <<sock, throttled, reqs, wpc, urgent, lock>>

\* Mutant: the client waits whether or not there is I/O to cancel.
CloseBeginWaits ==
    /\ cpc = "close" /\ socket = "open"
    /\ connected' = FALSE /\ terminating' = TRUE
    /\ cpc' = "await"
    /\ UNCHANGED <<socket, terminated, throttled, reqs, wpc, urgent, lock>>

\* CancelIoEx() is TRUE if it found I/O in flight; then the client waits.
CloseBegin ==
    /\ cpc = "close" /\ socket = "open"
    /\ connected' = FALSE /\ terminating' = TRUE
    /\ cpc' = IF \E r \in Requests : io[r] = "flight" THEN "await" ELSE "free"
    /\ UNCHANGED <<socket, terminated, throttled, reqs, wpc, urgent, lock>>

CloseWait ==
    /\ cpc = "await" /\ terminated
    /\ cpc' = "free"
    /\ UNCHANGED <<sock, throttled, reqs, wpc, urgent, lock>>

\* Mutant: the loop is forgotten.
CloseEndKeepsRequests ==
    /\ cpc = "free" \/ (cpc = "close" /\ socket = "none")
    /\ socket' = "none" /\ pending' = <<>>
    /\ lock' = IF lock = "client" THEN "none" ELSE lock
    /\ cpc' = "gone"
    /\ UNCHANGED <<connected, terminating, terminated, throttled, alive, io,
                   wpc, urgent>>

\* closesocket() and the loop that deletes the pending requests.
CloseEnd ==
    /\ cpc = "free" \/ (cpc = "close" /\ socket = "none")
    /\ socket' = "none"
    /\ pending' = <<>> /\ alive' = alive \ ToSet(pending)
    /\ lock' = IF lock = "client" THEN "none" ELSE lock
    /\ cpc' = "gone"
    /\ UNCHANGED <<connected, terminating, terminated, throttled, io, wpc,
                   urgent>>

----------------------------------------------------------------------------
WriterStep ==
    \/ TakeRecord \/ LockList \/ UnlockList \/ CheckSocket \/ CheckConnection
    \/ NoRequest \/ Send \/ SendFails \/ WriterExits

ClientStep == Joined \/ CloseBegin \/ CloseWait \/ CloseEnd

Next ==
    \/ WriterStep \/ ConnectDone
    \/ ClientStep \/ Unregister \/ Finalize
    \/ TimePasses
    \/ \E r \in Requests : IoDone(r) \/ Complete(r)

Spec == Init /\ [][Next]_vars

\* Threads are scheduled and an attempt to connect ends, if only by the
\* timeout of the protocol; I/O need not complete.
FairSpec ==
    /\ Spec
    /\ WF_vars(WriterStep) /\ WF_vars(ClientStep) /\ WF_vars(ConnectDone)

----------------------------------------------------------------------------
(* Properties. *)

TypeOK ==
    /\ socket \in {"none", "open"}
    /\ {connected, terminating, terminated, throttled, urgent} \subseteq BOOLEAN
    /\ io \in Seq({"failed", "flight", "done", "over"})
    /\ Len(io) <= MaxRequests
    /\ alive \subseteq Requests /\ pending \in Seq(Requests)
    /\ wpc \in {"wait", "lock", "socket", "connection", "connect", "send",
                "unlock", "crashed", "exited"}
    /\ cpc \in {"idle", "join", "close", "await", "free", "gone"}
    /\ lock \in {"none", "writer", "client"}
    /\ lock = "writer" <=> wpc \in {"socket", "connection", "connect", "send",
                                    "unlock", "crashed"}

\* A completion routine yet to run will find its request in the list and its
\* memory allocated (the ownership _completionProc takes at line 219, and the
\* assertion of IntrusiveList::erase): nothing frees a request before.
CompletionFindsRequest ==
    \A r \in Requests : io[r] \in {"flight", "done"} =>
        r \in alive /\ r \in ToSet(pending)

\* The list of pending requests is the memory the sink holds: a request is in
\* it once, is freed when it leaves it, and the end of the sink leaves none.
PendingIsAllocated ==
    /\ ToSet(pending) = alive
    /\ IsInjective(pending)
    /\ cpc = "gone" => alive = {}

\* The wait for a connection, which is alertable, never meets a completion of
\* this sink, and so is never given up with ConnectEx's OVERLAPPED, a local of
\* _checkConnection(), still in use.
ConnectsUndisturbed ==
    wpc = "connect" => pending = <<>> /\ ~terminating

\* The client that waits for m_terminated (line 271) is told of the last
\* completion: as long as it was not, a completion is still to come.
TerminationIsSignalled ==
    cpc = "await" => terminated \/ \E r \in Requests : io[r] \in {"flight", "done"}

\* finalize() gets rid of the sink, whatever its sends and connections do,
\* unless a send that failed has ended the process (SendFails).
SinkIsClosed == cpc = "join" ~> cpc = "gone" \/ wpc = "crashed"
=============================================================================
