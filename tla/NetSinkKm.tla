----------------------------- MODULE NetSinkKm -----------------------------
(***************************************************************************)
(* The network sink of kernel-mode builds, Trace.NetSink_nt.cxx.  Unlike   *)
(* in user mode a send completes at any moment, above whatever runs or on  *)
(* another processor: its routine takes the request out of m_pending with  *)
(* no lock.  The sink is written to by the writer thread and destroyed by  *)
(* a client, in turn: the client has the mutex of the trace library or has *)
(* joined the writer.                                                      *)
(*                                                                         *)
(* Linking a request and unlinking it take two steps each, between which   *)
(* anything may happen.  If another operation on m_pending begins there,   *)
(* their loads and stores race and what the list is then is undefined: it  *)
(* is torn, and the model ends.                                            *)
(***************************************************************************)
EXTENDS Naturals, FiniteSets, Functions

CONSTANTS Tcp,           \* TRUE: createTcpSink(), FALSE: createUdpSink()
          MaxRequests,   \* bound: sends
          CloseMayFail,  \* there may be no memory for the request to close
          Root, Null     \* of the list

NetSinkKmAssumption ==
    /\ MaxRequests \in Nat
    /\ {Tcp, CloseMayFail} \subseteq BOOLEAN
    /\ {Root, Null} \cap (1 .. MaxRequests) = {} /\ Root # Null

VARIABLES pc, urgent,    \* the thread in the sink, and the level of its record
          socket,        \* m_socket: "none", "unbound" or "open"
          connected,     \* m_connected
          throttled,     \* less than 5 s since m_lastReconnectAttempt
          next, prev, size, pulled,  \* m_pending; the last request pulled
          tail,          \* the last request, as push_back() found it
          alive,         \* requests whose memory is allocated
          io,            \* of each request: "new", "flight", "erase" or "over"
          torn           \* two operations on m_pending have overlapped

state == <<urgent, socket, connected, throttled>>
list == <<next, prev, size, pulled>>
reqs == <<list, tail, alive, io, torn>>
vars == <<pc, state, reqs>>

Requests == 1 .. MaxRequests
InFlight(r) == io[r] \in {"flight", "erase"}
Erasing == {r \in Requests : io[r] = "erase"}
NewRequest == Cardinality({r \in Requests : io[r] # "new"}) + 1

\* The list of requests, link by link.
Pending == INSTANCE IntrusiveList WITH Nodes <- Requests
Listed == Range(Pending!Walk) \ {Null}

Init ==
    /\ pc = "idle" /\ urgent = FALSE
    /\ socket = "none" /\ connected = FALSE /\ throttled = FALSE
    /\ Pending!Init
    /\ tail = Root /\ alive = {} /\ io = [r \in Requests |-> "new"]
    /\ torn = FALSE

----------------------------------------------------------------------------
(* write(), in the writer thread. *)

\* _checkSocket(): creating and binding may fail.  A socket that cannot be
\* bound is closed, or stays when there is no memory for that.
CheckSocket ==
    /\ pc = "idle" /\ urgent' \in BOOLEAN
    /\ IF socket # "none" THEN UNCHANGED socket
       ELSE socket' \in {"none", "open"} \cup
                        (IF CloseMayFail THEN {"unbound"} ELSE {})
    /\ pc' = IF socket' = "none" \/ (socket = "none" /\ socket' = "unbound")
             THEN "idle" ELSE IF Tcp THEN "connection" ELSE "send"
    /\ UNCHANGED <<connected, throttled, reqs>>

\* _checkConnection() up to WskConnect(), which may fail at once, as the
\* request for it may.
CheckConnection ==
    /\ pc = "connection"
    /\ \/ connected /\ pc' = "connected" /\ UNCHANGED throttled
       \/ ~connected /\ throttled /\ ~urgent /\ pc' = "idle"
          /\ UNCHANGED throttled
       \/ /\ ~connected /\ (throttled => urgent)
          /\ throttled' = TRUE
          /\ pc' \in {"connect", "connected"}
    /\ UNCHANGED <<urgent, socket, connected, reqs>>

ConnectDone ==
    /\ pc = "connect" /\ pc' = "connected"
    /\ connected' \in {connected, socket = "open"}
    /\ UNCHANGED <<urgent, socket, throttled, reqs>>

\* m_connected is read again to be returned.
Connected ==
    /\ pc = "connected" /\ pc' = IF connected THEN "send" ELSE "idle"
    /\ UNCHANGED <<state, reqs>>

\* No memory for the record, its request or what belongs to it.
NoRequest ==
    /\ pc = "send" /\ pc' = "idle"
    /\ UNCHANGED <<state, reqs>>

\* packRecord(), and push_back() reads the end of the list.
MakeRequest ==
    /\ pc = "send" /\ pc' = "link"
    /\ NewRequest \in Requests
    /\ alive' = alive \cup {NewRequest} /\ tail' = prev[Root]
    /\ torn' = (Erasing # {})
    /\ UNCHANGED <<state, list, io>>

\* Mutant: the request is sent, and may complete, before it is in the list.
SendBeforeLink ==
    /\ pc = "link" /\ pc' = "idle"
    /\ \/ /\ Pending!Add(NewRequest, tail, Root)
          /\ io' = [io EXCEPT ![NewRequest] = "flight"]
          /\ UNCHANGED <<alive, pulled>>
       \/ /\ io' = [io EXCEPT ![NewRequest] = "over"]
          /\ alive' = alive \ {NewRequest}
          /\ Pending!Add(NewRequest, tail, Root) /\ UNCHANGED pulled
    /\ UNCHANGED <<state, tail, torn>>

\* push_back() links the request; WskSend() or WskSendTo().  Whatever they
\* return, the request completes through its routine.
Send ==
    /\ pc = "link" /\ pc' = "idle"
    /\ Pending!Add(NewRequest, tail, Root)
    /\ io' = [io EXCEPT ![NewRequest] = "flight"]
    /\ UNCHANGED <<state, pulled, tail, alive, torn>>

----------------------------------------------------------------------------
(* The system: completions, and the clock. *)

\* _ioReqIrpCompletion() up to the loads of erase(): a result of no bytes means
\* a connection lost.  Of a request that was freed or is not in the list the
\* rest is undefined, and taken here to do nothing.
CompleteBegin(r) ==
    /\ io[r] = "flight"
    /\ connected' \in {connected, FALSE}
    /\ IF r \in alive \cap Listed
       THEN /\ io' = [io EXCEPT ![r] = "erase"]
            /\ torn' = (pc = "link" \/ Erasing # {})
       ELSE io' = [io EXCEPT ![r] = "over"] /\ UNCHANGED torn
    /\ UNCHANGED <<pc, urgent, socket, throttled, list, tail, alive>>

\* erase() unlinks the request, which is freed.
Complete(r) ==
    /\ io[r] = "erase" /\ io' = [io EXCEPT ![r] = "over"]
    /\ Pending!Delete(r) /\ alive' = alive \ {r}
    /\ UNCHANGED <<pc, state, pulled, tail, torn>>

TimePasses ==
    /\ throttled /\ throttled' = FALSE
    /\ UNCHANGED <<pc, urgent, socket, connected, reqs>>

----------------------------------------------------------------------------
(* ~NetSinkImpl() and _closeSocket(), in the client. *)

Destroy ==
    /\ pc = "idle" /\ pc' = "close"
    /\ UNCHANGED <<state, reqs>>

\* m_connected is cleared first, so nothing is ever disconnected (473).
CloseBegin ==
    /\ pc = "close" /\ connected' = FALSE
    /\ \/ socket # "none" /\ pc' = "closing"
       \/ (socket = "none" \/ CloseMayFail) /\ pc' = "free"
    /\ UNCHANGED <<urgent, socket, throttled, reqs>>

\* The provider completes the close when no request is left on the socket.
CloseDone ==
    /\ pc = "closing" /\ \A r \in Requests : ~InFlight(r)
    /\ socket' = "none" /\ pc' = "free"
    /\ UNCHANGED <<urgent, connected, throttled, reqs>>

\* A turn of the loop: the next request is pulled, the one before freed.
Free ==
    /\ pc = "free"
    /\ Pending!pull_front
    /\ alive' = alive \ {pulled}
    /\ torn' = (Erasing # {})
    /\ pc' = IF pulled' = Null THEN "gone" ELSE "free"
    /\ UNCHANGED <<state, tail, io>>

----------------------------------------------------------------------------
Write ==
    \/ CheckSocket \/ CheckConnection \/ ConnectDone \/ Connected
    \/ NoRequest \/ MakeRequest \/ Send

Close == CloseBegin \/ CloseDone \/ Free

Next ==
    /\ ~torn
    /\ \/ Write \/ Destroy \/ Close
       \/ TimePasses
       \/ \E r \in Requests : CompleteBegin(r) \/ Complete(r)

Spec == Init /\ [][Next]_vars

\* The client is scheduled, closing a socket ends what is left on it, and a
\* completion that runs comes to its end.
FairSpec ==
    /\ Spec
    /\ WF_vars(~torn /\ Close)
    /\ \A r \in Requests :
         /\ WF_vars(~torn /\ pc = "closing" /\ CompleteBegin(r))
         /\ WF_vars(~torn /\ Complete(r))

----------------------------------------------------------------------------
(* Properties. *)

TypeOK ==
    /\ pc \in {"idle", "connection", "connect", "connected", "send", "link",
               "close", "closing", "free", "gone"}
    /\ {urgent, connected, throttled, torn} \subseteq BOOLEAN
    /\ socket \in {"none", "unbound", "open"}
    /\ Pending!TypeOK /\ (torn \/ Pending!LinksMatch)
    /\ alive \subseteq Requests
    /\ tail \in Requests \cup {Root}
    /\ io \in [Requests -> {"new", "flight", "erase", "over"}]

\* A send that completes finds its request allocated and in the list, as
\* IntrusiveList::erase() asserts of line 272, and unlinks it there; up to the
\* first overlap of two operations on the list.
CompletionFindsRequest ==
    torn \/ \A r \in Requests : InFlight(r) => r \in alive \cap Listed

\* Up to the first overlap the list is what is in flight, and with the request
\* being made all that is allocated: each is freed by its completion and none
\* is left to the loop that deletes pending requests (522), nor any I/O when the
\* sink is gone.
PendingIsInFlight ==
    LET flight == {r \in Requests : InFlight(r)} IN
    torn \/ /\ Listed = flight
            /\ alive = flight \cup (IF pc = "link" THEN {NewRequest} ELSE {})
            /\ pc = "gone" => flight = {}

\* The destructor returns, whether or not the socket can be closed, unless two
\* operations on the list overlap.
SinkIsClosed == pc = "close" ~> pc = "gone" \/ torn
=============================================================================
