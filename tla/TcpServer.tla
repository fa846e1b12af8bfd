----------------------------- MODULE TcpServer -----------------------------
(***************************************************************************)
(* TcpServer and TcpClient, TcpServer.cpp: the worker accepts connections  *)
(* and makes a TcpClient of each, whose own thread receives; a client that *)
(* ends marks itself dead and sets an event, on which the watchdog erases  *)
(* dead clients, joining their threads; the destructor ends all of them.   *)
(* Reading and writing a plain flag is a step.                             *)
(***************************************************************************)
EXTENDS Naturals, Sequences, FiniteSets

CONSTANTS Clients,  \* bound: connections accepted
          NoClient

TcpServerAssumption == IsFiniteSet(Clients) /\ NoClient \notin Clients

VARIABLES stop,          \* TcpServer::m_stopFlag
          listening,     \* m_soket is open
          worker, new,   \* the worker, and the client in its hands
          watchdog, at,  \* the watchdog, and its iterator
          lock,          \* m_lock: who holds it
          list,          \* m_clients
          event, alert,  \* m_disconnectEvent is set; an APC is queued to the watchdog
          dtor,          \* the destructor; what comes after "joind" is of the members
          victim,        \* the client whose destructor runs, of each destroyer
          client         \* each client: thread, flags, socket

vars == <<stop, listening, worker, new, watchdog, at, lock, list, event,
          alert, dtor, victim, client>>

Destroyers == {"watchdog", "dtor"}

Init ==
    /\ stop = FALSE /\ listening = TRUE
    /\ worker = "test" /\ new = NoClient
    /\ watchdog = "test" /\ at = 1
    /\ lock = "free" /\ list = <<>>
    /\ event = FALSE /\ alert = FALSE /\ dtor = "idle"
    /\ victim = [d \in Destroyers |-> NoClient]
    /\ client = [c \in Clients |-> [pc |-> "none", stop |-> FALSE,
                                    dead |-> FALSE, open |-> FALSE]]

serverVars == <<stop, listening, dtor, victim>>
watchVars == <<watchdog, at>>

----------------------------------------------------------------------------
WorkerTest ==
    /\ worker = "test"
    /\ worker' = IF stop THEN "exit" ELSE "accept"
    /\ UNCHANGED <<serverVars, watchVars, new, lock, list, event, alert, client>>

\* accept() fails when the socket was closed, and may fail before.
Accept ==
    /\ worker = "accept"
    /\ \/ \E c \in Clients :
            /\ listening /\ client[c].pc = "none"
            /\ new' = c /\ worker' = "construct"
            /\ client' = [client EXCEPT ![c].pc = "accepted", ![c].open = TRUE]
       \/ worker' = "exit" /\ UNCHANGED <<new, client>>
    /\ UNCHANGED <<serverVars, watchVars, lock, list, event, alert>>

\* The thread starts, or cannot be made, before the flags declared after it
\* are initialized: it may find anything in m_stopFlag.
StartThread ==
    /\ worker = "construct" /\ worker' = "init"
    /\ \E p \in {"test", "never"}, s \in BOOLEAN :
         client' = [client EXCEPT ![new].pc = p, ![new].stop = s]
    /\ UNCHANGED <<serverVars, watchVars, new, lock, list, event, alert>>

InitFlags ==
    /\ worker = "init" /\ worker' = "push"
    /\ client' = [client EXCEPT ![new].stop = FALSE, ![new].dead = FALSE]
    /\ UNCHANGED <<serverVars, watchVars, new, lock, list, event, alert>>

Push ==
    /\ worker = "push" /\ lock = "free"
    /\ worker' = "test" /\ list' = Append(list, new) /\ new' = NoClient
    /\ UNCHANGED <<serverVars, watchVars, lock, event, alert, client>>

----------------------------------------------------------------------------
\* Messages go to the callback, which leaves nothing here, and the loop goes on.
ClientTest(c) ==
    /\ client[c].pc = "test"
    /\ client' = [client EXCEPT ![c].pc = IF client[c].stop THEN "dying" ELSE "recv"]
    /\ UNCHANGED <<serverVars, watchVars, worker, new, lock, list, event, alert>>

ClientMessage(c) ==
    /\ client[c].pc = "recv" /\ client[c].open
    /\ client' = [client EXCEPT ![c].pc = "test"]
    /\ UNCHANGED <<serverVars, watchVars, worker, new, lock, list, event, alert>>

\* The peer went, a read was short, or the socket was closed here.
ClientBreak(c) ==
    /\ client[c].pc = "recv"
    /\ client' = [client EXCEPT ![c].pc = "dying"]
    /\ UNCHANGED <<serverVars, watchVars, worker, new, lock, list, event, alert>>

ClientDead(c) ==
    /\ client[c].pc = "dying"
    /\ client' = [client EXCEPT ![c].pc = "notify", ![c].dead = TRUE]
    /\ UNCHANGED <<serverVars, watchVars, worker, new, lock, list, event, alert>>

\* onDisconnect(); the event may be gone with its server (ClientNotify after "joind").
ClientNotify(c) ==
    /\ client[c].pc = "notify"
    /\ client' = [client EXCEPT ![c].pc = "exit"]
    /\ event' = TRUE
    /\ UNCHANGED <<serverVars, watchVars, worker, new, lock, list, alert>>

ClientStep(c) == ClientTest(c) \/ ClientDead(c) \/ ClientNotify(c)

----------------------------------------------------------------------------
WatchTest ==
    /\ watchdog = "test"
    /\ watchdog' = IF stop THEN "exit" ELSE "wait"
    /\ UNCHANGED <<serverVars, worker, new, at, lock, list, event, alert, client>>

WatchWait ==
    /\ watchdog = "wait"
    /\ \/ event /\ event' = FALSE /\ watchdog' = "lock" /\ UNCHANGED alert
       \/ alert /\ alert' = FALSE /\ watchdog' = "test" /\ UNCHANGED event
    /\ UNCHANGED <<serverVars, worker, new, at, lock, list, client>>

WatchLock ==
    /\ watchdog = "lock" /\ lock = "free"
    /\ watchdog' = "scan" /\ at' = 1 /\ lock' = "watchdog"
    /\ UNCHANGED <<serverVars, worker, new, list, event, alert, client>>

\* ~TcpClient() up to its join(): the flag, and the socket.
Shut(c) == [client EXCEPT ![c].stop = TRUE, ![c].open = FALSE]
Joined(c) == client[c].pc \in {"exit", "never"}
Without(s, i) == SubSeq(s, 1, i - 1) \o SubSeq(s, i + 1, Len(s))

\* Mutant: ~TcpClient() does not wait for the thread.
WatchScanDetached ==
    /\ watchdog = "scan" /\ at <= Len(list)
    /\ IF client[list[at]].dead
       THEN /\ client' = Shut(list[at]) /\ list' = Without(list, at)
            /\ UNCHANGED at
       ELSE /\ at' = at + 1 /\ UNCHANGED <<client, list>>
    /\ UNCHANGED <<serverVars, watchdog, worker, new, lock, event, alert>>

WatchScan ==
    /\ watchdog = "scan" /\ at <= Len(list)
    /\ IF client[list[at]].dead
       THEN /\ victim' = [victim EXCEPT !["watchdog"] = list[at]]
            /\ client' = Shut(list[at]) /\ list' = Without(list, at)
            /\ watchdog' = "join" /\ UNCHANGED at
       ELSE /\ at' = at + 1
            /\ UNCHANGED <<victim, client, list, watchdog>>
    /\ UNCHANGED <<stop, listening, dtor, worker, new, lock, event, alert>>

WatchJoin ==
    /\ watchdog = "join" /\ Joined(victim["watchdog"])
    /\ victim' = [victim EXCEPT !["watchdog"] = NoClient]
    /\ watchdog' = "scan"
    /\ UNCHANGED <<stop, listening, dtor, worker, new, at, lock, list, event,
                   alert, client>>

WatchUnlock ==
    /\ watchdog = "scan" /\ at > Len(list)
    /\ watchdog' = "test" /\ at' = 1 /\ lock' = "free"
    /\ UNCHANGED <<serverVars, worker, new, list, event, alert, client>>

Watchdog == \/ WatchTest \/ WatchWait \/ WatchLock \/ WatchScan \/ WatchJoin
            \/ WatchUnlock
Worker == WorkerTest \/ Accept \/ StartThread \/ InitFlags \/ Push

----------------------------------------------------------------------------
DtorBegin ==
    /\ dtor = "idle" /\ dtor' = "close"
    /\ stop' = TRUE
    /\ UNCHANGED <<listening, victim, watchVars, worker, new, lock, list, event,
                   alert, client>>

DtorClose ==
    /\ dtor = "close" /\ dtor' = "joinw"
    /\ listening' = FALSE
    /\ UNCHANGED <<stop, victim, watchVars, worker, new, lock, list, event,
                   alert, client>>

\* Mutant: the watchdog is joined without an alert.
DtorNoAlert ==
    /\ dtor = "joinw" /\ worker = "exit" /\ dtor' = "joind"
    /\ UNCHANGED <<stop, listening, victim, watchVars, worker, new, lock, list,
                   event, alert, client>>

DtorAlert ==
    /\ dtor = "joinw" /\ worker = "exit" /\ dtor' = "joind"
    /\ alert' = TRUE
    /\ UNCHANGED <<stop, listening, victim, watchVars, worker, new, lock, list,
                   event, client>>

\* Members go in reverse order of their declaration: the event is the first.
DtorEvent ==
    /\ dtor = "joind" /\ watchdog = "exit" /\ dtor' = "members"
    /\ UNCHANGED <<stop, listening, victim, watchVars, worker, new, lock, list,
                   event, alert, client>>

\* m_clients: every element's destructor, one after the other.
DtorClient ==
    /\ dtor = "members" /\ victim["dtor"] = NoClient /\ list # <<>>
    /\ victim' = [victim EXCEPT !["dtor"] = Head(list)]
    /\ client' = Shut(Head(list)) /\ list' = Tail(list)
    /\ UNCHANGED <<stop, listening, dtor, watchVars, worker, new, lock, event, alert>>

DtorJoin ==
    /\ dtor = "members" /\ victim["dtor"] # NoClient /\ Joined(victim["dtor"])
    /\ victim' = [victim EXCEPT !["dtor"] = NoClient]
    /\ UNCHANGED <<stop, listening, dtor, watchVars, worker, new, lock, list,
                   event, alert, client>>

DtorEnd ==
    /\ dtor = "members" /\ victim["dtor"] = NoClient /\ list = <<>>
    /\ dtor' = "done"
    /\ UNCHANGED <<stop, listening, victim, watchVars, worker, new, lock, list,
                   event, alert, client>>

Destructor == \/ DtorClose \/ DtorAlert \/ DtorEvent \/ DtorClient \/ DtorJoin
              \/ DtorEnd

Next ==
    \/ Worker \/ Watchdog \/ DtorBegin \/ Destructor
    \/ \E c \in Clients : ClientStep(c) \/ ClientMessage(c) \/ ClientBreak(c)

Spec == Init /\ [][Next]_vars

\* Every thread is scheduled, and calls on a closed socket fail.  Nothing says
\* that peers connect or go.
FairSpec ==
    /\ Spec /\ WF_vars(Watchdog) /\ WF_vars(Destructor)
    /\ WF_vars(Worker /\ (worker = "accept" => ~listening))
    /\ \A c \in Clients : /\ WF_vars(ClientStep(c))
                          /\ WF_vars(ClientBreak(c) /\ ~client[c].open)

----------------------------------------------------------------------------
InList == {list[i] : i \in DOMAIN list}

TypeOK ==
    /\ {stop, listening, event, alert} \subseteq BOOLEAN
    /\ worker \in {"test", "accept", "construct", "init", "push", "exit"}
    /\ new \in Clients \cup {NoClient}
    /\ watchdog \in {"test", "wait", "lock", "scan", "join", "exit"}
    /\ at \in 1 .. Cardinality(Clients) + 1
    /\ lock \in {"free", "watchdog"}
    /\ list \in Seq(Clients) /\ Len(list) = Cardinality(InList)
    /\ dtor \in {"idle", "close", "joinw", "joind", "members", "done"}
    /\ victim \in [Destroyers -> Clients \cup {NoClient}]
    /\ client \in [Clients ->
         [pc : {"none", "accepted", "never", "test", "recv", "dying", "notify", "exit"},
          stop : BOOLEAN, dead : BOOLEAN, open : BOOLEAN]]

Owners(c) ==
    {o \in {"worker"} : new = c} \cup {o \in {"list"} : c \in InList}
      \cup {o \in Destroyers : victim[o] = c}

\* Each accepted client is in one place: with the worker that makes it, in the
\* list, or with one of those that may destroy it, watchdog and destructor;
\* and who is in none of them has no thread (TcpServer.cpp 107-126, 221-249).
OneOwner ==
    \A c \in Clients :
      /\ Cardinality(Owners(c)) <= 1
      /\ Owners(c) = {} => client[c].pc \in {"none", "never", "exit"}

\* A destroyed server has no thread left that would use it or call back
\* (TcpServer.cpp 107-126).
NothingRuns ==
    dtor = "done" => /\ worker = "exit" /\ watchdog = "exit"
                     /\ \A c \in Clients : client[c].pc \in {"none", "never", "exit"}

\* A scan misses no dead client: those before the iterator were alive when it
\* looked and will set the event again (TcpServer.cpp 230-246).
ScanMissesNone ==
    \A i \in DOMAIN list :
      (/\ client[list[i]].pc = "exit" /\ client[list[i]].dead
       /\ watchdog \in {"scan", "join"} /\ i < at) => event

\* A client that ends while it is in the list is removed from it: no signal
\* is lost between the watchdog's scans (TcpServer.cpp 95-98, 221-249).  One
\* that signals before Push stays until the next one ends, and one that ends
\* before InitFlags, which takes its mark away, for as long as the server.
DeadAreRemoved ==
    \A c \in Clients : (client[c].pc = "dying" /\ c \in InList) ~> c \notin InList

\* The destructor returns, whatever the peers do (TcpServer.cpp 107-126).
DestructorReturns == dtor = "close" ~> dtor = "done"
=============================================================================
