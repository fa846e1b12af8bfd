----------------------------- MODULE UdpServer -----------------------------
(***************************************************************************)
(* UdpServer (SkTracer/UdpServer.cpp): one worker receives datagrams and   *)
(* hands records to the callback until a receive fails, a datagram is too  *)
(* short or the object is destroyed.  Any datagram may arrive any number   *)
(* of times: the network loses, repeats and reorders them.                 *)
(***************************************************************************)
EXTENDS Naturals, Sequences

CONSTANTS Records,  \* whole datagrams that parse
          Bad,      \* datagrams that are empty, do not parse or have no level
          Short,    \* datagrams shorter than their header or than it says
          None,
          QueueSize \* bound: datagrams that the socket holds

UdpAssumption ==
    /\ Records \cap Bad = {} /\ (Records \cup Bad) \cap Short = {} /\ QueueSize \in Nat
    /\ None \notin Records \cup Bad \cup Short

VARIABLES queue,      \* what the socket holds
          open,       \* m_socket is not closed
          m_stopFlag,
          worker,     \* test, receive, parse, message, shutdown, done
          m_buffer,   \* the datagram received last
          owner       \* idle, closing, joining, gone

vars == <<queue, open, m_stopFlag, worker, m_buffer, owner>>
Any == Records \cup Bad \cup Short

Init ==
    /\ queue = <<>> /\ open = TRUE /\ m_stopFlag = FALSE
    /\ worker = "test" /\ m_buffer = None /\ owner = "idle"

Arrive(d) ==
    /\ open /\ Len(queue) < QueueSize /\ queue' = Append(queue, d)
    /\ UNCHANGED <<open, m_stopFlag, worker, m_buffer, owner>>

----------------------------------------------------------------------------
(* run() *)
Go(l) == worker' = l /\ UNCHANGED <<open, m_stopFlag, owner>>

Test ==
    /\ worker = "test" /\ Go(IF m_stopFlag THEN "shutdown" ELSE "receive")
    /\ UNCHANGED <<queue, m_buffer>>

Received ==
    /\ worker = "receive" /\ open /\ queue # <<>>
    /\ queue' = Tail(queue) /\ m_buffer' = Head(queue)
    /\ Go(IF Head(queue) \in Short THEN "shutdown" ELSE "parse")

\* recvfrom() fails once the socket is closed.
Fails == worker = "receive" /\ ~open /\ Go("shutdown") /\ UNCHANGED <<queue, m_buffer>>

Parse ==
    /\ worker = "parse" /\ Go(IF m_buffer \in Bad THEN "test" ELSE "message")
    /\ UNCHANGED <<queue, m_buffer>>

\* The callback, and the shutdown of the socket, whatever its number is now.
Message == worker = "message" /\ Go("test") /\ UNCHANGED <<queue, m_buffer>>
Shutdown == worker = "shutdown" /\ Go("done") /\ UNCHANGED <<queue, m_buffer>>

----------------------------------------------------------------------------
(* The destructor *)
Owned(l) == owner' = l /\ UNCHANGED <<queue, worker, m_buffer>>

Stop == owner = "idle" /\ m_stopFlag' = TRUE /\ Owned("closing") /\ UNCHANGED open
Close == owner = "closing" /\ open' = FALSE /\ Owned("joining") /\ UNCHANGED m_stopFlag
\* Mutant: the worker is not joined.
JoinNot == owner = "joining" /\ Owned("gone") /\ UNCHANGED <<open, m_stopFlag>>
Join == owner = "joining" /\ worker = "done" /\ Owned("gone") /\ UNCHANGED <<open, m_stopFlag>>

Worker == Test \/ Received \/ Fails \/ Parse \/ Message \/ Shutdown
Destructor == Close \/ Join

Next == Worker \/ Stop \/ Destructor \/ \E d \in Any : Arrive(d)

Spec == Init /\ [][Next]_vars

\* The worker is a thread; the thread that destroys the object goes on.
FairSpec == Spec /\ WF_vars(Worker) /\ WF_vars(Destructor)

----------------------------------------------------------------------------
TypeOK ==
    /\ queue \in Seq(Any) /\ open \in BOOLEAN /\ m_stopFlag \in BOOLEAN
    /\ worker \in {"test", "receive", "parse", "message", "shutdown", "done"}
    /\ m_buffer \in Any \cup {None}
    /\ owner \in {"idle", "closing", "joining", "gone"}
    /\ worker = "parse" => m_buffer \in Records \cup Bad

\* The callback belongs to who made the server: it is not called, and the
\* buffer is not used, after the destructor (lines 9-22, 108).
NothingAfterDestructor == owner = "gone" => worker = "done"

\* The destructor gets the worker out of recvfrom() and returns.
DestructorReturns == m_stopFlag ~> owner = "gone"
=============================================================================
