--------------------------- MODULE NetworkProofs ---------------------------
(***************************************************************************)
(* Proofs about the components of MCServices that use the network: about   *)
(* both kinds of the sink of user mode and both of the one of kernel mode, *)
(* for any number of requests; about the servers of SkTracer, of TcpServer *)
(* for any number of connections and of both that no thread outlives its   *)
(* server; and that all the components of MCServices keep their types.     *)
(***************************************************************************)
EXTENDS ServicesProofs

InFlight(r) == uIo[r] \in {"flight", "done"}

\* The list is what is allocated, and its completions find what they need
\* until the sink is gone.
SinkListInv ==
    /\ Elements(uPending) = uAlive /\ Distinct(uPending)
    /\ uClient = "gone" => uAlive = {}
    /\ \A r \in TcpSink!Requests : InFlight(r) /\ uClient # "gone" => r \in uAlive

\* Writer and client take turns: the client closes the sink inside the mutex
\* or after the writer's end, which takes what is in flight with it.
SinkTurnInv ==
    /\ uClient \notin {"idle", "join"} => uLock # "writer"
    /\ uClient \in {"close", "await", "free"} => uLock = "client" \/ uWriter = "exited"
    /\ uWriter = "exited" => uClient # "idle" /\ \A r \in TcpSink!Requests : ~InFlight(r)
    /\ uClient = "await" =>
         uTerminating /\ uWriter # "exited" /\ (uTerminated \/ \E r \in TcpSink!Requests : InFlight(r))

\* The TCP sink is closed by finalize() only; without a connection it has sent nothing.
TcpSinkInv ==
    /\ uClient \notin {"idle", "join"} => uWriter = "exited"
    /\ uWriter # "exited" => ~uTerminating
    /\ ~uConnected /\ uWriter # "exited" => uPending = <<>> /\ uWriter # "send"
    /\ uWriter = "connect" => ~uConnected

\* The UDP sink connects to nobody, and its sends do not fail at once.
UdpSinkInv ==
    /\ uWriter \notin {"connection", "connect", "crashed"}
    /\ uWriter # "exited" => \A r \in uAlive : InFlight(r)

SinkInv ==
    /\ TcpSink!TypeOK /\ SinkListInv /\ SinkTurnInv
    /\ part # "udp_sink" => TcpSinkInv
    /\ part # "tcp_sink" => UdpSinkInv

\* The two kinds differ in their sockets, in sends that fail and in who closes them.
SharedStep ==
    \/ TcpSink!TakeRecord \/ TcpSink!LockList \/ TcpSink!UnlockList \/ TcpSink!CheckConnection
    \/ TcpSink!NoRequest \/ TcpSink!Send \/ TcpSink!WriterExits \/ TcpSink!ConnectDone
    \/ TcpSink!Finalize \/ TcpSink!Joined \/ TcpSink!CloseBegin \/ TcpSink!CloseWait
    \/ TcpSink!CloseEnd \/ TcpSink!TimePasses
    \/ \E r \in TcpSink!Requests : TcpSink!IoDone(r) \/ TcpSink!Complete(r)

LEMMA TcpSinkMoves ==
    ASSUME TcpSink!Next
    PROVE  SharedStep \/ TcpSink!CheckSocket \/ TcpSink!SendFails
BY DEF TcpSink!Next, TcpSink!WriterStep, TcpSink!ClientStep, TcpSink!Unregister,
   SharedStep

LEMMA UdpSinkMoves ==
    ASSUME UdpSink!Next
    PROVE  SharedStep \/ UdpSink!CheckSocket \/ UdpSink!Unregister
<1>1. UdpSink!TakeRecord => TcpSink!TakeRecord
  BY DEF UdpSink!TakeRecord, TcpSink!TakeRecord, UdpSink!sock, TcpSink!sock, UdpSink!reqs, TcpSink!reqs
<1>2. UdpSink!LockList => TcpSink!LockList
  BY DEF UdpSink!LockList, TcpSink!LockList, UdpSink!sock, TcpSink!sock, UdpSink!reqs, TcpSink!reqs
<1>3. UdpSink!UnlockList => TcpSink!UnlockList
  BY DEF UdpSink!UnlockList, TcpSink!UnlockList, UdpSink!sock, TcpSink!sock, UdpSink!reqs, TcpSink!reqs
<1>4. UdpSink!CheckConnection => TcpSink!CheckConnection
  BY DEF UdpSink!CheckConnection, TcpSink!CheckConnection, UdpSink!sock, TcpSink!sock, UdpSink!reqs, TcpSink!reqs
<1>5. UdpSink!NoRequest => TcpSink!NoRequest
  BY DEF UdpSink!NoRequest, TcpSink!NoRequest, UdpSink!sock, TcpSink!sock, UdpSink!reqs, TcpSink!reqs
<1>6. UdpSink!Send => TcpSink!Send
  BY DEF UdpSink!Send, TcpSink!Send, UdpSink!sock, TcpSink!sock, UdpSink!NewRequest, TcpSink!NewRequest
<1>7. UdpSink!WriterExits => TcpSink!WriterExits
  BY DEF UdpSink!WriterExits, TcpSink!WriterExits, UdpSink!sock, TcpSink!sock, UdpSink!Requests, TcpSink!Requests
<1>8. UdpSink!ConnectDone => TcpSink!ConnectDone
  BY DEF UdpSink!ConnectDone, TcpSink!ConnectDone, UdpSink!reqs, TcpSink!reqs
<1>9. UdpSink!Finalize => TcpSink!Finalize
  BY DEF UdpSink!Finalize, TcpSink!Finalize, UdpSink!sock, TcpSink!sock, UdpSink!reqs, TcpSink!reqs
<1>10. UdpSink!Joined => TcpSink!Joined
  BY DEF UdpSink!Joined, TcpSink!Joined, UdpSink!sock, TcpSink!sock, UdpSink!reqs, TcpSink!reqs
<1>11. UdpSink!CloseBegin => TcpSink!CloseBegin
  BY DEF UdpSink!CloseBegin, TcpSink!CloseBegin, UdpSink!reqs, TcpSink!reqs, UdpSink!Requests, TcpSink!Requests
<1>12. UdpSink!CloseWait => TcpSink!CloseWait
  BY DEF UdpSink!CloseWait, TcpSink!CloseWait, UdpSink!sock, TcpSink!sock, UdpSink!reqs, TcpSink!reqs
<1>13. UdpSink!CloseEnd => TcpSink!CloseEnd
  BY DEF UdpSink!CloseEnd, TcpSink!CloseEnd, UdpSink!ToSet, TcpSink!ToSet
<1>14. UdpSink!TimePasses => TcpSink!TimePasses
  BY DEF UdpSink!TimePasses, TcpSink!TimePasses, UdpSink!sock, TcpSink!sock, UdpSink!reqs, TcpSink!reqs
<1>15. ASSUME NEW r, UdpSink!IoDone(r) PROVE TcpSink!IoDone(r)
  BY <1>15 DEF UdpSink!IoDone, TcpSink!IoDone, UdpSink!sock, TcpSink!sock
<1>16. ASSUME NEW r, UdpSink!Complete(r) PROVE TcpSink!Complete(r)
  BY <1>16 DEF UdpSink!Complete, TcpSink!Complete, UdpSink!RemoveAt, TcpSink!RemoveAt, UdpSink!Place, TcpSink!Place
<1>17. ~UdpSink!SendFails
  BY DEF UdpSink!SendFails
<1>18. QED
  BY <1>1, <1>2, <1>3, <1>4, <1>5, <1>6, <1>7, <1>8, <1>9, <1>10, <1>11, <1>12, <1>13, <1>14, <1>15, <1>16, <1>17 DEF UdpSink!Next, UdpSink!WriterStep,
     UdpSink!ClientStep, UdpSink!Requests, TcpSink!Requests, SharedStep

LEMMA SinkStep ==
    ASSUME SinkInv, part' = part,
           \/ part \in {"tcp_sink", "udp_sink"} /\ SharedStep
           \/ part = "tcp_sink" /\ (TcpSink!CheckSocket \/ TcpSink!SendFails)
           \/ part = "udp_sink" /\ (UdpSink!CheckSocket \/ UdpSink!Unregister)
    PROVE  SinkInv'
<1>0. /\ TcpSink!TypeOK /\ SinkListInv /\ SinkTurnInv
      /\ part # "udp_sink" => TcpSinkInv
      /\ part # "tcp_sink" => UdpSinkInv
      /\ part' = part
  BY DEF SinkInv
<1> USE DEF TcpSink!sock, TcpSink!reqs
<1>1. uIo \in Seq({"failed", "flight", "done", "over"}) /\ Len(uIo) \in Nat /\ DOMAIN uIo = 1 .. Len(uIo)
  <2>1. uIo \in Seq({"failed", "flight", "done", "over"})
    BY <1>0 DEF TcpSink!TypeOK
  <2>2. QED
    BY <2>1
<1>p. uAlive \subseteq TcpSink!Requests /\ uPending \in Seq(TcpSink!Requests)
  BY <1>0 DEF TcpSink!TypeOK
<1>q. TcpSink!Requests = 1 .. Len(uIo)
  BY DEF TcpSink!Requests
<1>r. Len(uIo') = Len(uIo) => TcpSink!Requests' = TcpSink!Requests
  BY DEF TcpSink!Requests
<1>2. CASE TcpSink!TakeRecord
  <2> USE DEF TcpSink!TakeRecord
  <2>1. TcpSink!TypeOK'
    BY <1>0, <1>r, <1>2 DEF TcpSink!TypeOK
  <2>2. SinkListInv'
    BY <1>0, <1>r, <1>2 DEF SinkListInv, SinkTurnInv, InFlight, TcpSink!TypeOK
  <2>3. SinkTurnInv'
    BY <1>0, <1>r, <1>2 DEF SinkTurnInv, InFlight, TcpSink!TypeOK
  <2>4. part # "udp_sink" => TcpSinkInv'
    BY <1>0, <1>r, <1>2 DEF TcpSinkInv, SinkTurnInv, TcpSink!TypeOK
  <2>5. part # "tcp_sink" => UdpSinkInv'
    BY <1>0, <1>r, <1>2 DEF UdpSinkInv, SinkTurnInv, InFlight, TcpSink!TypeOK
  <2>6. QED
    BY <1>0, <2>1, <2>2, <2>3, <2>4, <2>5 DEF SinkInv
<1>3. CASE TcpSink!LockList
  <2> USE DEF TcpSink!LockList
  <2>1. TcpSink!TypeOK'
    BY <1>0, <1>r, <1>3 DEF TcpSink!TypeOK
  <2>2. SinkListInv'
    BY <1>0, <1>r, <1>3 DEF SinkListInv, SinkTurnInv, InFlight, TcpSink!TypeOK
  <2>3. SinkTurnInv'
    BY <1>0, <1>r, <1>3 DEF SinkTurnInv, InFlight, TcpSink!TypeOK
  <2>4. part # "udp_sink" => TcpSinkInv'
    BY <1>0, <1>r, <1>3 DEF TcpSinkInv, SinkTurnInv, TcpSink!TypeOK
  <2>5. part # "tcp_sink" => UdpSinkInv'
    BY <1>0, <1>r, <1>3 DEF UdpSinkInv, SinkTurnInv, InFlight, TcpSink!TypeOK
  <2>6. QED
    BY <1>0, <2>1, <2>2, <2>3, <2>4, <2>5 DEF SinkInv
<1>4. CASE TcpSink!UnlockList
  <2> USE DEF TcpSink!UnlockList
  <2>1. TcpSink!TypeOK'
    BY <1>0, <1>r, <1>4 DEF TcpSink!TypeOK
  <2>2. SinkListInv'
    BY <1>0, <1>r, <1>4 DEF SinkListInv, SinkTurnInv, InFlight, TcpSink!TypeOK
  <2>3. SinkTurnInv'
    BY <1>0, <1>r, <1>4 DEF SinkTurnInv, InFlight, TcpSink!TypeOK
  <2>4. part # "udp_sink" => TcpSinkInv'
    BY <1>0, <1>r, <1>4 DEF TcpSinkInv, SinkTurnInv, TcpSink!TypeOK
  <2>5. part # "tcp_sink" => UdpSinkInv'
    BY <1>0, <1>r, <1>4 DEF UdpSinkInv, SinkTurnInv, InFlight, TcpSink!TypeOK
  <2>6. QED
    BY <1>0, <2>1, <2>2, <2>3, <2>4, <2>5 DEF SinkInv
<1>5. CASE TcpSink!CheckConnection
  <2> USE DEF TcpSink!CheckConnection
  <2>1. TcpSink!TypeOK'
    BY <1>0, <1>r, <1>5 DEF TcpSink!TypeOK
  <2>2. SinkListInv'
    BY <1>0, <1>r, <1>5 DEF SinkListInv, SinkTurnInv, InFlight, TcpSink!TypeOK
  <2>3. SinkTurnInv'
    BY <1>0, <1>r, <1>5 DEF SinkTurnInv, InFlight, TcpSink!TypeOK
  <2>4. part # "udp_sink" => TcpSinkInv'
    BY <1>0, <1>r, <1>5 DEF TcpSinkInv, SinkTurnInv, TcpSink!TypeOK
  <2>5. part # "tcp_sink" => UdpSinkInv'
    BY <1>0, <1>r, <1>5 DEF UdpSinkInv, SinkTurnInv, InFlight, TcpSink!TypeOK
  <2>6. QED
    BY <1>0, <2>1, <2>2, <2>3, <2>4, <2>5 DEF SinkInv
<1>6. CASE TcpSink!NoRequest
  <2> USE DEF TcpSink!NoRequest
  <2>1. TcpSink!TypeOK'
    BY <1>0, <1>r, <1>6 DEF TcpSink!TypeOK
  <2>2. SinkListInv'
    BY <1>0, <1>r, <1>6 DEF SinkListInv, SinkTurnInv, InFlight, TcpSink!TypeOK
  <2>3. SinkTurnInv'
    BY <1>0, <1>r, <1>6 DEF SinkTurnInv, InFlight, TcpSink!TypeOK
  <2>4. part # "udp_sink" => TcpSinkInv'
    BY <1>0, <1>r, <1>6 DEF TcpSinkInv, SinkTurnInv, TcpSink!TypeOK
  <2>5. part # "tcp_sink" => UdpSinkInv'
    BY <1>0, <1>r, <1>6 DEF UdpSinkInv, SinkTurnInv, InFlight, TcpSink!TypeOK
  <2>6. QED
    BY <1>0, <2>1, <2>2, <2>3, <2>4, <2>5 DEF SinkInv
<1>7. CASE TcpSink!ConnectDone
  <2> USE DEF TcpSink!ConnectDone
  <2>1. TcpSink!TypeOK'
    BY <1>0, <1>r, <1>7 DEF TcpSink!TypeOK
  <2>2. SinkListInv'
    BY <1>0, <1>r, <1>7 DEF SinkListInv, SinkTurnInv, InFlight, TcpSink!TypeOK
  <2>3. SinkTurnInv'
    BY <1>0, <1>r, <1>7 DEF SinkTurnInv, InFlight, TcpSink!TypeOK
  <2>4. part # "udp_sink" => TcpSinkInv'
    BY <1>0, <1>r, <1>7 DEF TcpSinkInv, SinkTurnInv, TcpSink!TypeOK
  <2>5. part # "tcp_sink" => UdpSinkInv'
    BY <1>0, <1>r, <1>7 DEF UdpSinkInv, SinkTurnInv, InFlight, TcpSink!TypeOK
  <2>6. QED
    BY <1>0, <2>1, <2>2, <2>3, <2>4, <2>5 DEF SinkInv
<1>8. CASE TcpSink!Finalize
  <2> USE DEF TcpSink!Finalize
  <2>1. TcpSink!TypeOK'
    BY <1>0, <1>r, <1>8 DEF TcpSink!TypeOK
  <2>2. SinkListInv'
    BY <1>0, <1>r, <1>8 DEF SinkListInv, SinkTurnInv, InFlight, TcpSink!TypeOK
  <2>3. SinkTurnInv'
    BY <1>0, <1>r, <1>8 DEF SinkTurnInv, InFlight, TcpSink!TypeOK
  <2>4. part # "udp_sink" => TcpSinkInv'
    BY <1>0, <1>r, <1>8 DEF TcpSinkInv, SinkTurnInv, TcpSink!TypeOK
  <2>5. part # "tcp_sink" => UdpSinkInv'
    BY <1>0, <1>r, <1>8 DEF UdpSinkInv, SinkTurnInv, InFlight, TcpSink!TypeOK
  <2>6. QED
    BY <1>0, <2>1, <2>2, <2>3, <2>4, <2>5 DEF SinkInv
<1>9. CASE TcpSink!Joined
  <2> USE DEF TcpSink!Joined
  <2>1. TcpSink!TypeOK'
    BY <1>0, <1>r, <1>9 DEF TcpSink!TypeOK
  <2>2. SinkListInv'
    BY <1>0, <1>r, <1>9 DEF SinkListInv, SinkTurnInv, InFlight, TcpSink!TypeOK
  <2>3. SinkTurnInv'
    BY <1>0, <1>r, <1>9 DEF SinkTurnInv, InFlight, TcpSink!TypeOK
  <2>4. part # "udp_sink" => TcpSinkInv'
    BY <1>0, <1>r, <1>9 DEF TcpSinkInv, SinkTurnInv, TcpSink!TypeOK
  <2>5. part # "tcp_sink" => UdpSinkInv'
    BY <1>0, <1>r, <1>9 DEF UdpSinkInv, SinkTurnInv, InFlight, TcpSink!TypeOK
  <2>6. QED
    BY <1>0, <2>1, <2>2, <2>3, <2>4, <2>5 DEF SinkInv
<1>10. CASE TcpSink!CloseBegin
  <2> USE DEF TcpSink!CloseBegin
  <2>1. TcpSink!TypeOK'
    BY <1>0, <1>r, <1>10 DEF TcpSink!TypeOK
  <2>2. SinkListInv'
    BY <1>0, <1>r, <1>10 DEF SinkListInv, SinkTurnInv, InFlight, TcpSink!TypeOK
  <2>3. SinkTurnInv'
    BY <1>0, <1>r, <1>10 DEF SinkTurnInv, InFlight, TcpSink!TypeOK
  <2>4. part # "udp_sink" => TcpSinkInv'
    BY <1>0, <1>r, <1>10 DEF TcpSinkInv, SinkTurnInv, TcpSink!TypeOK
  <2>5. part # "tcp_sink" => UdpSinkInv'
    BY <1>0, <1>r, <1>10 DEF UdpSinkInv, SinkTurnInv, InFlight, TcpSink!TypeOK
  <2>6. QED
    BY <1>0, <2>1, <2>2, <2>3, <2>4, <2>5 DEF SinkInv
<1>11. CASE TcpSink!CloseWait
  <2> USE DEF TcpSink!CloseWait
  <2>1. TcpSink!TypeOK'
    BY <1>0, <1>r, <1>11 DEF TcpSink!TypeOK
  <2>2. SinkListInv'
    BY <1>0, <1>r, <1>11 DEF SinkListInv, SinkTurnInv, InFlight, TcpSink!TypeOK
  <2>3. SinkTurnInv'
    BY <1>0, <1>r, <1>11 DEF SinkTurnInv, InFlight, TcpSink!TypeOK
  <2>4. part # "udp_sink" => TcpSinkInv'
    BY <1>0, <1>r, <1>11 DEF TcpSinkInv, SinkTurnInv, TcpSink!TypeOK
  <2>5. part # "tcp_sink" => UdpSinkInv'
    BY <1>0, <1>r, <1>11 DEF UdpSinkInv, SinkTurnInv, InFlight, TcpSink!TypeOK
  <2>6. QED
    BY <1>0, <2>1, <2>2, <2>3, <2>4, <2>5 DEF SinkInv
<1>12. CASE TcpSink!TimePasses
  <2> USE DEF TcpSink!TimePasses
  <2>1. TcpSink!TypeOK'
    BY <1>0, <1>r, <1>12 DEF TcpSink!TypeOK
  <2>2. SinkListInv'
    BY <1>0, <1>r, <1>12 DEF SinkListInv, SinkTurnInv, InFlight, TcpSink!TypeOK
  <2>3. SinkTurnInv'
    BY <1>0, <1>r, <1>12 DEF SinkTurnInv, InFlight, TcpSink!TypeOK
  <2>4. part # "udp_sink" => TcpSinkInv'
    BY <1>0, <1>r, <1>12 DEF TcpSinkInv, SinkTurnInv, TcpSink!TypeOK
  <2>5. part # "tcp_sink" => UdpSinkInv'
    BY <1>0, <1>r, <1>12 DEF UdpSinkInv, SinkTurnInv, InFlight, TcpSink!TypeOK
  <2>6. QED
    BY <1>0, <2>1, <2>2, <2>3, <2>4, <2>5 DEF SinkInv
<1>13. CASE part = "tcp_sink" /\ TcpSink!CheckSocket
  <2> USE DEF TcpSink!CheckSocket, TcpSink!sock, TcpSink!reqs
  <2>1. TcpSink!TypeOK'
    BY <1>0, <1>r, <1>13 DEF TcpSink!TypeOK
  <2>2. SinkListInv'
    BY <1>0, <1>r, <1>13 DEF SinkListInv, SinkTurnInv, InFlight, TcpSink!TypeOK
  <2>3. SinkTurnInv'
    BY <1>0, <1>r, <1>13 DEF SinkTurnInv, InFlight, TcpSink!TypeOK
  <2>4. part # "udp_sink" => TcpSinkInv'
    BY <1>0, <1>r, <1>13 DEF TcpSinkInv, SinkTurnInv, TcpSink!TypeOK
  <2>5. part # "tcp_sink" => UdpSinkInv'
    BY <1>0, <1>r, <1>13 DEF UdpSinkInv, SinkTurnInv, InFlight, TcpSink!TypeOK
  <2>6. QED
    BY <1>0, <2>1, <2>2, <2>3, <2>4, <2>5 DEF SinkInv
<1>14. CASE part = "udp_sink" /\ UdpSink!CheckSocket
  <2> USE DEF UdpSink!CheckSocket, UdpSink!sock, UdpSink!reqs
  <2>1. TcpSink!TypeOK'
    BY <1>0, <1>r, <1>14 DEF TcpSink!TypeOK
  <2>2. SinkListInv'
    BY <1>0, <1>r, <1>14 DEF SinkListInv, SinkTurnInv, InFlight, TcpSink!TypeOK
  <2>3. SinkTurnInv'
    BY <1>0, <1>r, <1>14 DEF SinkTurnInv, InFlight, TcpSink!TypeOK
  <2>4. part # "udp_sink" => TcpSinkInv'
    BY <1>0, <1>r, <1>14 DEF TcpSinkInv, SinkTurnInv, TcpSink!TypeOK
  <2>5. part # "tcp_sink" => UdpSinkInv'
    BY <1>0, <1>r, <1>14 DEF UdpSinkInv, SinkTurnInv, InFlight, TcpSink!TypeOK
  <2>6. QED
    BY <1>0, <2>1, <2>2, <2>3, <2>4, <2>5 DEF SinkInv
<1>15. CASE part = "udp_sink" /\ UdpSink!Unregister
  <2> USE DEF UdpSink!Unregister, UdpSink!sock, UdpSink!reqs
  <2>1. TcpSink!TypeOK'
    BY <1>0, <1>r, <1>15 DEF TcpSink!TypeOK
  <2>2. SinkListInv'
    BY <1>0, <1>r, <1>15 DEF SinkListInv, SinkTurnInv, InFlight, TcpSink!TypeOK
  <2>3. SinkTurnInv'
    BY <1>0, <1>r, <1>15 DEF SinkTurnInv, InFlight, TcpSink!TypeOK
  <2>4. part # "udp_sink" => TcpSinkInv'
    BY <1>0, <1>r, <1>15 DEF TcpSinkInv, SinkTurnInv, TcpSink!TypeOK
  <2>5. part # "tcp_sink" => UdpSinkInv'
    BY <1>0, <1>r, <1>15 DEF UdpSinkInv, SinkTurnInv, InFlight, TcpSink!TypeOK
  <2>6. QED
    BY <1>0, <2>1, <2>2, <2>3, <2>4, <2>5 DEF SinkInv
<1>16. ASSUME NEW kind \in {"failed", "flight", "done"}, TcpSink!NewRequest(kind)
      PROVE  /\ uIo' \in Seq({"failed", "flight", "done", "over"}) /\ Len(uIo') <= MaxRequests
             /\ \A q \in TcpSink!Requests : uIo'[q] = uIo[q]
             /\ \E r \in TcpSink!Requests' :
                  /\ uIo'[r] = kind /\ uAlive' = uAlive \cup {r}
                  /\ TcpSink!Requests' = TcpSink!Requests \cup {r}
             /\ uPending' # <<>> /\ uPending' \in Seq(TcpSink!Requests')
             /\ Elements(uPending') = uAlive' /\ Distinct(uPending')
  <2> DEFINE r == Len(uIo) + 1
  <2>1. /\ uIo' = Append(uIo, kind) /\ uAlive' = uAlive \cup {r} /\ uPending' = Append(uPending, r)
        /\ Len(uIo) < MaxRequests /\ MaxRequests \in Nat
    BY <1>16, ServicesAssumption DEF TcpSink!NewRequest, TcpSink!NetSinkAssumption
  <2>2. /\ Len(uIo') = r /\ uIo' \in Seq({"failed", "flight", "done", "over"})
        /\ \A q \in 1 .. Len(uIo) : uIo'[q] = uIo[q]
        /\ uIo'[r] = kind
    BY <1>1, <2>1, AppendProperties
  <2>3. TcpSink!Requests' = TcpSink!Requests \cup {r} /\ r \notin TcpSink!Requests
    BY <1>1, <2>2, <1>q DEF TcpSink!Requests
  <2> HIDE DEF r
  <2>4. Distinct(uPending) /\ Elements(uPending) = uAlive /\ r \notin Elements(uPending)
    BY <1>0, <1>p, <2>3 DEF SinkListInv
  <2>5. uPending \in Seq(TcpSink!Requests') /\ r \in TcpSink!Requests'
    BY <1>p, <2>3
  <2>6. /\ uPending' \in Seq(TcpSink!Requests') /\ Len(uPending') = Len(uPending) + 1
        /\ Distinct(uPending') /\ Elements(uPending') = uAlive'
    BY <2>1, <2>4, <2>5, AppendDistinct
  <2>7. uPending' # <<>>
    BY <2>5, <2>6
  <2>8. Len(uIo') <= MaxRequests
    BY <1>1, <2>1, <2>2 DEF r
  <2>9. QED
    BY <1>q, <2>1, <2>2, <2>3, <2>5, <2>6, <2>7, <2>8
<1>17. CASE TcpSink!Send
  <2>1. PICK kind \in {"flight", "done"} : TcpSink!NewRequest(kind)
    BY <1>17 DEF TcpSink!Send
  <2>2. /\ uWriter = "send" /\ uWriter' = "unlock"
        /\ UNCHANGED <<uSocket, uConnected, uTerminating, uTerminated, uThrottled, uUrgent, uClient, uLock>>
    BY <1>17 DEF TcpSink!Send
  <2>3. /\ uIo' \in Seq({"failed", "flight", "done", "over"}) /\ Len(uIo') <= MaxRequests
        /\ \A q \in TcpSink!Requests : uIo'[q] = uIo[q]
        /\ \E r \in TcpSink!Requests' :
             /\ uIo'[r] = kind /\ uAlive' = uAlive \cup {r}
             /\ TcpSink!Requests' = TcpSink!Requests \cup {r}
        /\ uPending' # <<>> /\ uPending' \in Seq(TcpSink!Requests')
        /\ Elements(uPending') = uAlive' /\ Distinct(uPending')
    BY <2>1, <1>16
  <2>4. uLock = "writer" /\ uClient \in {"idle", "join"}
    BY <1>0, <2>2 DEF TcpSink!TypeOK, SinkTurnInv
  <2>5. TcpSink!TypeOK'
    BY <1>0, <1>p, <2>2, <2>3, <2>4 DEF TcpSink!TypeOK
  <2>6. SinkListInv'
    BY <1>0, <1>p, <2>2, <2>3, <2>4 DEF SinkListInv, InFlight
  <2>7. SinkTurnInv'
    BY <1>0, <2>2, <2>4 DEF SinkTurnInv
  <2>8. part # "udp_sink" => TcpSinkInv'
    BY <1>0, <2>2, <2>3 DEF TcpSinkInv
  <2>9. part # "tcp_sink" => UdpSinkInv'
    BY <1>0, <1>p, <1>17, <2>1, <2>2, <2>3 DEF UdpSinkInv, InFlight
  <2>10. QED
    BY <1>0, <2>5, <2>6, <2>7, <2>8, <2>9 DEF SinkInv
<1>18. CASE part = "tcp_sink" /\ TcpSink!SendFails
  <2>1. PICK kind \in {"failed"} : TcpSink!NewRequest(kind)
    BY <1>18 DEF TcpSink!SendFails
  <2>2. /\ uWriter = "send" /\ uWriter' = "crashed"
        /\ UNCHANGED <<uSocket, uConnected, uTerminating, uTerminated, uThrottled, uUrgent, uClient, uLock>>
    BY <1>18 DEF TcpSink!SendFails
  <2>3. /\ uIo' \in Seq({"failed", "flight", "done", "over"}) /\ Len(uIo') <= MaxRequests
        /\ \A q \in TcpSink!Requests : uIo'[q] = uIo[q]
        /\ \E r \in TcpSink!Requests' :
             /\ uIo'[r] = kind /\ uAlive' = uAlive \cup {r}
             /\ TcpSink!Requests' = TcpSink!Requests \cup {r}
        /\ uPending' # <<>> /\ uPending' \in Seq(TcpSink!Requests')
        /\ Elements(uPending') = uAlive' /\ Distinct(uPending')
    BY <2>1, <1>16
  <2>4. uLock = "writer" /\ uClient \in {"idle", "join"}
    BY <1>0, <2>2 DEF TcpSink!TypeOK, SinkTurnInv
  <2>5. TcpSink!TypeOK'
    BY <1>0, <1>p, <2>2, <2>3, <2>4 DEF TcpSink!TypeOK
  <2>6. SinkListInv'
    BY <1>0, <1>p, <2>2, <2>3, <2>4 DEF SinkListInv, InFlight
  <2>7. SinkTurnInv'
    BY <1>0, <2>2, <2>4 DEF SinkTurnInv
  <2>8. part # "udp_sink" => TcpSinkInv'
    BY <1>0, <2>2, <2>3 DEF TcpSinkInv
  <2>9. part # "tcp_sink" => UdpSinkInv'
    BY <1>0, <1>p, <1>18, <2>1, <2>2, <2>3 DEF UdpSinkInv, InFlight
  <2>10. QED
    BY <1>0, <2>5, <2>6, <2>7, <2>8, <2>9 DEF SinkInv
<1>19. CASE TcpSink!WriterExits
  <2>1. /\ uWriter = "wait" /\ uClient = "join" /\ uWriter' = "exited"
        /\ UNCHANGED <<uSocket, uConnected, uTerminating, uTerminated, uThrottled, uPending,
                       uAlive, uUrgent, uClient, uLock>>
    BY <1>19 DEF TcpSink!WriterExits
  <2>2. /\ uIo' \in Seq({"failed", "flight", "done", "over"}) /\ Len(uIo') = Len(uIo)
        /\ \A r \in TcpSink!Requests : ~InFlight(r)'
    <3> DEFINE over == [r \in 1 .. Len(uIo) |-> IF uIo[r] \in {"flight", "done"} THEN "over" ELSE uIo[r]]
    <3>1. uIo' = over
      BY <1>q, <1>19 DEF TcpSink!WriterExits
    <3>2. \A r \in 1 .. Len(uIo) : uIo[r] \in {"failed", "flight", "done", "over"}
      BY <1>1
    <3>3. \A r \in 1 .. Len(uIo) : over[r] \in {"failed", "over"}
      BY <3>2
    <3>4. over \in Seq({"failed", "flight", "done", "over"}) /\ Len(over) = Len(uIo)
      BY <1>1, <3>3
    <3> HIDE DEF over
    <3>5. QED
      BY <1>q, <3>1, <3>3, <3>4 DEF InFlight
  <2>3. TcpSink!TypeOK'
    BY <1>0, <1>r, <2>1, <2>2 DEF TcpSink!TypeOK
  <2>4. SinkListInv' /\ SinkTurnInv'
    BY <1>0, <1>r, <2>1, <2>2 DEF SinkListInv, SinkTurnInv
  <2>5. part # "udp_sink" => TcpSinkInv'
    BY <1>0, <2>1 DEF TcpSinkInv
  <2>6. part # "tcp_sink" => UdpSinkInv'
    BY <1>0, <1>r, <2>1 DEF UdpSinkInv
  <2>7. QED
    BY <1>0, <2>3, <2>4, <2>5, <2>6 DEF SinkInv
<1>20. CASE TcpSink!CloseEnd
  <2>1. uClient \in {"free", "close"} /\ uPending' = <<>> /\ uAlive' = {} /\ uClient' = "gone"
    <3>1. TcpSink!ToSet(uPending) = uAlive
      BY <1>0 DEF TcpSink!ToSet, SinkListInv, Elements
    <3>2. QED
      BY <1>20, <3>1 DEF TcpSink!CloseEnd
  <2>2. /\ uSocket' = "none" /\ uLock' = IF uLock = "client" THEN "none" ELSE uLock
        /\ UNCHANGED <<uConnected, uTerminating, uTerminated, uThrottled, uIo, uWriter, uUrgent>>
    BY <1>20 DEF TcpSink!CloseEnd
  <2>3. uPending' \in Seq(TcpSink!Requests) /\ Elements(uPending') = {} /\ Distinct(uPending')
    BY <2>1 DEF Elements, Distinct
  <2>4. uLock # "writer"
    BY <1>0, <2>1 DEF SinkTurnInv
  <2>5. TcpSink!TypeOK'
    BY <1>0, <1>r, <2>1, <2>2, <2>3, <2>4 DEF TcpSink!TypeOK
  <2>6. SinkListInv' /\ SinkTurnInv'
    BY <1>0, <1>r, <2>1, <2>2, <2>3, <2>4 DEF SinkListInv, SinkTurnInv, InFlight
  <2>7. part # "udp_sink" => TcpSinkInv'
    BY <1>0, <2>1, <2>2 DEF TcpSinkInv
  <2>8. part # "tcp_sink" => UdpSinkInv'
    BY <1>0, <2>1, <2>2 DEF UdpSinkInv
  <2>9. QED
    BY <1>0, <2>5, <2>6, <2>7, <2>8 DEF SinkInv
<1>21. ASSUME NEW r \in TcpSink!Requests, TcpSink!IoDone(r) PROVE SinkInv'
  <2> USE DEF TcpSink!IoDone
  <2>0. /\ uIo' = [uIo EXCEPT ![r] = "done"] /\ uIo[r] = "flight" /\ r \in 1 .. Len(uIo)
    BY <1>q, <1>21
  <2>00. uIo' \in Seq({"failed", "flight", "done", "over"}) /\ Len(uIo') = Len(uIo)
    BY <1>1, <2>0
  <2>01. \A q \in TcpSink!Requests : InFlight(q)' <=> InFlight(q)
    BY <1>1, <1>q, <2>0 DEF InFlight
  <2>1. TcpSink!TypeOK'
    BY <1>0, <1>r, <1>21, <2>0, <2>00, <2>01 DEF TcpSink!TypeOK
  <2>2. SinkListInv'
    BY <1>0, <1>r, <1>21, <2>0, <2>00, <2>01 DEF SinkListInv, SinkTurnInv, TcpSink!TypeOK
  <2>3. SinkTurnInv'
    BY <1>0, <1>r, <1>21, <2>0, <2>00, <2>01 DEF SinkTurnInv, TcpSink!TypeOK
  <2>4. part # "udp_sink" => TcpSinkInv'
    BY <1>0, <1>r, <1>21, <2>0, <2>00, <2>01 DEF TcpSinkInv, SinkTurnInv, TcpSink!TypeOK
  <2>5. part # "tcp_sink" => UdpSinkInv'
    BY <1>0, <1>r, <1>21, <2>0, <2>00, <2>01 DEF UdpSinkInv, SinkTurnInv, TcpSink!TypeOK
  <2>6. QED
    BY <1>0, <2>1, <2>2, <2>3, <2>4, <2>5 DEF SinkInv
<1>22. ASSUME NEW r \in TcpSink!Requests, TcpSink!Complete(r) PROVE SinkInv'
  <2>0. uIo' = [uIo EXCEPT ![r] = "over"] /\ uIo[r] = "done" /\ r \in 1 .. Len(uIo)
    BY <1>q, <1>22 DEF TcpSink!Complete
  <2>1. /\ uWriter \in {"wait", "connect"} /\ uIo[r] = "done"
        /\ uIo' \in Seq({"failed", "flight", "done", "over"}) /\ Len(uIo') = Len(uIo)
        /\ \A q \in TcpSink!Requests : InFlight(q)' <=> InFlight(q) /\ q # r
        /\ UNCHANGED <<uSocket, uConnected, uTerminating, uThrottled, uWriter, uUrgent, uClient, uLock>>
    <3>1. uIo' \in Seq({"failed", "flight", "done", "over"}) /\ Len(uIo') = Len(uIo)
      BY <1>1, <2>0
    <3>2. \A q \in TcpSink!Requests : InFlight(q)' <=> InFlight(q) /\ q # r
      BY <1>1, <1>q, <2>0 DEF InFlight
    <3>3. QED
      BY <1>22, <3>1, <3>2 DEF TcpSink!Complete
  <2>2. InFlight(r)
    BY <2>1 DEF InFlight
  <2>3. CASE r \in uAlive
    <3> DEFINE i == TcpSink!Place(r)
    <3>1. /\ uPending' = Without(uPending, i) /\ uAlive' = uAlive \ {r}
          /\ uTerminated' = (uTerminated \/ (uPending' = <<>> /\ uTerminating))
      BY <1>22, <2>3 DEF TcpSink!Complete, TcpSink!RemoveAt, Without
    <3>2. uPending \in Seq(TcpSink!Requests) /\ Distinct(uPending) /\ Elements(uPending) = uAlive
      BY <1>0, <1>p DEF SinkListInv
    <3>3. i \in 1 .. Len(uPending) /\ uPending[i] = r
      BY <2>3, <3>2 DEF TcpSink!Place, Elements
    <3> HIDE DEF i
    <3>4. /\ uPending' \in Seq(TcpSink!Requests) /\ Distinct(uPending') /\ Elements(uPending') = uAlive'
      BY <3>1, <3>2, <3>3, WithoutProperties, WithoutDistinct
    <3>5. uPending' = <<>> <=> uAlive' = {}
      <4>1. DOMAIN uPending' = 1 .. Len(uPending') /\ Len(uPending') \in Nat
        BY <3>4
      <4>2. uAlive' = {} => 1 \notin DOMAIN uPending'
        BY <3>4 DEF Elements
      <4>3. QED
        BY <3>4, <4>1, <4>2 DEF Elements
    <3>6. TcpSink!TypeOK'
      <4>1. uTerminated' \in BOOLEAN /\ uAlive' \subseteq TcpSink!Requests
        BY <1>0, <1>1, <3>1 DEF TcpSink!TypeOK
      <4>2. QED
        BY <1>0, <1>r, <2>1, <3>4, <4>1 DEF TcpSink!TypeOK
    <3>7. SinkListInv'
      BY <1>0, <1>r, <2>1, <3>1, <3>4 DEF SinkListInv
    <3>8. part # "udp_sink" => TcpSinkInv'
      BY <1>0, <2>1, <2>3, <3>2, <3>3 DEF TcpSinkInv
    <3>9. part # "tcp_sink" => UdpSinkInv'
      BY <1>0, <1>p, <2>1, <3>1 DEF UdpSinkInv
    <3>10. SinkTurnInv'
      <4>1. uClient = "await" => uTerminated' \/ \E q \in TcpSink!Requests : InFlight(q)'
        <5>1. SUFFICES ASSUME uClient = "await", uAlive' # {}
                       PROVE  \E q \in TcpSink!Requests : InFlight(q)'
          BY <1>0, <3>1, <3>5 DEF SinkTurnInv
        <5>2. UdpSinkInv
          BY <1>0, <2>1, <5>1 DEF TcpSinkInv
        <5>3. PICK q \in uAlive : q # r
          BY <3>1, <5>1
        <5>4. q \in TcpSink!Requests /\ InFlight(q)
          BY <1>p, <2>1, <5>2, <5>3 DEF UdpSinkInv
        <5>5. QED
          BY <2>1, <5>3, <5>4
      <4>2. QED
        BY <1>0, <1>r, <2>1, <4>1 DEF SinkTurnInv
    <3>11. QED
      BY <1>0, <3>6, <3>7, <3>8, <3>9, <3>10 DEF SinkInv
  <2>4. CASE r \notin uAlive
    <3>1. uClient = "gone" /\ UNCHANGED <<uPending, uAlive, uTerminated>>
      BY <1>0, <1>22, <2>2, <2>4 DEF TcpSink!Complete, SinkListInv
    <3>2. TcpSink!TypeOK'
      BY <1>0, <1>r, <2>1, <3>1 DEF TcpSink!TypeOK
    <3>3. SinkListInv' /\ SinkTurnInv'
      BY <1>0, <1>r, <2>1, <3>1 DEF SinkListInv, SinkTurnInv
    <3>4. part # "udp_sink" => TcpSinkInv'
      BY <1>0, <2>1, <3>1 DEF TcpSinkInv
    <3>5. part # "tcp_sink" => UdpSinkInv'
      BY <1>0, <1>p, <2>1, <2>4, <3>1 DEF UdpSinkInv
    <3>6. QED
      BY <1>0, <3>2, <3>3, <3>4, <3>5 DEF SinkInv
  <2>5. QED
    BY <2>3, <2>4
<1>23. CASE part \in {"tcp_sink", "udp_sink"} /\ SharedStep
  BY <1>23, <1>2, <1>3, <1>4, <1>5, <1>6, <1>7, <1>8, <1>9, <1>10, <1>11, <1>12,
     <1>17, <1>18, <1>19, <1>20, <1>21, <1>22 DEF SharedStep
<1>24. QED
  BY <1>23, <1>13, <1>14, <1>15, <1>17, <1>18

\* The list, the requests, the locks and the two threads of the sink of user mode
\* agree after every step, in both kinds of sink.
THEOREM SinkInvariant == Spec => []SinkInv
<1>1. ASSUME Init PROVE SinkInv
  <2>1. TcpSink!Init
    BY <1>1, Starts
  <2>2. /\ uPending = <<>> /\ uAlive = {} /\ uIo = <<>> /\ uWriter = "wait" /\ uClient = "idle"
        /\ uLock = "none" /\ uConnected = FALSE /\ uTerminating = FALSE
    BY <2>1 DEF TcpSink!Init
  <2>3. TcpSink!Requests = {}
    BY <2>2 DEF TcpSink!Requests
  <2>4. TcpSink!TypeOK
    <3>1. uPending \in Seq(TcpSink!Requests) /\ uAlive \subseteq TcpSink!Requests
      BY <2>2
    <3>2. uIo \in Seq({"failed", "flight", "done", "over"}) /\ Len(uIo) = 0
      BY <2>2
    <3>3. MaxRequests \in Nat
      BY ServicesAssumption DEF TcpSink!NetSinkAssumption
    <3>4. {uConnected, uTerminating, uTerminated, uThrottled, uUrgent} \subseteq BOOLEAN
      BY <2>1 DEF TcpSink!Init
    <3>5. Len(uIo) <= MaxRequests
      BY <3>2, <3>3
    <3>6. QED
      BY <2>1, <3>1, <3>2, <3>4, <3>5 DEF TcpSink!Init, TcpSink!TypeOK
  <2>5. SinkListInv
    BY <2>2, <2>3 DEF SinkListInv, Elements, Distinct
  <2>6. SinkTurnInv /\ TcpSinkInv /\ UdpSinkInv
    BY <2>2 DEF SinkTurnInv, TcpSinkInv, UdpSinkInv
  <2>7. QED
    BY <2>4, <2>5, <2>6 DEF SinkInv
<1>2. ASSUME SinkInv, [Next]_mcvars PROVE SinkInv'
  <2>1. CASE UNCHANGED sinkVars
    <3>1. part' = part
      BY <1>2, SinkMoves
    <3>2. TcpSink!Requests' = TcpSink!Requests
      BY <2>1 DEF sinkVars, TcpSink!Requests
    <3>3. QED
      BY <1>2, <2>1, <3>1, <3>2 DEF sinkVars, SinkInv, TcpSink!TypeOK, SinkListInv, SinkTurnInv,
         TcpSinkInv, UdpSinkInv, InFlight
  <2>2. CASE part = "tcp_sink" /\ TcpSink!Next
    BY <1>2, <2>2, SinkMoves, TcpSinkMoves, SinkStep
  <2>3. CASE part = "udp_sink" /\ UdpSink!Next
    BY <1>2, <2>3, SinkMoves, UdpSinkMoves, SinkStep
  <2>4. QED
    BY <1>2, <2>1, <2>2, <2>3, SinkMoves
<1>3. QED
  BY <1>1, <1>2, PTL DEF Spec

\* A completion routine yet to run finds its request allocated and listed; and
\* what is listed is what is allocated, each once, and nothing once the sink
\* is gone.
THEOREM RequestsAreSound == Spec => []SinkRequestsAreSound
<1>1. ASSUME SinkInv PROVE SinkRequestsAreSound
  <2>1. TcpSink!ToSet(uPending) = Elements(uPending)
    BY DEF TcpSink!ToSet, Elements
  <2>2. TcpSink!PendingIsAllocated
    BY <1>1, <2>1 DEF SinkInv, SinkListInv, TcpSink!PendingIsAllocated, TcpSink!IsInjective, Distinct
  <2>3. part = "tcp_sink" => TcpSink!CompletionFindsRequest
    <3>1. SUFFICES ASSUME part = "tcp_sink", NEW r \in TcpSink!Requests, InFlight(r)
                   PROVE  r \in uAlive
      BY <1>1, <2>1 DEF SinkInv, SinkListInv, InFlight, TcpSink!CompletionFindsRequest
    <3>2. uClient # "gone"
      BY <1>1, <3>1 DEF SinkInv, SinkTurnInv, TcpSinkInv
    <3>3. QED
      BY <1>1, <3>1, <3>2 DEF SinkInv, SinkListInv
  <2>4. QED
    BY <2>2, <2>3 DEF SinkRequestsAreSound
<1>2. QED
  BY <1>1, SinkInvariant, PTL

\* The wait for a connection meets no completion of the sink, and who waits for
\* the last completion has been told of it or will be.
THEOREM WaitsAreSound == Spec => []SinkWaitsAreSound
<1>1. ASSUME SinkInv PROVE SinkWaitsAreSound
  <2>1. TcpSink!ConnectsUndisturbed
    BY <1>1 DEF SinkInv, TcpSinkInv, UdpSinkInv, TcpSink!ConnectsUndisturbed
  <2>2. UdpSink!TerminationIsSignalled
    BY <1>1 DEF SinkInv, SinkTurnInv, InFlight, TcpSink!Requests, UdpSink!Requests,
       UdpSink!TerminationIsSignalled
  <2>3. QED
    BY <2>1, <2>2 DEF SinkWaitsAreSound
<1>2. QED
  BY <1>1, SinkInvariant, PTL

----------------------------------------------------------------------------
(* The list of kernel mode, link by link *)

KmNodes == 1 .. MaxRequests
KmAll == KmNodes \cup {Root}

LEMMA KmNodesAreNodes == Root \notin KmNodes /\ Null \notin KmAll /\ MaxRequests \in Nat
BY ServicesAssumption DEF KmNodes, KmAll, TcpSinkKm!NetSinkKmAssumption, TcpSinkKm!Requests

KmRing(next, prev, size, s) == RingOf(KmNodes, Root, Null, next, prev, size, s)

LEMMA KmSpots ==
    ASSUME NEW s \in Seq(KmNodes), Distinct(s)
    PROVE  /\ \A i \in 0 .. Len(s) : Spot(Root, s, i) \in KmAll
           /\ Spot(Root, s, Len(s) + 1) = Root
BY KmNodesAreNodes, SpotIsUnique DEF KmAll

LEMMA KmRingAdd ==
    ASSUME NEW s \in Seq(KmNodes), kNext \in [KmAll -> KmAll \cup {Null}],
           kPrev \in [KmAll -> KmAll \cup {Null}], KmRing(kNext, kPrev, kSize, s),
           NEW n \in KmNodes \ Elements(s)
    PROVE  KmRing([kNext EXCEPT ![n] = Root, ![kPrev[Root]] = n],
                  [kPrev EXCEPT ![n] = kPrev[Root], ![Root] = n], kSize + 1, Append(s, n))
BY KmNodesAreNodes, RingAdd DEF KmRing, KmAll

LEMMA KmRingDelete ==
    ASSUME NEW s \in Seq(KmNodes), kNext \in [KmAll -> KmAll \cup {Null}],
           kPrev \in [KmAll -> KmAll \cup {Null}], KmRing(kNext, kPrev, kSize, s),
           NEW i \in 1 .. Len(s)
    PROVE  KmRing([kNext EXCEPT ![kPrev[s[i]]] = kNext[s[i]], ![s[i]] = Null],
                  [kPrev EXCEPT ![kNext[s[i]]] = kPrev[s[i]], ![s[i]] = Null],
                  kSize - 1, Without(s, i))
BY KmNodesAreNodes, RingDelete DEF KmRing, KmAll

LEMMA KmLinks ==
    ASSUME NEW s \in Seq(KmNodes), KmRing(kNext, kPrev, kSize, s)
    PROVE  TcpSinkKm!Pending!LinksMatch
<1>1. /\ \A n \in Elements(s) \cup {Root} :
           /\ kNext[n] \in KmAll /\ kPrev[n] \in KmAll
           /\ kPrev[kNext[n]] = n /\ kNext[kPrev[n]] = n /\ kNext[n] # Null
      /\ \A n \in KmNodes \ Elements(s) : kNext[n] = Null /\ kPrev[n] = Null
  <2>1. /\ KmAll = KmNodes \cup {Root} /\ Root \notin KmNodes /\ Null \notin KmAll
        /\ RingOf(KmNodes, Root, Null, kNext, kPrev, kSize, s)
    BY KmNodesAreNodes DEF KmAll, KmRing
  <2>2. QED
    BY <2>1, RingLinks
<1>2. KmAll = TcpSinkKm!Pending!All
  BY DEF KmAll, KmNodes, TcpSinkKm!Pending!All, TcpSinkKm!Requests
<1>3. \A n \in KmAll : n \in Elements(s) \cup {Root} \/ n \in KmNodes \ Elements(s)
  BY DEF KmAll
<1>4. QED
  BY <1>1, <1>2, <1>3 DEF TcpSinkKm!Pending!LinksMatch, TcpSinkKm!Pending!Linked

LEMMA KmWalk ==
    ASSUME NEW s \in Seq(KmNodes), KmRing(kNext, kPrev, kSize, s)
    PROVE  TcpSinkKm!Pending!Walk = s /\ TcpSinkKm!Listed = Elements(s)
<1>1. TcpSinkKm!Pending!Walk = WalkOf(Root, kNext, kSize)
  BY DEF TcpSinkKm!Pending!Walk, WalkOf
<1>2. TcpSinkKm!Pending!Walk = s
  BY <1>1, RingWalk DEF KmRing
<1>3. Elements(s) \subseteq KmNodes /\ Null \notin KmNodes
  BY KmNodesAreNodes DEF Elements, KmAll
<1>4. QED
  BY <1>2, <1>3 DEF TcpSinkKm!Listed, TcpSinkKm!Range, Elements

----------------------------------------------------------------------------
(* The requests of kernel mode *)

KmFlights == {r \in KmNodes : kIo[r] \in {"flight", "erase"}}
KmErasing == {r \in KmNodes : kIo[r] = "erase"}

\* The loop that deletes pending requests runs beside completions: only if there
\* was no memory for the request to close the socket.
KmLoose == part = "udp_sink_km" /\ kPc \in {"free", "gone"}

KmTypes ==
    /\ kPc \in {"idle", "connection", "connect", "connected", "send", "link",
                "close", "closing", "free", "gone"}
    /\ {kUrgent, kConnected, kThrottled, kTorn} \subseteq BOOLEAN
    /\ kSocket \in {"none", "unbound", "open"}
    /\ kNext \in [KmAll -> KmAll \cup {Null}] /\ kPrev \in [KmAll -> KmAll \cup {Null}]
    /\ kPulled \in KmNodes \cup {Null}
    /\ kAlive \subseteq KmNodes /\ kTail \in KmAll
    /\ kIo \in [KmNodes -> {"new", "flight", "erase", "over"}]

\* The links are those of a sequence, of the requests in flight; until two
\* operations overlap it has the ones that are being erased.
KmListIs(s) ==
    /\ KmRing(kNext, kPrev, kSize, s)
    /\ KmLoose \/ Elements(s) = KmFlights
    /\ kTorn \/ KmErasing \subseteq Elements(s)
KmListInv == \E s \in Seq(KmNodes) : KmListIs(s)

\* Requests are made in order, and the next one is new.
KmFresh(k) == \A r \in KmNodes : kIo[r] # "new" <=> r <= k
KmNewInv == \E k \in 0 .. MaxRequests : KmFresh(k) /\ (kPc = "link" => k < MaxRequests)

\* What is allocated, and when nothing is in flight.
KmTurnInv ==
    /\ kPc = "link" => kTail = kPrev[Root]
    /\ kTorn \/ (KmErasing \subseteq kAlive /\ (kPc = "link" => KmErasing = {}))
    /\ ~KmLoose => kAlive = KmFlights \cup (IF kPc = "link" THEN {TcpSinkKm!NewRequest} ELSE {})
    /\ part # "udp_sink_km" =>
         /\ kPc \in {"free", "gone"} => KmFlights = {}
         /\ kSocket = "none" => kPc \in {"idle", "close", "free", "gone"} /\ KmFlights = {}

KmInv == KmTypes /\ KmListInv /\ KmNewInv /\ KmTurnInv

LEMMA KmCardinality ==
    /\ \A S : TcpSinkKm!Cardinality(S) = Cardinality(S)
    /\ \A S : UdpSinkKm!Cardinality(S) = Cardinality(S)
<1>1. \A S : (TcpSinkKm!IsFiniteSet(S) <=> IsFiniteSet(S)) /\ (UdpSinkKm!IsFiniteSet(S) <=> IsFiniteSet(S))
  BY DEF TcpSinkKm!IsFiniteSet, UdpSinkKm!IsFiniteSet, IsFiniteSet
<1>2. \A S : TcpSinkKm!Cardinality(S) = Cardinality(S)
  BY <1>1 DEF TcpSinkKm!Cardinality, Cardinality
<1>3. \A S : UdpSinkKm!Cardinality(S) = Cardinality(S)
  BY <1>1 DEF UdpSinkKm!Cardinality, Cardinality
<1>4. QED
  BY <1>2, <1>3

LEMMA KmNext ==
    ASSUME NEW k \in 0 .. MaxRequests, KmFresh(k)
    PROVE  TcpSinkKm!NewRequest = k + 1
<1>1. MaxRequests \in Nat /\ k \in Nat /\ k <= MaxRequests
  BY KmNodesAreNodes
<1>2. {r \in KmNodes : kIo[r] # "new"} = {r \in KmNodes : r <= k}
  BY DEF KmFresh
<1>3. {r \in KmNodes : r <= k} = 1 .. k
  BY <1>1 DEF KmNodes
<1>4. Cardinality(1 .. k) = k
  BY <1>1, FS_Interval
<1>5. TcpSinkKm!NewRequest = Cardinality({r \in KmNodes : kIo[r] # "new"}) + 1
  BY KmCardinality DEF TcpSinkKm!NewRequest, TcpSinkKm!Requests, KmNodes
<1>6. QED
  BY <1>2, <1>3, <1>4, <1>5

\* What the two sinks of kernel mode do alike.
KmShared ==
    \/ TcpSinkKm!CheckConnection \/ TcpSinkKm!ConnectDone \/ TcpSinkKm!Connected
    \/ TcpSinkKm!NoRequest \/ TcpSinkKm!MakeRequest \/ TcpSinkKm!Send
    \/ TcpSinkKm!Destroy \/ TcpSinkKm!CloseDone \/ TcpSinkKm!Free
    \/ TcpSinkKm!TimePasses
    \/ \E r \in KmNodes : TcpSinkKm!CompleteBegin(r) \/ TcpSinkKm!Complete(r)

LEMMA TcpSinkKmMoves ==
    ASSUME TcpSinkKm!Next
    PROVE  ~kTorn /\ (KmShared \/ TcpSinkKm!CheckSocket \/ TcpSinkKm!CloseBegin)
BY DEF TcpSinkKm!Next, TcpSinkKm!Write, TcpSinkKm!Close, KmShared, TcpSinkKm!Requests, KmNodes

LEMMA UdpSinkKmMoves ==
    ASSUME UdpSinkKm!Next
    PROVE  ~kTorn /\ (KmShared \/ UdpSinkKm!CheckSocket \/ UdpSinkKm!CloseBegin)
<1> USE DEF TcpSinkKm!state, TcpSinkKm!list, TcpSinkKm!reqs, UdpSinkKm!state, UdpSinkKm!list, UdpSinkKm!reqs
<1>1. TcpSinkKm!Requests = UdpSinkKm!Requests
  BY DEF TcpSinkKm!Requests, UdpSinkKm!Requests
<1>2. TcpSinkKm!NewRequest = UdpSinkKm!NewRequest
  BY <1>1, KmCardinality DEF TcpSinkKm!NewRequest, UdpSinkKm!NewRequest
<1>3. TcpSinkKm!Listed = UdpSinkKm!Listed
  <2>1. TcpSinkKm!Pending!Walk = UdpSinkKm!Pending!Walk
    BY DEF TcpSinkKm!Pending!Walk, UdpSinkKm!Pending!Walk
  <2>2. QED
    BY <2>1 DEF TcpSinkKm!Listed, UdpSinkKm!Listed, TcpSinkKm!Range, UdpSinkKm!Range
<1>a. /\ UdpSinkKm!Erasing = TcpSinkKm!Erasing
      /\ \A r : UdpSinkKm!InFlight(r) <=> TcpSinkKm!InFlight(r)
  BY <1>1 DEF UdpSinkKm!Erasing, TcpSinkKm!Erasing, UdpSinkKm!InFlight, TcpSinkKm!InFlight
<1>4. UdpSinkKm!CheckConnection => TcpSinkKm!CheckConnection
  BY <1>1, <1>2 DEF UdpSinkKm!CheckConnection, TcpSinkKm!CheckConnection
<1>5. UdpSinkKm!ConnectDone => TcpSinkKm!ConnectDone
  BY <1>1, <1>2 DEF UdpSinkKm!ConnectDone, TcpSinkKm!ConnectDone
<1>6. UdpSinkKm!Connected => TcpSinkKm!Connected
  BY <1>1, <1>2 DEF UdpSinkKm!Connected, TcpSinkKm!Connected
<1>7. UdpSinkKm!NoRequest => TcpSinkKm!NoRequest
  BY <1>1, <1>2 DEF UdpSinkKm!NoRequest, TcpSinkKm!NoRequest
<1>8. UdpSinkKm!MakeRequest => TcpSinkKm!MakeRequest
  BY <1>1, <1>2, <1>a DEF UdpSinkKm!MakeRequest, TcpSinkKm!MakeRequest
<1>9. UdpSinkKm!Send => TcpSinkKm!Send
  BY <1>1, <1>2 DEF UdpSinkKm!Send, TcpSinkKm!Send, UdpSinkKm!Pending!Add, TcpSinkKm!Pending!Add
<1>10. UdpSinkKm!Destroy => TcpSinkKm!Destroy
  BY <1>1, <1>2 DEF UdpSinkKm!Destroy, TcpSinkKm!Destroy
<1>11. UdpSinkKm!CloseDone => TcpSinkKm!CloseDone
  BY <1>1, <1>2, <1>a DEF UdpSinkKm!CloseDone, TcpSinkKm!CloseDone, UdpSinkKm!Requests, TcpSinkKm!Requests
<1>12. UdpSinkKm!Free => TcpSinkKm!Free
  BY <1>1, <1>2, <1>a DEF UdpSinkKm!Free, TcpSinkKm!Free, UdpSinkKm!Pending!pull_front, UdpSinkKm!Pending!Pull, UdpSinkKm!Pending!Delete, TcpSinkKm!Pending!pull_front, TcpSinkKm!Pending!Pull, TcpSinkKm!Pending!Delete
<1>13. UdpSinkKm!TimePasses => TcpSinkKm!TimePasses
  BY <1>1, <1>2 DEF UdpSinkKm!TimePasses, TcpSinkKm!TimePasses
<1>14. ASSUME NEW r \in KmNodes, UdpSinkKm!Complete(r) PROVE TcpSinkKm!Complete(r)
  BY <1>14 DEF UdpSinkKm!Complete, TcpSinkKm!Complete, UdpSinkKm!Pending!Delete, TcpSinkKm!Pending!Delete
<1>b. ASSUME NEW r \in KmNodes, UdpSinkKm!CompleteBegin(r) PROVE TcpSinkKm!CompleteBegin(r)
  BY <1>3, <1>a, <1>b DEF UdpSinkKm!CompleteBegin, TcpSinkKm!CompleteBegin
<1>15. QED
  BY <1>4, <1>5, <1>6, <1>7, <1>8, <1>9, <1>10, <1>11, <1>12, <1>13, <1>14, <1>b DEF UdpSinkKm!Next, UdpSinkKm!Write,
     UdpSinkKm!Close, UdpSinkKm!Requests, KmNodes, KmShared

LEMMA KmStep ==
    ASSUME KmInv, ~kTorn, part' = part,
           \/ part \in {"tcp_sink_km", "udp_sink_km"} /\ KmShared
           \/ part = "tcp_sink_km" /\ (TcpSinkKm!CheckSocket \/ TcpSinkKm!CloseBegin)
           \/ part = "udp_sink_km" /\ (UdpSinkKm!CheckSocket \/ UdpSinkKm!CloseBegin)
    PROVE  KmInv'
<1>0. KmTypes /\ KmListInv /\ KmNewInv /\ KmTurnInv /\ part' = part
  BY DEF KmInv
<1>1. MaxRequests \in Nat /\ KmNodes = 1 .. MaxRequests /\ Root \notin KmNodes /\ Null \notin KmAll
      /\ KmAll = KmNodes \cup {Root}
  BY KmNodesAreNodes DEF KmNodes, KmAll
<1>2. PICK s \in Seq(KmNodes) :
        /\ KmRing(kNext, kPrev, kSize, s)
        /\ KmLoose \/ Elements(s) = KmFlights
        /\ KmErasing \subseteq Elements(s)
  BY <1>0 DEF KmListInv, KmListIs
<1>3. PICK k \in 0 .. MaxRequests : KmFresh(k) /\ (kPc = "link" => k < MaxRequests)
  BY <1>0 DEF KmNewInv
<1>4. TcpSinkKm!NewRequest = k + 1 /\ k \in Nat /\ k <= MaxRequests
  BY <1>1, <1>3, KmNext
<1>5. kIo' = kIo => /\ TcpSinkKm!NewRequest' = TcpSinkKm!NewRequest
                    /\ KmFlights' = KmFlights /\ KmErasing' = KmErasing
  BY DEF TcpSinkKm!NewRequest, TcpSinkKm!Requests, KmFlights, KmErasing
<1>6. /\ kNext \in [KmAll -> KmAll \cup {Null}] /\ kPrev \in [KmAll -> KmAll \cup {Null}]
      /\ kIo \in [KmNodes -> {"new", "flight", "erase", "over"}]
  BY <1>0 DEF KmTypes
<1>7. /\ \A i \in 1 .. Len(s) : s[i] \in KmNodes
      /\ Elements(s) = {s[i] : i \in 1 .. Len(s)} /\ Len(s) \in Nat
  BY DEF Elements
<1>8. TcpSinkKm!Requests = KmNodes
  BY DEF KmNodes, TcpSinkKm!Requests
<1> USE DEF TcpSinkKm!state, TcpSinkKm!list, TcpSinkKm!reqs
<1>9. CASE TcpSinkKm!CheckConnection
  <2> USE DEF TcpSinkKm!CheckConnection
  <2>1. KmTypes'
    BY <1>0, <1>9 DEF KmTypes
  <2>2. KmListInv'
    BY <1>0, <1>2, <1>5, <1>9 DEF KmListInv, KmListIs, KmLoose
  <2>3. KmNewInv'
    BY <1>0, <1>9 DEF KmNewInv, KmFresh
  <2>4. KmTurnInv'
    BY <1>0, <1>5, <1>9 DEF KmTurnInv, KmTypes, KmLoose
  <2>5. QED
    BY <2>1, <2>2, <2>3, <2>4 DEF KmInv
<1>10. CASE TcpSinkKm!ConnectDone
  <2> USE DEF TcpSinkKm!ConnectDone
  <2>1. KmTypes'
    BY <1>0, <1>10 DEF KmTypes
  <2>2. KmListInv'
    BY <1>0, <1>2, <1>5, <1>10 DEF KmListInv, KmListIs, KmLoose
  <2>3. KmNewInv'
    BY <1>0, <1>10 DEF KmNewInv, KmFresh
  <2>4. KmTurnInv'
    BY <1>0, <1>5, <1>10 DEF KmTurnInv, KmTypes, KmLoose
  <2>5. QED
    BY <2>1, <2>2, <2>3, <2>4 DEF KmInv
<1>11. CASE TcpSinkKm!Connected
  <2> USE DEF TcpSinkKm!Connected
  <2>1. KmTypes'
    BY <1>0, <1>11 DEF KmTypes
  <2>2. KmListInv'
    BY <1>0, <1>2, <1>5, <1>11 DEF KmListInv, KmListIs, KmLoose
  <2>3. KmNewInv'
    BY <1>0, <1>11 DEF KmNewInv, KmFresh
  <2>4. KmTurnInv'
    BY <1>0, <1>5, <1>11 DEF KmTurnInv, KmTypes, KmLoose
  <2>5. QED
    BY <2>1, <2>2, <2>3, <2>4 DEF KmInv
<1>12. CASE TcpSinkKm!NoRequest
  <2> USE DEF TcpSinkKm!NoRequest
  <2>1. KmTypes'
    BY <1>0, <1>12 DEF KmTypes
  <2>2. KmListInv'
    BY <1>0, <1>2, <1>5, <1>12 DEF KmListInv, KmListIs, KmLoose
  <2>3. KmNewInv'
    BY <1>0, <1>12 DEF KmNewInv, KmFresh
  <2>4. KmTurnInv'
    BY <1>0, <1>5, <1>12 DEF KmTurnInv, KmTypes, KmLoose
  <2>5. QED
    BY <2>1, <2>2, <2>3, <2>4 DEF KmInv
<1>13. CASE TcpSinkKm!Destroy
  <2> USE DEF TcpSinkKm!Destroy
  <2>1. KmTypes'
    BY <1>0, <1>13 DEF KmTypes
  <2>2. KmListInv'
    BY <1>0, <1>2, <1>5, <1>13 DEF KmListInv, KmListIs, KmLoose
  <2>3. KmNewInv'
    BY <1>0, <1>13 DEF KmNewInv, KmFresh
  <2>4. KmTurnInv'
    BY <1>0, <1>5, <1>13 DEF KmTurnInv, KmTypes, KmLoose
  <2>5. QED
    BY <2>1, <2>2, <2>3, <2>4 DEF KmInv
<1>14. CASE TcpSinkKm!TimePasses
  <2> USE DEF TcpSinkKm!TimePasses
  <2>1. KmTypes'
    BY <1>0, <1>14 DEF KmTypes
  <2>2. KmListInv'
    BY <1>0, <1>2, <1>5, <1>14 DEF KmListInv, KmListIs, KmLoose
  <2>3. KmNewInv'
    BY <1>0, <1>14 DEF KmNewInv, KmFresh
  <2>4. KmTurnInv'
    BY <1>0, <1>5, <1>14 DEF KmTurnInv, KmTypes, KmLoose
  <2>5. QED
    BY <2>1, <2>2, <2>3, <2>4 DEF KmInv
<1>15. CASE TcpSinkKm!CloseDone
  <2> USE DEF TcpSinkKm!CloseDone
  <2>0. KmFlights = {}
    BY <1>8, <1>15 DEF KmFlights, TcpSinkKm!InFlight
  <2>1. KmTypes'
    BY <1>0, <1>15 DEF KmTypes
  <2>2. KmListInv'
    BY <1>0, <1>2, <1>5, <1>15 DEF KmListInv, KmListIs, KmLoose
  <2>3. KmNewInv'
    BY <1>0, <1>15 DEF KmNewInv, KmFresh
  <2>4. KmTurnInv'
    BY <1>0, <1>5, <1>15, <2>0 DEF KmTurnInv, KmTypes, KmLoose
  <2>5. QED
    BY <2>1, <2>2, <2>3, <2>4 DEF KmInv
<1>16. CASE part = "tcp_sink_km" /\ TcpSinkKm!CheckSocket
  <2> USE DEF TcpSinkKm!CheckSocket, TcpSinkKm!state, TcpSinkKm!list, TcpSinkKm!reqs
  <2>1. KmTypes'
    BY <1>0, <1>16 DEF KmTypes
  <2>2. KmListInv'
    BY <1>0, <1>2, <1>5, <1>16 DEF KmListInv, KmListIs, KmLoose
  <2>3. KmNewInv'
    BY <1>0, <1>16 DEF KmNewInv, KmFresh
  <2>4. KmTurnInv'
    BY <1>0, <1>5, <1>16 DEF KmTurnInv, KmTypes, KmLoose
  <2>5. QED
    BY <2>1, <2>2, <2>3, <2>4 DEF KmInv
<1>17. CASE part = "udp_sink_km" /\ UdpSinkKm!CheckSocket
  <2> USE DEF UdpSinkKm!CheckSocket, UdpSinkKm!state, UdpSinkKm!list, UdpSinkKm!reqs
  <2>1. KmTypes'
    BY <1>0, <1>17 DEF KmTypes
  <2>2. KmListInv'
    BY <1>0, <1>2, <1>5, <1>17 DEF KmListInv, KmListIs, KmLoose
  <2>3. KmNewInv'
    BY <1>0, <1>17 DEF KmNewInv, KmFresh
  <2>4. KmTurnInv'
    BY <1>0, <1>5, <1>17 DEF KmTurnInv, KmTypes, KmLoose
  <2>5. QED
    BY <2>1, <2>2, <2>3, <2>4 DEF KmInv
<1>18. CASE part = "tcp_sink_km" /\ TcpSinkKm!CloseBegin
  <2> USE DEF TcpSinkKm!CloseBegin, TcpSinkKm!state, TcpSinkKm!list, TcpSinkKm!reqs
  <2>1. KmTypes'
    BY <1>0, <1>18 DEF KmTypes
  <2>2. KmListInv'
    BY <1>0, <1>2, <1>5, <1>18 DEF KmListInv, KmListIs, KmLoose
  <2>3. KmNewInv'
    BY <1>0, <1>18 DEF KmNewInv, KmFresh
  <2>4. KmTurnInv'
    BY <1>0, <1>5, <1>18 DEF KmTurnInv, KmTypes, KmLoose
  <2>5. QED
    BY <2>1, <2>2, <2>3, <2>4 DEF KmInv
<1>19. CASE part = "udp_sink_km" /\ UdpSinkKm!CloseBegin
  <2> USE DEF UdpSinkKm!CloseBegin, UdpSinkKm!state, UdpSinkKm!list, UdpSinkKm!reqs
  <2>1. KmTypes'
    BY <1>0, <1>19 DEF KmTypes
  <2>2. KmListInv'
    BY <1>0, <1>2, <1>5, <1>19 DEF KmListInv, KmListIs, KmLoose
  <2>3. KmNewInv'
    BY <1>0, <1>19 DEF KmNewInv, KmFresh
  <2>4. KmTurnInv'
    BY <1>0, <1>5, <1>19 DEF KmTurnInv, KmTypes, KmLoose
  <2>5. QED
    BY <2>1, <2>2, <2>3, <2>4 DEF KmInv
<1>20. CASE TcpSinkKm!MakeRequest
  <2> USE DEF TcpSinkKm!MakeRequest
  <2>1. k + 1 \in KmNodes /\ k < MaxRequests
    BY <1>1, <1>4, <1>8, <1>20
  <2>b. TcpSinkKm!Erasing = KmErasing /\ kTorn' = (KmErasing # {})
    BY <1>8, <1>20 DEF TcpSinkKm!Erasing, KmErasing
  <2>a. kPrev[Root] \in KmAll
    <3>1. Len(s) \in 0 .. Len(s)
      BY <1>7
    <3>2. kPrev[Root] = Spot(Root, s, Len(s)) /\ Spot(Root, s, Len(s)) \in KmAll
      BY <1>2, <3>1, KmSpots DEF KmRing, RingOf
    <3>3. QED
      BY <3>2
  <2>2. KmTypes'
    BY <1>0, <1>1, <1>4, <1>20, <2>1, <2>a, <2>b DEF KmTypes
  <2>3. KmListInv'
    BY <1>0, <1>2, <1>5, <1>20 DEF KmListInv, KmListIs, KmLoose
  <2>4. KmNewInv'
    BY <1>0, <1>3, <1>20, <2>1 DEF KmNewInv, KmFresh
  <2>5. KmTurnInv'
    <3>1. /\ kPc = "send" /\ kPc' = "link" /\ kTail' = kPrev'[Root]
          /\ kAlive' = kAlive \cup {TcpSinkKm!NewRequest} /\ kSocket' = kSocket /\ kIo' = kIo
      BY <1>20
    <3>2. kTorn' \/ (KmErasing' = {} /\ KmErasing' \subseteq kAlive')
      BY <1>5, <2>b, <3>1
    <3>3. ~KmLoose /\ kAlive = KmFlights
      BY <1>0, <3>1 DEF KmTurnInv, KmLoose
    <3>4. kAlive' = KmFlights' \cup {TcpSinkKm!NewRequest'}
      BY <1>5, <3>1, <3>3
    <3>5. QED
      BY <1>0, <3>1, <3>2, <3>4 DEF KmTurnInv
  <2>6. QED
    BY <2>2, <2>3, <2>4, <2>5 DEF KmInv
<1>21. CASE TcpSinkKm!Send
  <2> DEFINE r == k + 1
  <2>1. /\ kPc = "link" /\ kPc' = "idle" /\ kIo' = [kIo EXCEPT ![r] = "flight"]
        /\ UNCHANGED <<kUrgent, kSocket, kConnected, kThrottled, kPulled, kTail, kAlive, kTorn>>
        /\ kNext' = [kNext EXCEPT ![r] = Root, ![kTail] = r]
        /\ kPrev' = [kPrev EXCEPT ![r] = kTail, ![Root] = r] /\ kSize' = kSize + 1
    BY <1>4, <1>21 DEF TcpSinkKm!Send, TcpSinkKm!Pending!Add
  <2>2. r \in KmNodes /\ kIo[r] = "new" /\ r \in KmAll /\ kTail = kPrev[Root] /\ Root \in KmAll
    BY <1>0, <1>1, <1>3, <1>4, <2>1 DEF KmFresh, KmTurnInv
  <2>3. Elements(s) = KmFlights /\ r \notin Elements(s) /\ ~KmLoose
    BY <1>2, <2>1, <2>2 DEF KmLoose, KmFlights
  <2> HIDE DEF r
  <2>4. KmRing(kNext', kPrev', kSize', Append(s, r))
    BY <1>2, <1>6, <2>1, <2>2, <2>3, KmRingAdd
  <2>5. Append(s, r) \in Seq(KmNodes) /\ Elements(Append(s, r)) = Elements(s) \cup {r}
    BY <1>2, <2>2, <2>3, AppendDistinct DEF KmRing, RingOf
  <2>6. KmFlights' = KmFlights \cup {r} /\ KmErasing' = KmErasing
    BY <1>6, <2>1, <2>2 DEF KmFlights, KmErasing
  <2>7. KmListInv'
    BY <1>2, <2>3, <2>4, <2>5, <2>6 DEF KmListInv, KmListIs
  <2>8. KmTypes'
    BY <1>0, <1>6, <2>1, <2>2 DEF KmTypes
  <2>9. KmNewInv'
    <3>1. r \in 0 .. MaxRequests
      BY <1>1, <2>2
    <3>2. \A q \in KmNodes : kIo'[q] # "new" <=> q <= r
      BY <1>1, <1>3, <1>4, <1>6, <2>1, <2>2 DEF KmFresh, r
    <3>3. QED
      BY <2>1, <3>1, <3>2 DEF KmNewInv, KmFresh
  <2>10. KmTurnInv'
    BY <1>0, <1>4, <2>1, <2>3, <2>6 DEF KmTurnInv, KmLoose, r
  <2>11. QED
    BY <2>7, <2>8, <2>9, <2>10 DEF KmInv
<1>22. ASSUME NEW r \in KmNodes, TcpSinkKm!Complete(r)
      PROVE  KmInv'
  <2>1. /\ kIo[r] = "erase" /\ kIo' = [kIo EXCEPT ![r] = "over"]
        /\ kNext' = [kNext EXCEPT ![kPrev[r]] = kNext[r], ![r] = Null]
        /\ kPrev' = [kPrev EXCEPT ![kNext[r]] = kPrev[r], ![r] = Null]
        /\ kSize' = kSize - 1 /\ kAlive' = kAlive \ {r}
        /\ UNCHANGED <<kPc, kUrgent, kConnected, kSocket, kThrottled, kTail, kPulled, kTorn>>
    BY <1>22 DEF TcpSinkKm!Complete, TcpSinkKm!Pending!Delete
  <2>2. /\ KmFlights' = KmFlights \ {r} /\ r \in KmFlights
        /\ KmErasing' = KmErasing \ {r} /\ r \in KmErasing
    BY <1>6, <2>1 DEF KmFlights, KmErasing
  <2>3. r \in kAlive /\ r \in Elements(s) /\ kPc # "link"
    BY <1>0, <1>2, <2>2 DEF KmTurnInv
  <2>4. KmLoose' = KmLoose
    BY <1>0, <2>1 DEF KmLoose
  <2>5. KmNewInv'
    <3>1. \A q \in KmNodes : kIo'[q] # "new" <=> kIo[q] # "new"
      BY <1>6, <2>1
    <3>2. QED
      BY <1>3, <2>1, <3>1 DEF KmNewInv, KmFresh
  <2>6. PICK i \in 1 .. Len(s) : s[i] = r
    BY <1>7, <2>3
  <2>7. /\ KmRing(kNext', kPrev', kSize', Without(s, i))
        /\ Without(s, i) \in Seq(KmNodes) /\ Elements(Without(s, i)) = Elements(s) \ {r}
    <3>1. KmRing(kNext', kPrev', kSize', Without(s, i))
      BY <1>2, <1>6, <2>1, <2>6, KmRingDelete
    <3>2. QED
      BY <1>2, <2>6, <3>1, WithoutProperties, WithoutDistinct DEF KmRing, RingOf
  <2>8. KmListInv'
    BY <1>2, <2>2, <2>4, <2>7 DEF KmListInv, KmListIs
  <2>9. KmTypes'
    <3>1. r \in KmAll /\ kNext[r] \in KmAll \cup {Null} /\ kPrev[r] \in KmAll \cup {Null}
      BY <1>1, <1>6
    <3>2. kNext' \in [KmAll -> KmAll \cup {Null}] /\ kPrev' \in [KmAll -> KmAll \cup {Null}]
      BY <1>6, <2>1, <3>1
    <3>3. kIo' \in [KmNodes -> {"new", "flight", "erase", "over"}]
      BY <1>6, <2>1
    <3>4. QED
      BY <1>0, <2>1, <3>2, <3>3 DEF KmTypes
  <2>10. KmTurnInv'
    BY <1>0, <2>1, <2>2, <2>3, <2>4 DEF KmTurnInv
  <2>11. QED
    BY <2>5, <2>8, <2>9, <2>10 DEF KmInv
<1>25. ASSUME NEW r \in KmNodes, TcpSinkKm!CompleteBegin(r)
      PROVE  KmInv'
  <2>1. /\ kIo[r] = "flight" /\ kConnected' \in {kConnected, FALSE}
        /\ UNCHANGED <<kPc, kUrgent, kSocket, kThrottled, kNext, kPrev, kSize, kPulled, kTail, kAlive>>
    BY <1>25 DEF TcpSinkKm!CompleteBegin
  <2>2. TcpSinkKm!Listed = Elements(s) /\ TcpSinkKm!Erasing = KmErasing
    BY <1>2, <1>8, KmWalk DEF TcpSinkKm!Erasing, KmErasing
  <2>3. KmLoose' = KmLoose
    BY <1>0, <2>1 DEF KmLoose
  <2>4. CASE r \in kAlive \cap Elements(s)
    <3>1. kIo' = [kIo EXCEPT ![r] = "erase"] /\ kTorn' = (kPc = "link" \/ KmErasing # {})
      BY <1>25, <2>2, <2>4 DEF TcpSinkKm!CompleteBegin
    <3>2. KmFlights' = KmFlights /\ KmErasing' = KmErasing \cup {r}
      BY <1>6, <2>1, <3>1 DEF KmFlights, KmErasing
    <3>3. KmTypes'
      <4>1. kIo' \in [KmNodes -> {"new", "flight", "erase", "over"}]
        BY <1>6, <3>1
      <4>2. QED
        BY <1>0, <2>1, <3>1, <4>1 DEF KmTypes
    <3>4. KmListInv'
      BY <1>2, <2>1, <2>3, <2>4, <3>2 DEF KmListInv, KmListIs
    <3>5. KmNewInv' /\ TcpSinkKm!NewRequest' = TcpSinkKm!NewRequest
      <4>1. \A q \in KmNodes : kIo'[q] # "new" <=> kIo[q] # "new"
        BY <1>6, <2>1, <3>1
      <4>2. KmNewInv'
        BY <1>3, <2>1, <4>1 DEF KmNewInv, KmFresh
      <4>3. QED
        BY <1>8, <4>1, <4>2 DEF TcpSinkKm!NewRequest, TcpSinkKm!Requests, KmNodes
    <3>6. KmTurnInv'
      <4>1. kTorn' \/ kPc' # "link"
        BY <2>1, <3>1
      <4>2. KmErasing' \subseteq kAlive'
        BY <1>0, <2>1, <2>4, <3>2 DEF KmTurnInv
      <4>3. QED
        BY <1>0, <2>1, <2>3, <3>2, <3>5, <4>1, <4>2 DEF KmTurnInv
    <3>7. QED
      BY <3>3, <3>4, <3>5, <3>6 DEF KmInv
  <2>5. CASE r \notin kAlive \cap Elements(s)
    <3>1. kIo' = [kIo EXCEPT ![r] = "over"] /\ kTorn' = kTorn
      BY <1>25, <2>2, <2>5 DEF TcpSinkKm!CompleteBegin
    <3>2. KmLoose
      <4>1. r \in KmFlights
        BY <2>1 DEF KmFlights
      <4>2. QED
        BY <1>0, <1>2, <2>5, <4>1 DEF KmTurnInv
    <3>3. KmErasing' = KmErasing
      BY <1>6, <2>1, <3>1 DEF KmErasing
    <3>4. KmTypes'
      <4>1. kIo' \in [KmNodes -> {"new", "flight", "erase", "over"}]
        BY <1>6, <3>1
      <4>2. QED
        BY <1>0, <2>1, <3>1, <4>1 DEF KmTypes
    <3>5. KmListInv'
      BY <1>2, <2>1, <2>3, <3>2, <3>3 DEF KmListInv, KmListIs
    <3>6. KmNewInv'
      <4>1. \A q \in KmNodes : kIo'[q] # "new" <=> kIo[q] # "new"
        BY <1>6, <2>1, <3>1
      <4>2. QED
        BY <1>3, <2>1, <4>1 DEF KmNewInv, KmFresh
    <3>7. KmTurnInv'
      BY <1>0, <2>1, <2>3, <3>1, <3>2, <3>3 DEF KmTurnInv, KmLoose
    <3>8. QED
      BY <3>4, <3>5, <3>6, <3>7 DEF KmInv
  <2>6. QED
    BY <2>4, <2>5
<1>23. CASE TcpSinkKm!Free
  <2>1. /\ kPc = "free" /\ kPc' \in {"gone", "free"} /\ kAlive' = kAlive \ {kPulled}
        /\ UNCHANGED <<kUrgent, kSocket, kConnected, kThrottled, kTail, kIo>>
    BY <1>23 DEF TcpSinkKm!Free
  <2>2. /\ KmFlights' = KmFlights /\ KmLoose' = KmLoose
        /\ kTorn' \in BOOLEAN /\ (kTorn' \/ KmErasing' = {})
    <3>1. KmErasing' = KmErasing /\ kTorn' = (KmErasing # {})
      BY <1>8, <1>23, <2>1 DEF KmErasing, TcpSinkKm!Free, TcpSinkKm!Erasing
    <3>2. QED
      BY <1>0, <2>1, <3>1 DEF KmLoose, KmFlights
  <2>3. KmNewInv'
    BY <1>3, <2>1 DEF KmNewInv, KmFresh
  <2>4. KmTurnInv'
    BY <1>0, <2>1, <2>2 DEF KmTurnInv, KmLoose
  <2>5. Len(s) = 0 => kNext[Root] = Root
    BY <1>2, <1>7, KmSpots DEF KmRing, RingOf, Spot
  <2>6. Len(s) # 0 => 1 \in 1 .. Len(s) /\ kNext[Root] = s[1] /\ s[1] \in KmNodes
    <3>1. 0 \in 0 .. Len(s) /\ 0 \notin 1 .. Len(s)
      BY <1>7
    <3>2. Len(s) # 0 => 1 \in 1 .. Len(s)
      BY <1>7
    <3>3. kNext[Root] = Spot(Root, s, 0 + 1)
      BY <1>2, <3>1 DEF KmRing, RingOf, Spot
    <3>4. QED
      BY <1>7, <3>2, <3>3 DEF Spot
  <2>7. CASE Len(s) = 0
    <3>1. UNCHANGED <<kNext, kPrev, kSize>> /\ kPulled' = Null
      BY <1>23, <2>5, <2>7 DEF TcpSinkKm!Free, TcpSinkKm!Pending!pull_front, TcpSinkKm!Pending!Pull
    <3>2. KmListInv'
      BY <1>2, <2>2, <3>1 DEF KmListInv, KmListIs
    <3>3. KmTypes'
      BY <1>0, <2>1, <2>2, <3>1 DEF KmTypes
    <3>4. QED
      BY <2>3, <2>4, <3>2, <3>3 DEF KmInv
  <2>8. CASE Len(s) # 0
    <3> DEFINE r == s[1]
    <3>1. /\ kNext' = [kNext EXCEPT ![kPrev[r]] = kNext[r], ![r] = Null]
          /\ kPrev' = [kPrev EXCEPT ![kNext[r]] = kPrev[r], ![r] = Null]
          /\ kSize' = kSize - 1 /\ kPulled' = r
      BY <1>1, <1>23, <2>6, <2>8
         DEF TcpSinkKm!Free, TcpSinkKm!Pending!pull_front, TcpSinkKm!Pending!Pull, TcpSinkKm!Pending!Delete
    <3>2. KmLoose
      <4>1. r \in Elements(s)
        BY <1>7, <2>6, <2>8
      <4>2. QED
        BY <1>0, <1>2, <2>1, <4>1 DEF KmTurnInv, KmLoose
    <3>3. KmRing(kNext', kPrev', kSize', Without(s, 1)) /\ Without(s, 1) \in Seq(KmNodes)
      <4>1. KmRing(kNext', kPrev', kSize', Without(s, 1))
        BY <1>2, <1>6, <2>6, <2>8, <3>1, KmRingDelete
      <4>2. QED
        BY <2>6, <2>8, <4>1, WithoutProperties
    <3>4. KmListInv'
      BY <2>2, <3>2, <3>3 DEF KmListInv, KmListIs
    <3>5. KmTypes'
      <4> HIDE DEF r
      <4>1. r \in KmNodes
        BY <2>6, <2>8 DEF r
      <4>2. r \in KmAll /\ kNext[r] \in KmAll \cup {Null} /\ kPrev[r] \in KmAll \cup {Null}
        BY <1>1, <1>6, <4>1
      <4>3. kNext' \in [KmAll -> KmAll \cup {Null}] /\ kPrev' \in [KmAll -> KmAll \cup {Null}]
        BY <1>6, <3>1, <4>2
      <4>4. QED
        BY <1>0, <2>1, <2>2, <3>1, <4>1, <4>3 DEF KmTypes
    <3>6. QED
      BY <2>3, <2>4, <3>4, <3>5 DEF KmInv
  <2>9. QED
    BY <2>7, <2>8
<1>24. QED
  BY <1>9, <1>10, <1>11, <1>12, <1>13, <1>14, <1>15, <1>16, <1>17, <1>18, <1>19, <1>20, <1>21, <1>22, <1>23, <1>25 DEF KmShared

\* The sequence behind the links, and what is allocated, in flight and new, agree
\* after every step of either sink of kernel mode.
THEOREM KmInvariant == Spec => []KmInv
<1>1. ASSUME Init PROVE KmInv
  <2>1. TcpSinkKm!Init /\ part \in {"tcp_sink", "udp_sink", "tcp_sink_km", "udp_sink_km",
                       "tcp_server", "udp_server", "window", "guard", "heap", "timer"}
    BY <1>1, Starts
  <2>2. /\ Root \notin KmNodes /\ Null \notin KmAll /\ KmAll = KmNodes \cup {Root}
        /\ MaxRequests \in Nat
    BY KmNodesAreNodes DEF KmAll
  <2>3. /\ kNext = [n \in KmAll |-> IF n = Root THEN Root ELSE Null]
        /\ kPrev = [n \in KmAll |-> IF n = Root THEN Root ELSE Null]
        /\ kSize = 0 /\ kPulled = Null
        /\ kPc = "idle" /\ kUrgent = FALSE /\ kSocket = "none" /\ kConnected = FALSE /\ kThrottled = FALSE
        /\ kTail = Root /\ kAlive = {} /\ kIo = [r \in KmNodes |-> "new"] /\ kTorn = FALSE
    BY <2>1 DEF TcpSinkKm!Init, TcpSinkKm!Pending!Init, TcpSinkKm!Pending!All, TcpSinkKm!Requests, KmAll, KmNodes
  <2>4. KmFlights = {} /\ KmErasing = {} /\ ~KmLoose
    BY <2>3 DEF KmFlights, KmErasing, KmLoose
  <2>5. KmTypes
    BY <2>2, <2>3 DEF KmTypes
  <2>6. KmListInv
    <3>1. << >> \in Seq(KmNodes) /\ Len(<< >>) = 0 /\ Elements(<< >>) = {} /\ Distinct(<< >>)
      BY DEF Elements, Distinct
    <3>2. KmRing(kNext, kPrev, kSize, << >>)
      <4>1. \A i \in 0 .. 0 : Spot(Root, << >>, i) = Root /\ Spot(Root, << >>, i + 1) = Root
        BY DEF Spot
      <4>2. QED
        BY <2>2, <2>3, <3>1, <4>1 DEF KmRing, RingOf
    <3>3. QED
      BY <2>4, <3>1, <3>2 DEF KmListInv, KmListIs
  <2>7. KmNewInv
    <3>1. 0 \in 0 .. MaxRequests /\ \A r \in KmNodes : ~(r <= 0)
      BY <2>2 DEF KmNodes
    <3>2. QED
      BY <2>3, <3>1 DEF KmNewInv, KmFresh
  <2>8. KmTurnInv
    BY <2>3, <2>4 DEF KmTurnInv
  <2>9. QED
    BY <2>5, <2>6, <2>7, <2>8 DEF KmInv
<1>2. ASSUME KmInv, [Next]_mcvars PROVE KmInv'
  <2>1. CASE UNCHANGED kmVars
    <3>1. UNCHANGED <<kPc, kUrgent, kSocket, kConnected, kThrottled, kNext, kPrev, kSize, kPulled, kTail, kAlive, kIo, kTorn>>
      BY <2>1 DEF kmVars
    <3>2. part' = part
      BY <1>2, SinkMoves
    <3>3. /\ TcpSinkKm!NewRequest' = TcpSinkKm!NewRequest /\ KmLoose' = KmLoose
          /\ KmFlights' = KmFlights /\ KmErasing' = KmErasing
      BY <3>1, <3>2 DEF TcpSinkKm!NewRequest, TcpSinkKm!Requests, KmFlights, KmErasing, KmLoose
    <3>4. KmTypes'
      BY <1>2, <3>1 DEF KmInv, KmTypes
    <3>5. KmListInv'
      BY <1>2, <3>1, <3>3 DEF KmInv, KmListInv, KmListIs
    <3>6. KmNewInv'
      BY <1>2, <3>1 DEF KmInv, KmNewInv, KmFresh
    <3>7. KmTurnInv'
      BY <1>2, <3>1, <3>2, <3>3 DEF KmInv, KmTurnInv
    <3>8. QED
      BY <3>4, <3>5, <3>6, <3>7 DEF KmInv
  <2>2. CASE part = "tcp_sink_km" /\ TcpSinkKm!Next
    BY <1>2, <2>2, SinkMoves, TcpSinkKmMoves, KmStep
  <2>3. CASE part = "udp_sink_km" /\ UdpSinkKm!Next
    BY <1>2, <2>3, SinkMoves, UdpSinkKmMoves, KmStep
  <2>4. QED
    BY <1>2, <2>1, <2>2, <2>3, SinkMoves
<1>3. QED
  BY <1>1, <1>2, PTL DEF Spec

\* Until two operations on the list of the kernel-mode sink overlap, every
\* completion finds its request allocated and in the list, wherever it comes
\* between the steps of the writer and the client, and the list, what is in
\* flight and what is allocated agree, with any number of requests; the
\* destructor leaves none of them.
THEOREM KmRequestsAreTracked == Spec => []KmRequestsAreSound
<1>1. ASSUME KmInv, part = "tcp_sink_km"
      PROVE  TcpSinkKm!CompletionFindsRequest /\ TcpSinkKm!PendingIsInFlight
  <2>1. PICK s \in Seq(KmNodes) : KmRing(kNext, kPrev, kSize, s) /\ Elements(s) = KmFlights
    BY <1>1 DEF KmInv, KmListInv, KmListIs, KmLoose
  <2>2. TcpSinkKm!Listed = KmFlights
    BY <2>1, KmWalk
  <2>3. KmFlights = {r \in TcpSinkKm!Requests : TcpSinkKm!InFlight(r)}
    BY DEF KmFlights, KmNodes, TcpSinkKm!Requests, TcpSinkKm!InFlight
  <2>4. /\ kAlive = KmFlights \cup (IF kPc = "link" THEN {TcpSinkKm!NewRequest} ELSE {})
        /\ kPc = "gone" => KmFlights = {}
    BY <1>1 DEF KmInv, KmTurnInv, KmLoose
  <2>5. QED
    BY <2>2, <2>3, <2>4 DEF TcpSinkKm!CompletionFindsRequest, TcpSinkKm!PendingIsInFlight
<1>2. KmInv => KmRequestsAreSound
  BY <1>1 DEF KmRequestsAreSound
<1>3. QED
  BY <1>2, KmInvariant, PTL

LEMMA KmTypesAreOK == KmInv => TcpSinkKm!TypeOK
<1>1. SUFFICES ASSUME KmInv PROVE TcpSinkKm!TypeOK
  OBVIOUS
<1>2. PICK s \in Seq(KmNodes) : KmRing(kNext, kPrev, kSize, s)
  BY <1>1 DEF KmInv, KmListInv, KmListIs
<1>3. kSize \in Nat
  BY <1>2 DEF KmRing, RingOf
<1>4. KmTypes
  BY <1>1 DEF KmInv
<1>5. TcpSinkKm!Pending!LinksMatch
  BY <1>2, <1>4, KmLinks DEF KmTypes
<1>6. TcpSinkKm!Requests = KmNodes /\ TcpSinkKm!Pending!All = KmAll
  BY DEF TcpSinkKm!Requests, TcpSinkKm!Pending!All, KmNodes, KmAll
<1>7. TcpSinkKm!Pending!TypeOK
  BY <1>3, <1>4, <1>6 DEF KmTypes, TcpSinkKm!Pending!TypeOK
<1>8. QED
  BY <1>4, <1>5, <1>6, <1>7 DEF KmTypes, KmAll, TcpSinkKm!TypeOK

----------------------------------------------------------------------------
(* The servers *)

\* The cardinality that TcpServer speaks of is the one the theorems are about.
LEMMA TcpCardinality ==
    \A S : /\ TcpServer!IsFiniteSet(S) <=> IsFiniteSet(S)
          /\ TcpServer!Cardinality(S) = Cardinality(S)
<1>1. \A S : TcpServer!IsFiniteSet(S) <=> IsFiniteSet(S)
  BY DEF TcpServer!IsFiniteSet, IsFiniteSet
<1>2. \A S : TcpServer!Cardinality(S) = Cardinality(S)
  BY <1>1 DEF TcpServer!Cardinality, Cardinality
<1>3. QED
  BY <1>1, <1>2

TcpTypes ==
    /\ {tStop, tListening, tEvent, tAlert} \subseteq BOOLEAN
    /\ tWorker \in {"test", "accept", "construct", "init", "push", "exit"}
    /\ tNew \in Clients \cup {NoClient}
    /\ tWatchdog \in {"test", "wait", "lock", "scan", "join", "exit"}
    /\ tAt \in Nat \ {0} /\ tLock \in {"free", "watchdog"} /\ tList \in Seq(Clients)
    /\ tDtor \in {"idle", "close", "joinw", "joind", "members", "done"}
    /\ tVictim \in [TcpServer!Destroyers -> Clients \cup {NoClient}]
    /\ tClient \in [Clients ->
         [pc : {"none", "accepted", "never", "test", "recv", "dying", "notify", "exit"},
          stop : BOOLEAN, dead : BOOLEAN, open : BOOLEAN]]

Scanning == tWatchdog \in {"scan", "join"}

\* Where a thread is says what is in its hands and what it waited for.
TcpPlaceInv ==
    /\ tWorker \in {"construct", "init", "push"} <=> tNew # NoClient
    /\ tWorker = "construct" => tClient[tNew].pc = "accepted"
    /\ tWatchdog = "join" <=> tVictim["watchdog"] # NoClient
    /\ tVictim["dtor"] # NoClient => tDtor = "members"
    /\ tLock = "watchdog" <=> Scanning
    /\ IF Scanning THEN tAt <= Len(tList) + 1 ELSE tAt = 1
    /\ tDtor \in {"joind", "members", "done"} => tWorker = "exit"
    /\ tDtor \in {"members", "done"} => tWatchdog = "exit"
    /\ tDtor = "done" => tList = <<>>

\* One owner for a client, and no thread without an owner.
InAnyHand(c) == tNew = c \/ tVictim["watchdog"] = c \/ tVictim["dtor"] = c
TcpOwnerInv ==
    /\ Distinct(tList)
    /\ \A c \in Clients :
         /\ InAnyHand(c) => c \notin Elements(tList)
         /\ tNew = c => tVictim["watchdog"] # c /\ tVictim["dtor"] # c
         /\ InAnyHand(c) \/ c \in Elements(tList) => tClient[c].pc # "none"
         /\ InAnyHand(c) \/ c \in Elements(tList) \/ tClient[c].pc \in {"none", "never", "exit"}

\* A dead client behind the iterator has set the event, or is about to.
TcpScanInv ==
    /\ \A c \in Clients : tClient[c].dead => tClient[c].pc \in {"notify", "exit"}
    /\ \A i \in DOMAIN tList :
         Scanning /\ i < tAt /\ tClient[tList[i]].dead => tClient[tList[i]].pc = "notify" \/ tEvent

TcpInv == TcpTypes /\ TcpPlaceInv /\ TcpOwnerInv /\ TcpScanInv

LEMMA TcpStep ==
    ASSUME TcpInv, [TcpServer!Next]_tcpVars
    PROVE  TcpInv'
<1>0. /\ NoClient \notin Clients
      /\ TcpTypes /\ TcpPlaceInv /\ TcpOwnerInv /\ TcpScanInv
  BY ServicesAssumption DEF TcpServer!TcpServerAssumption, TcpInv
<1> USE DEF TcpServer!Destroyers, Scanning
<1>1. CASE UNCHANGED tcpVars
  BY <1>1, <1>0 DEF tcpVars, TcpInv, TcpTypes, TcpPlaceInv, TcpOwnerInv, TcpScanInv, InAnyHand
<1>2. CASE TcpServer!WorkerTest
  <2> USE DEF TcpServer!WorkerTest, TcpServer!serverVars, TcpServer!watchVars
  <2>1. TcpTypes'
    BY <1>0, <1>2 DEF TcpTypes, TcpPlaceInv
  <2>2. TcpPlaceInv'
    BY <1>0, <1>2 DEF TcpTypes, TcpPlaceInv
  <2>3. TcpOwnerInv'
    BY <1>0, <1>2 DEF TcpTypes, TcpPlaceInv, TcpOwnerInv, InAnyHand
  <2>4. TcpScanInv'
    BY <1>0, <1>2 DEF TcpTypes, TcpPlaceInv, TcpScanInv
  <2>5. QED
    BY <2>1, <2>2, <2>3, <2>4 DEF TcpInv
<1>3. CASE TcpServer!Accept
  <2> USE DEF TcpServer!Accept, TcpServer!serverVars, TcpServer!watchVars
  <2>1. CASE tWorker' = "exit" /\ UNCHANGED <<tNew, tClient>>
    <3>1. TcpTypes' /\ TcpPlaceInv'
      BY <1>0, <1>3, <2>1 DEF TcpTypes, TcpPlaceInv
    <3>2. TcpOwnerInv' /\ TcpScanInv'
      BY <1>0, <1>3, <2>1 DEF TcpOwnerInv, InAnyHand, TcpScanInv
    <3>3. QED
      BY <3>1, <3>2 DEF TcpInv
  <2>2. ASSUME NEW c \in Clients, tClient[c].pc = "none", tNew' = c, tWorker' = "construct",
               tClient' = [tClient EXCEPT ![c].pc = "accepted", ![c].open = TRUE]
        PROVE  TcpInv'
    <3>1. UNCHANGED <<tStop, tListening, tWatchdog, tAt, tLock, tList, tEvent, tAlert, tDtor, tVictim>>
      BY <1>3
    <3>2. tWorker = "accept" /\ tNew = NoClient
      BY <1>0, <1>3 DEF TcpPlaceInv
    <3>3. /\ \A d \in Clients : tClient'[d].dead = tClient[d].dead
          /\ tClient'[c].pc = "accepted"
          /\ \A d \in Clients : d # c => tClient'[d] = tClient[d]
      BY <1>0, <2>2 DEF TcpTypes
    <3>4. TcpTypes'
      BY <1>0, <2>2, <3>1 DEF TcpTypes
    <3>5. TcpPlaceInv'
      BY <1>0, <2>2, <3>1, <3>2, <3>3 DEF TcpPlaceInv
    <3>6. TcpOwnerInv'
      BY <1>0, <2>2, <3>1, <3>2, <3>3 DEF TcpOwnerInv, InAnyHand
    <3>7. TcpScanInv'
      <4>1. ~tClient[c].dead
        BY <1>0, <2>2 DEF TcpScanInv
      <4>2. \A i \in DOMAIN tList : tList[i] \in Clients
        BY <1>0 DEF TcpTypes
      <4>3. \A d \in Clients : tClient'[d].dead => d # c /\ tClient[d].dead /\ tClient'[d] = tClient[d]
        BY <3>3, <4>1
      <4>4. \A d \in Clients : tClient'[d].dead => tClient'[d].pc \in {"notify", "exit"}
        BY <1>0, <4>3 DEF TcpScanInv
      <4>5. \A i \in DOMAIN tList : Scanning /\ i < tAt /\ tClient'[tList[i]].dead
                                       => tClient'[tList[i]].pc = "notify" \/ tEvent
        BY <1>0, <4>2, <4>3 DEF TcpScanInv
      <4>6. QED
        BY <3>1, <4>4, <4>5 DEF TcpScanInv
    <3>8. QED
      BY <3>4, <3>5, <3>6, <3>7 DEF TcpInv
  <2>3. QED
    BY <1>3, <2>1, <2>2
<1>4. CASE TcpServer!StartThread
  <2> USE DEF TcpServer!StartThread, TcpServer!serverVars, TcpServer!watchVars
  <2>1. TcpTypes'
    BY <1>0, <1>4 DEF TcpTypes, TcpPlaceInv
  <2>2. TcpPlaceInv'
    BY <1>0, <1>4 DEF TcpTypes, TcpPlaceInv
  <2>3. TcpOwnerInv'
    BY <1>0, <1>4 DEF TcpTypes, TcpPlaceInv, TcpOwnerInv, InAnyHand
  <2>4. TcpScanInv'
    <3>1. tNew \in Clients /\ ~tClient[tNew].dead
      BY <1>0, <1>4 DEF TcpTypes, TcpPlaceInv, TcpScanInv
    <3>2. /\ tClient \in [Clients ->
               [pc : {"none", "accepted", "never", "test", "recv", "dying", "notify", "exit"},
                stop : BOOLEAN, dead : BOOLEAN, open : BOOLEAN]]
          /\ \A i \in DOMAIN tList : tList[i] \in Clients
      BY <1>0 DEF TcpTypes
    <3>3. /\ \A c \in Clients : tClient'[c].dead = tClient[c].dead
          /\ \A c \in Clients \ {tNew} : tClient'[c] = tClient[c]
      BY <1>4, <3>1, <3>2
    <3>4. UNCHANGED <<tList, tAt, tWatchdog, tEvent>>
      BY <1>4
    <3>5. QED
      BY <1>0, <3>1, <3>2, <3>3, <3>4 DEF TcpScanInv
  <2>5. QED
    BY <2>1, <2>2, <2>3, <2>4 DEF TcpInv
<1>5. CASE TcpServer!InitFlags
  <2> USE DEF TcpServer!InitFlags, TcpServer!serverVars, TcpServer!watchVars
  <2>1. TcpTypes'
    <3> DEFINE Records == [pc : {"none", "accepted", "never", "test", "recv", "dying", "notify",
                                 "exit"}, stop : BOOLEAN, dead : BOOLEAN, open : BOOLEAN]
    <3>1. tNew \in Clients /\ tClient \in [Clients -> Records]
      BY <1>0, <1>5 DEF TcpTypes, TcpPlaceInv
    <3>2. PICK q : q = [tClient[tNew] EXCEPT !.stop = FALSE, !.dead = FALSE]
      OBVIOUS
    <3>3. q \in Records
      BY <3>1, <3>2
    <3>4. tClient' = [tClient EXCEPT ![tNew] = q]
      BY <1>5, <3>1, <3>2
    <3>5. tClient' \in [Clients -> Records]
      <4> HIDE DEF Records
      <4>1. QED
        BY <3>1, <3>3, <3>4
    <3>6. QED
      BY <1>0, <1>5, <3>5 DEF TcpTypes
  <2>2. TcpPlaceInv'
    <3>1. /\ tWorker = "init" /\ tWorker' = "push" /\ tNew' = tNew /\ tDtor' = tDtor
          /\ tVictim' = tVictim /\ tWatchdog' = tWatchdog /\ tAt' = tAt
          /\ tLock' = tLock /\ tList' = tList
      BY <1>5
    <3>2. TcpPlaceInv
      BY <1>0
    <3>3. QED
      BY <3>1, <3>2 DEF TcpPlaceInv, Scanning
  <2>3. TcpOwnerInv'
    BY <1>0, <1>5 DEF TcpTypes, TcpPlaceInv, TcpOwnerInv, InAnyHand
  <2>4. TcpScanInv'
    BY <1>0, <1>5 DEF TcpTypes, TcpPlaceInv, TcpScanInv
  <2>5. QED
    BY <2>1, <2>2, <2>3, <2>4 DEF TcpInv
<1>6. ASSUME NEW c \in Clients, TcpServer!ClientTest(c) PROVE TcpInv'
  <2> USE DEF TcpServer!ClientTest, TcpServer!serverVars, TcpServer!watchVars
  <2>1. TcpTypes'
    BY <1>0, <1>6 DEF TcpTypes, TcpPlaceInv
  <2>2. TcpPlaceInv'
    BY <1>0, <1>6 DEF TcpTypes, TcpPlaceInv
  <2>3. TcpOwnerInv'
    BY <1>0, <1>6 DEF TcpTypes, TcpPlaceInv, TcpOwnerInv, InAnyHand
  <2>4. TcpScanInv'
    BY <1>0, <1>6 DEF TcpTypes, TcpPlaceInv, TcpScanInv
  <2>5. QED
    BY <2>1, <2>2, <2>3, <2>4 DEF TcpInv
<1>7. ASSUME NEW c \in Clients, TcpServer!ClientMessage(c) PROVE TcpInv'
  <2> USE DEF TcpServer!ClientMessage, TcpServer!serverVars, TcpServer!watchVars
  <2>1. TcpTypes'
    BY <1>0, <1>7 DEF TcpTypes, TcpPlaceInv
  <2>2. TcpPlaceInv'
    BY <1>0, <1>7 DEF TcpTypes, TcpPlaceInv
  <2>3. TcpOwnerInv'
    BY <1>0, <1>7 DEF TcpTypes, TcpPlaceInv, TcpOwnerInv, InAnyHand
  <2>4. TcpScanInv'
    BY <1>0, <1>7 DEF TcpTypes, TcpPlaceInv, TcpScanInv
  <2>5. QED
    BY <2>1, <2>2, <2>3, <2>4 DEF TcpInv
<1>8. ASSUME NEW c \in Clients, TcpServer!ClientBreak(c) PROVE TcpInv'
  <2> USE DEF TcpServer!ClientBreak, TcpServer!serverVars, TcpServer!watchVars
  <2>1. TcpTypes'
    BY <1>0, <1>8 DEF TcpTypes, TcpPlaceInv
  <2>2. TcpPlaceInv'
    BY <1>0, <1>8 DEF TcpTypes, TcpPlaceInv
  <2>3. TcpOwnerInv'
    BY <1>0, <1>8 DEF TcpTypes, TcpPlaceInv, TcpOwnerInv, InAnyHand
  <2>4. TcpScanInv'
    BY <1>0, <1>8 DEF TcpTypes, TcpPlaceInv, TcpScanInv
  <2>5. QED
    BY <2>1, <2>2, <2>3, <2>4 DEF TcpInv
<1>9. ASSUME NEW c \in Clients, TcpServer!ClientDead(c) PROVE TcpInv'
  <2> USE DEF TcpServer!ClientDead, TcpServer!serverVars, TcpServer!watchVars
  <2>1. TcpTypes'
    BY <1>0, <1>9 DEF TcpTypes, TcpPlaceInv
  <2>2. TcpPlaceInv'
    BY <1>0, <1>9 DEF TcpTypes, TcpPlaceInv
  <2>3. TcpOwnerInv'
    BY <1>0, <1>9 DEF TcpTypes, TcpPlaceInv, TcpOwnerInv, InAnyHand
  <2>4. TcpScanInv'
    BY <1>0, <1>9 DEF TcpTypes, TcpPlaceInv, TcpScanInv
  <2>5. QED
    BY <2>1, <2>2, <2>3, <2>4 DEF TcpInv
<1>10. ASSUME NEW c \in Clients, TcpServer!ClientNotify(c) PROVE TcpInv'
  <2> USE DEF TcpServer!ClientNotify, TcpServer!serverVars, TcpServer!watchVars
  <2>1. TcpTypes'
    BY <1>0, <1>10 DEF TcpTypes, TcpPlaceInv
  <2>2. TcpPlaceInv'
    BY <1>0, <1>10 DEF TcpTypes, TcpPlaceInv
  <2>3. TcpOwnerInv'
    BY <1>0, <1>10 DEF TcpTypes, TcpPlaceInv, TcpOwnerInv, InAnyHand
  <2>4. TcpScanInv'
    BY <1>0, <1>10 DEF TcpTypes, TcpPlaceInv, TcpScanInv
  <2>5. QED
    BY <2>1, <2>2, <2>3, <2>4 DEF TcpInv
<1>11. CASE TcpServer!WatchTest
  <2> USE DEF TcpServer!WatchTest, TcpServer!serverVars
  <2>1. TcpTypes'
    BY <1>0, <1>11 DEF TcpTypes, TcpPlaceInv
  <2>2. TcpPlaceInv'
    BY <1>0, <1>11 DEF TcpTypes, TcpPlaceInv
  <2>3. TcpOwnerInv'
    BY <1>0, <1>11 DEF TcpTypes, TcpPlaceInv, TcpOwnerInv, InAnyHand
  <2>4. TcpScanInv'
    BY <1>0, <1>11 DEF TcpTypes, TcpPlaceInv, TcpScanInv
  <2>5. QED
    BY <2>1, <2>2, <2>3, <2>4 DEF TcpInv
<1>12. CASE TcpServer!WatchWait
  <2> USE DEF TcpServer!WatchWait, TcpServer!serverVars
  <2>1. TcpTypes'
    BY <1>0, <1>12 DEF TcpTypes, TcpPlaceInv
  <2>2. TcpPlaceInv'
    BY <1>0, <1>12 DEF TcpTypes, TcpPlaceInv
  <2>3. TcpOwnerInv'
    BY <1>0, <1>12 DEF TcpTypes, TcpPlaceInv, TcpOwnerInv, InAnyHand
  <2>4. TcpScanInv'
    BY <1>0, <1>12 DEF TcpTypes, TcpPlaceInv, TcpScanInv
  <2>5. QED
    BY <2>1, <2>2, <2>3, <2>4 DEF TcpInv
<1>13. CASE TcpServer!WatchLock
  <2> USE DEF TcpServer!WatchLock, TcpServer!serverVars
  <2>1. TcpTypes'
    BY <1>0, <1>13 DEF TcpTypes, TcpPlaceInv
  <2>2. TcpPlaceInv'
    BY <1>0, <1>13 DEF TcpTypes, TcpPlaceInv
  <2>3. TcpOwnerInv'
    BY <1>0, <1>13 DEF TcpTypes, TcpPlaceInv, TcpOwnerInv, InAnyHand
  <2>4. TcpScanInv'
    BY <1>0, <1>13 DEF TcpTypes, TcpPlaceInv, TcpScanInv
  <2>5. QED
    BY <2>1, <2>2, <2>3, <2>4 DEF TcpInv
<1>14. CASE TcpServer!WatchJoin
  <2> USE DEF TcpServer!WatchJoin, TcpServer!Joined
  <2>1. TcpTypes'
    BY <1>0, <1>14 DEF TcpTypes, TcpPlaceInv
  <2>2. TcpPlaceInv'
    BY <1>0, <1>14 DEF TcpTypes, TcpPlaceInv
  <2>3. TcpOwnerInv'
    BY <1>0, <1>14 DEF TcpTypes, TcpPlaceInv, TcpOwnerInv, InAnyHand
  <2>4. TcpScanInv'
    BY <1>0, <1>14 DEF TcpTypes, TcpPlaceInv, TcpScanInv
  <2>5. QED
    BY <2>1, <2>2, <2>3, <2>4 DEF TcpInv
<1>15. CASE TcpServer!WatchUnlock
  <2> USE DEF TcpServer!WatchUnlock, TcpServer!serverVars
  <2>1. TcpTypes'
    BY <1>0, <1>15 DEF TcpTypes, TcpPlaceInv
  <2>2. TcpPlaceInv'
    BY <1>0, <1>15 DEF TcpTypes, TcpPlaceInv
  <2>3. TcpOwnerInv'
    BY <1>0, <1>15 DEF TcpTypes, TcpPlaceInv, TcpOwnerInv, InAnyHand
  <2>4. TcpScanInv'
    BY <1>0, <1>15 DEF TcpTypes, TcpPlaceInv, TcpScanInv
  <2>5. QED
    BY <2>1, <2>2, <2>3, <2>4 DEF TcpInv
<1>16. CASE TcpServer!DtorBegin
  <2> USE DEF TcpServer!DtorBegin, TcpServer!watchVars
  <2>1. TcpTypes'
    BY <1>0, <1>16 DEF TcpTypes, TcpPlaceInv
  <2>2. TcpPlaceInv'
    BY <1>0, <1>16 DEF TcpTypes, TcpPlaceInv
  <2>3. TcpOwnerInv'
    BY <1>0, <1>16 DEF TcpTypes, TcpPlaceInv, TcpOwnerInv, InAnyHand
  <2>4. TcpScanInv'
    BY <1>0, <1>16 DEF TcpTypes, TcpPlaceInv, TcpScanInv
  <2>5. QED
    BY <2>1, <2>2, <2>3, <2>4 DEF TcpInv
<1>17. CASE TcpServer!DtorClose
  <2> USE DEF TcpServer!DtorClose, TcpServer!watchVars
  <2>1. TcpTypes'
    BY <1>0, <1>17 DEF TcpTypes, TcpPlaceInv
  <2>2. TcpPlaceInv'
    BY <1>0, <1>17 DEF TcpTypes, TcpPlaceInv
  <2>3. TcpOwnerInv'
    BY <1>0, <1>17 DEF TcpTypes, TcpPlaceInv, TcpOwnerInv, InAnyHand
  <2>4. TcpScanInv'
    BY <1>0, <1>17 DEF TcpTypes, TcpPlaceInv, TcpScanInv
  <2>5. QED
    BY <2>1, <2>2, <2>3, <2>4 DEF TcpInv
<1>18. CASE TcpServer!DtorAlert
  <2> USE DEF TcpServer!DtorAlert, TcpServer!watchVars
  <2>1. TcpTypes'
    BY <1>0, <1>18 DEF TcpTypes, TcpPlaceInv
  <2>2. TcpPlaceInv'
    BY <1>0, <1>18 DEF TcpTypes, TcpPlaceInv
  <2>3. TcpOwnerInv'
    BY <1>0, <1>18 DEF TcpTypes, TcpPlaceInv, TcpOwnerInv, InAnyHand
  <2>4. TcpScanInv'
    BY <1>0, <1>18 DEF TcpTypes, TcpPlaceInv, TcpScanInv
  <2>5. QED
    BY <2>1, <2>2, <2>3, <2>4 DEF TcpInv
<1>19. CASE TcpServer!DtorEvent
  <2> USE DEF TcpServer!DtorEvent, TcpServer!watchVars
  <2>1. TcpTypes'
    BY <1>0, <1>19 DEF TcpTypes, TcpPlaceInv
  <2>2. TcpPlaceInv'
    BY <1>0, <1>19 DEF TcpTypes, TcpPlaceInv
  <2>3. TcpOwnerInv'
    BY <1>0, <1>19 DEF TcpTypes, TcpPlaceInv, TcpOwnerInv, InAnyHand
  <2>4. TcpScanInv'
    BY <1>0, <1>19 DEF TcpTypes, TcpPlaceInv, TcpScanInv
  <2>5. QED
    BY <2>1, <2>2, <2>3, <2>4 DEF TcpInv
<1>20. CASE TcpServer!DtorJoin
  <2> USE DEF TcpServer!DtorJoin, TcpServer!watchVars, TcpServer!Joined
  <2>1. TcpTypes'
    BY <1>0, <1>20 DEF TcpTypes, TcpPlaceInv
  <2>2. TcpPlaceInv'
    BY <1>0, <1>20 DEF TcpTypes, TcpPlaceInv
  <2>3. TcpOwnerInv'
    BY <1>0, <1>20 DEF TcpTypes, TcpPlaceInv, TcpOwnerInv, InAnyHand
  <2>4. TcpScanInv'
    BY <1>0, <1>20 DEF TcpTypes, TcpPlaceInv, TcpScanInv
  <2>5. QED
    BY <2>1, <2>2, <2>3, <2>4 DEF TcpInv
<1>21. CASE TcpServer!DtorEnd
  <2> USE DEF TcpServer!DtorEnd, TcpServer!watchVars
  <2>1. TcpTypes'
    BY <1>0, <1>21 DEF TcpTypes, TcpPlaceInv
  <2>2. TcpPlaceInv'
    BY <1>0, <1>21 DEF TcpTypes, TcpPlaceInv
  <2>3. TcpOwnerInv'
    BY <1>0, <1>21 DEF TcpTypes, TcpPlaceInv, TcpOwnerInv, InAnyHand
  <2>4. TcpScanInv'
    BY <1>0, <1>21 DEF TcpTypes, TcpPlaceInv, TcpScanInv
  <2>5. QED
    BY <2>1, <2>2, <2>3, <2>4 DEF TcpInv
<1>22. CASE TcpServer!Push
  <2> USE DEF TcpServer!Push, TcpServer!serverVars, TcpServer!watchVars
  <2>1. tNew \in Clients /\ tNew \notin Elements(tList) /\ ~Scanning
    BY <1>0, <1>22 DEF TcpTypes, TcpPlaceInv, TcpOwnerInv, InAnyHand
  <2>2. /\ tList' \in Seq(Clients) /\ Len(tList') = Len(tList) + 1 /\ Distinct(tList')
        /\ Elements(tList') = Elements(tList) \cup {tNew}
    BY <1>0, <1>22, <2>1, AppendDistinct DEF TcpTypes, TcpOwnerInv
  <2>3. TcpTypes'
    BY <1>0, <1>22, <2>2 DEF TcpTypes
  <2>4. TcpPlaceInv'
    BY <1>0, <1>22, <2>1, <2>2 DEF TcpTypes, TcpPlaceInv
  <2>5. TcpOwnerInv'
    BY <1>0, <1>22, <2>1, <2>2 DEF TcpTypes, TcpPlaceInv, TcpOwnerInv, InAnyHand
  <2>6. TcpScanInv'
    BY <1>0, <1>22, <2>1 DEF TcpTypes, TcpScanInv
  <2>7. QED
    BY <2>3, <2>4, <2>5, <2>6 DEF TcpInv
<1>23. CASE TcpServer!WatchScan
  <2>0. /\ tAt \in 1 .. Len(tList) /\ tAt \in DOMAIN tList /\ DOMAIN tList = 1 .. Len(tList)
        /\ Len(tList) \in Nat /\ tList[tAt] \in Clients /\ tWatchdog = "scan"
    BY <1>0, <1>23 DEF TcpTypes, TcpServer!WatchScan
  <2> DEFINE c == tList[tAt]
  <2>1. CASE ~tClient[c].dead
    <3>1. /\ tAt' = tAt + 1 /\ UNCHANGED <<tVictim, tClient, tList, tWatchdog, tStop, tListening,
                                            tDtor, tWorker, tNew, tLock, tEvent, tAlert>>
      BY <1>23, <2>1 DEF TcpServer!WatchScan
    <3>2. TcpTypes' /\ TcpPlaceInv'
      BY <1>0, <2>0, <3>1 DEF TcpTypes, TcpPlaceInv
    <3>3. TcpOwnerInv'
      BY <1>0, <3>1 DEF TcpOwnerInv, InAnyHand
    <3>4. TcpScanInv'
      BY <1>0, <2>0, <2>1, <3>1 DEF TcpTypes, TcpScanInv
    <3>5. QED
      BY <3>2, <3>3, <3>4 DEF TcpInv
  <2>2. CASE tClient[c].dead
    <3>1. /\ tVictim' = [tVictim EXCEPT !["watchdog"] = c]
          /\ tClient' = [tClient EXCEPT ![c].stop = TRUE, ![c].open = FALSE]
          /\ tList' = Without(tList, tAt) /\ tWatchdog' = "join"
          /\ UNCHANGED <<tAt, tStop, tListening, tDtor, tWorker, tNew, tLock, tEvent, tAlert>>
      BY <1>23, <2>2 DEF TcpServer!WatchScan, TcpServer!Shut, TcpServer!Without, Without
    <3>2. tList \in Seq(Clients) /\ Distinct(tList)
      BY <1>0 DEF TcpTypes, TcpOwnerInv
    <3>3. /\ tList' \in Seq(Clients) /\ Len(tList') = Len(tList) - 1
          /\ \A j \in 1 .. Len(tList) - 1 : tList'[j] = tList[IF j < tAt THEN j ELSE j + 1]
      BY <2>0, <3>1, <3>2, WithoutProperties
    <3>4. Distinct(tList') /\ Elements(tList') = Elements(tList) \ {c}
      BY <2>0, <3>1, <3>2, WithoutDistinct
    <3>5. c \in Elements(tList)
      BY <2>0 DEF Elements
    <3> HIDE DEF c
    <3>6. c \in Clients
      BY <2>0 DEF c
    <3>7. TcpTypes'
      <4>1. /\ tVictim \in [{"watchdog", "dtor"} -> Clients \cup {NoClient}]
            /\ tClient \in [Clients -> [pc : {"none", "accepted", "never", "test", "recv",
                                             "dying", "notify", "exit"},
                                       stop : BOOLEAN, dead : BOOLEAN, open : BOOLEAN]]
        BY <1>0 DEF TcpTypes
      <4>2. /\ tVictim' \in [{"watchdog", "dtor"} -> Clients \cup {NoClient}]
            /\ tClient' \in [Clients -> [pc : {"none", "accepted", "never", "test", "recv",
                                              "dying", "notify", "exit"},
                                        stop : BOOLEAN, dead : BOOLEAN, open : BOOLEAN]]
        BY <3>1, <3>6, <4>1
      <4>3. QED
        BY <1>0, <3>1, <3>3, <4>2 DEF TcpTypes
    <3>8. TcpPlaceInv'
      BY <1>0, <2>0, <3>1, <3>3, <3>6 DEF TcpTypes, TcpPlaceInv
    <3>9. TcpOwnerInv'
      BY <1>0, <2>0, <3>1, <3>4, <3>5, <3>6 DEF TcpTypes, TcpPlaceInv, TcpOwnerInv, InAnyHand
    <3>10. TcpScanInv'
      <4>1. \A d \in Clients : tClient'[d].dead = tClient[d].dead /\ tClient'[d].pc = tClient[d].pc
        BY <1>0, <3>1, <3>6 DEF TcpTypes
      <4>2. DOMAIN tList' = 1 .. Len(tList) - 1
        BY <3>3
      <4>3. \A j \in DOMAIN tList' : j < tAt => tList'[j] = tList[j] /\ tList[j] \in Clients /\ j \in DOMAIN tList
        BY <2>0, <3>2, <3>3, <4>2
      <4>4. \A d \in Clients : tClient'[d].dead => tClient'[d].pc \in {"notify", "exit"}
        BY <1>0, <4>1 DEF TcpScanInv
      <4>5. \A j \in DOMAIN tList' : j < tAt' /\ tClient'[tList'[j]].dead =>
              tClient'[tList'[j]].pc = "notify" \/ tEvent'
        <5>1. tAt' = tAt /\ tEvent' = tEvent
          BY <3>1
        <5>2. \A j \in DOMAIN tList : j < tAt /\ tClient[tList[j]].dead =>
                tClient[tList[j]].pc = "notify" \/ tEvent
          BY <1>0, <2>0 DEF TcpScanInv
        <5>3. QED
          BY <4>1, <4>3, <5>1, <5>2
      <4>6. QED
        BY <4>4, <4>5 DEF TcpScanInv
    <3>11. QED
      BY <3>7, <3>8, <3>9, <3>10 DEF TcpInv
  <2>3. QED
    BY <2>1, <2>2
<1>24. CASE TcpServer!DtorClient
  <2> USE DEF TcpServer!DtorClient, TcpServer!Shut, TcpServer!watchVars
  <2> DEFINE c == Head(tList)
  <2>1. tList \in Seq(Clients) /\ Distinct(tList) /\ tList # <<>> /\ ~Scanning
    BY <1>0, <1>24 DEF TcpTypes, TcpOwnerInv, TcpPlaceInv
  <2>2. /\ tList' \in Seq(Clients) /\ Distinct(tList')
        /\ c \in Elements(tList) /\ Elements(tList') = Elements(tList) \ {c}
    BY <1>24, <2>1, TailDistinct
  <2>3. /\ c \in Clients /\ tVictim' = [tVictim EXCEPT !["dtor"] = c]
        /\ tClient' = [tClient EXCEPT ![c].stop = TRUE, ![c].open = FALSE]
    <3>1. c \in Clients
      BY <2>1, HeadTailProperties
    <3>2. QED
      BY <1>24, <3>1
  <2> HIDE DEF c
  <2>4. TcpTypes'
    <3>1. UNCHANGED <<tStop, tListening, tWorker, tNew, tWatchdog, tAt, tLock, tEvent, tAlert, tDtor>>
      BY <1>24
    <3>2. QED
      BY <1>0, <2>2, <2>3, <3>1 DEF TcpTypes
  <2>5. TcpPlaceInv'
    BY <1>0, <1>24, <2>1, <2>3 DEF TcpTypes, TcpPlaceInv
  <2>6. TcpOwnerInv'
    BY <1>0, <1>24, <2>2, <2>3 DEF TcpTypes, TcpPlaceInv, TcpOwnerInv, InAnyHand
  <2>7. TcpScanInv'
    BY <1>0, <1>24, <2>1, <2>3 DEF TcpTypes, TcpScanInv
  <2>8. QED
    BY <2>4, <2>5, <2>6, <2>7 DEF TcpInv
<1>25. QED
  BY <1>1, <1>2, <1>3, <1>4, <1>5, <1>6, <1>7, <1>8, <1>9, <1>10, <1>11, <1>12, <1>13, <1>14, <1>15, <1>16, <1>17, <1>18, <1>19, <1>20, <1>21, <1>22, <1>23, <1>24
     DEF TcpServer!Next, TcpServer!Worker, TcpServer!Watchdog, TcpServer!Destructor,
         TcpServer!ClientStep

\* Where each thread of the TCP server is, who owns which client and where the scan
\* of the watchdog stands agree after every step.
THEOREM TcpInvariant == Spec => []TcpInv
<1>1. ASSUME Init PROVE TcpInv
  <2>1. TcpServer!Init
    BY <1>1, Starts
  <2>2. NoClient \notin Clients
    BY ServicesAssumption DEF TcpServer!TcpServerAssumption
  <2>3. TcpTypes
    <3>1. /\ tVictim \in [TcpServer!Destroyers -> Clients \cup {NoClient}]
          /\ tClient \in [Clients ->
               [pc : {"none", "accepted", "never", "test", "recv", "dying", "notify", "exit"},
                stop : BOOLEAN, dead : BOOLEAN, open : BOOLEAN]]
      BY <2>1 DEF TcpServer!Init
    <3>2. tList \in Seq(Clients) /\ tAt \in Nat \ {0}
      BY <2>1 DEF TcpServer!Init
    <3>3. {tStop, tListening, tEvent, tAlert} \subseteq BOOLEAN
      BY <2>1 DEF TcpServer!Init
    <3>4. QED
      BY <2>1, <3>1, <3>2, <3>3 DEF TcpServer!Init, TcpTypes
  <2>4. TcpPlaceInv
    BY <2>1 DEF TcpServer!Init, TcpServer!Destroyers, TcpPlaceInv, Scanning
  <2>5. TcpOwnerInv /\ TcpScanInv
    BY <2>1, <2>2 DEF TcpServer!Init, TcpServer!Destroyers, TcpOwnerInv, InAnyHand, Elements,
       Distinct, TcpScanInv
  <2>6. QED
    BY <2>3, <2>4, <2>5 DEF TcpInv
<1>2. TcpInv /\ [Next]_mcvars => TcpInv'
  BY Moves, TcpStep
<1>3. QED
  BY <1>1, <1>2, PTL DEF Spec

\* Every variable of TcpServer keeps its type.
LEMMA TcpTypesAreOK == TcpInv => TcpServer!TypeOK
<1>1. SUFFICES ASSUME TcpInv PROVE TcpServer!TypeOK
  OBVIOUS
<1>2. TcpTypes /\ TcpPlaceInv /\ tList \in Seq(Clients) /\ Distinct(tList)
  BY <1>1 DEF TcpInv, TcpTypes, TcpOwnerInv
<1>3. /\ Len(tList) = Cardinality(Elements(tList)) /\ Len(tList) <= Cardinality(Clients)
      /\ Cardinality(Clients) \in Nat /\ Len(tList) \in Nat
  <2>1. IsFiniteSet(Clients)
    BY ServicesAssumption, TcpCardinality DEF TcpServer!TcpServerAssumption
  <2>2. QED
    BY <1>2, <2>1, DistinctLength
<1>4. tAt \in 1 .. Cardinality(Clients) + 1
  BY <1>2, <1>3 DEF TcpTypes, TcpPlaceInv
<1>5. Elements(tList) = TcpServer!InList
  BY DEF Elements, TcpServer!InList
<1>6. QED
  BY <1>2, <1>3, <1>4, <1>5, TcpCardinality DEF TcpTypes, TcpServer!TypeOK

\* Each client accepted is with the worker, in the list, or with one of those
\* that destroy it, never with two, and without an owner it has no thread; and
\* a scan passes over no dead client whose event is not set again.
THEOREM EveryClientIsTracked == Spec => []TcpClientsAreTracked
<1>1. ASSUME TcpInv PROVE TcpServer!OneOwner
  <2>1. SUFFICES ASSUME NEW c \in Clients
                 PROVE  /\ Cardinality(TcpServer!Owners(c)) <= 1
                        /\ TcpServer!Owners(c) = {} => tClient[c].pc \in {"none", "never", "exit"}
    BY TcpCardinality DEF TcpServer!OneOwner
  <2> DEFINE owners == TcpServer!Owners(c)
  <2>2. /\ "worker" \in owners <=> tNew = c
        /\ "list" \in owners <=> c \in Elements(tList)
        /\ "watchdog" \in owners <=> tVictim["watchdog"] = c
        /\ "dtor" \in owners <=> tVictim["dtor"] = c
        /\ owners \subseteq {"worker", "list", "watchdog", "dtor"}
    BY DEF TcpServer!Owners, TcpServer!Destroyers, TcpServer!InList, Elements
  <2> HIDE DEF owners
  <2>3. NoClient # c
    BY ServicesAssumption DEF TcpServer!TcpServerAssumption
  <2>4. \A o, p \in owners : o = p
    BY <1>1, <2>2, <2>3 DEF TcpInv, TcpPlaceInv, TcpOwnerInv, InAnyHand
  <2>5. owners = {} \/ \E o : owners = {o}
    BY <2>4
  <2>6. Cardinality(owners) <= 1
    <3>1. Cardinality(owners) = 0 \/ Cardinality(owners) = 1
      BY <2>5, FS_EmptySet, FS_Singleton
    <3>2. QED
      BY <3>1
  <2>7. owners = {} => tClient[c].pc \in {"none", "never", "exit"}
    BY <1>1, <2>2 DEF TcpInv, TcpOwnerInv, InAnyHand
  <2>8. QED
    BY <2>6, <2>7 DEF owners
<1>2. TcpInv => TcpServer!ScanMissesNone
  BY DEF TcpInv, TcpScanInv, Scanning, TcpServer!ScanMissesNone
<1>3. TcpInv => TcpClientsAreTracked
  BY <1>1, <1>2 DEF TcpClientsAreTracked
<1>4. QED
  BY <1>3, TcpInvariant, PTL

\* A TcpServer that is destroyed has left no thread, of its own or a client's,
\* and a UdpServer no worker.
THEOREM NothingOutlivesItsServer == Spec => []NothingRunsAfter
<1>1. TcpInv => TcpServer!NothingRuns
  <2>1. SUFFICES ASSUME TcpInv, tDtor = "done" PROVE TcpServer!NothingRuns
    BY DEF TcpServer!NothingRuns
  <2>2. tWorker = "exit" /\ tWatchdog = "exit" /\ tList = <<>>
    BY <2>1 DEF TcpInv, TcpPlaceInv
  <2>3. tNew = NoClient /\ tVictim["watchdog"] = NoClient /\ tVictim["dtor"] = NoClient
    BY <2>1, <2>2 DEF TcpInv, TcpPlaceInv
  <2>4. Elements(tList) = {} /\ NoClient \notin Clients
    BY <2>2, ServicesAssumption DEF Elements, TcpServer!TcpServerAssumption
  <2>5. QED
    BY <2>1, <2>2, <2>3, <2>4 DEF TcpInv, TcpOwnerInv, InAnyHand, TcpServer!NothingRuns
<1>2. TcpInv /\ UdpInv => NothingRunsAfter
  BY <1>1 DEF UdpInv, NothingRunsAfter
<1>3. QED
  BY <1>2, TcpInvariant, UdpInvariant, PTL

----------------------------------------------------------------------------
(* The whole *)

\* Every variable of every component keeps its type: sinks, servers, window, guard,
\* heap and timer, at every size.
THEOREM TypesAreOK == Spec => []TypeOK
<1>1. SinkInv /\ HeapInv /\ UdpInv /\ TimerInv /\ GuardInv
        => TcpSink!TypeOK /\ Heap!TypeOK /\ UdpServer!TypeOK /\ Timer!TypeOK /\ Guard!TypeOK
  BY DEF SinkInv, HeapInv, UdpInv, TimerInv, GuardInv
<1>2. SinkInv /\ HeapInv /\ UdpInv /\ TimerInv /\ GuardInv /\ KmInv /\ TcpInv /\ WindowInv => TypeOK
  BY <1>1, KmTypesAreOK, TcpTypesAreOK, WindowTypesAreOK DEF TypeOK
<1>3. QED
  BY <1>2, SinkInvariant, HeapInvariant, UdpInvariant, TimerInvariant, GuardInvariant, KmInvariant,
     TcpInvariant, WindowInvariant, PTL
=============================================================================
