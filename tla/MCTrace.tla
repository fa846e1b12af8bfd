------------------------------ MODULE MCTrace ------------------------------
(* Trace for TLC: the bounds, and the fairness of the liveness run. *)
EXTENDS Trace, TLC

CONSTANTS MaxInits,  \* calls of initialize() that build the globals
          MaxPuts,   \* records put
          MaxSinks,  \* sinks registered
          MaxSets    \* filters and formatters replaced

VARIABLE spent  \* what is left of MaxInits and MaxSets

MCInit == Init /\ spent = [inits |-> 0, sets |-> 0]

Spend(k, max) == spent[k] < max /\ spent' = [spent EXCEPT ![k] = @ + 1]

MCClient(t) ==
    \/ (ClientStep(t) \/ FinBegin(t) \/ FlushBegin(t)) /\ UNCHANGED spent
    \/ WriteBegin(t) /\ puts < MaxPuts /\ UNCHANGED spent
    \/ InitBegin(t) /\ Spend("inits", MaxInits)
    \/ \E n \in Names :
          \/ UnregisterSink(t, n) /\ UNCHANGED spent
          \/ \E f \in Formatters :
                \/ RegisterSink(t, n, f) /\ Len(given) < MaxSinks /\ UNCHANGED spent
                \/ SetFormatter(t, n, f) /\ Spend("sets", MaxSets)
          \/ \E b \in BOOLEAN : SetFilter(t, n, b) /\ Spend("sets", MaxSets)

MCWriter == WriterStep /\ UNCHANGED spent
MCIo == IoCompletes /\ UNCHANGED spent

MCNext == (\E t \in Clients : MCClient(t)) \/ MCWriter \/ MCIo

mcvars == <<vars, spent>>

MCSpec == MCInit /\ [][MCNext]_mcvars

\* Every thread inside a call goes on, and so does the writer; no client is
\* sure to make a call, and no I/O is sure to complete.
FairSpec ==
    /\ MCSpec
    /\ WF_mcvars(MCWriter)
    /\ \A t \in Clients : WF_mcvars(ClientStep(t) /\ UNCHANGED spent)

\* finalize() returns whenever it is called: the writer hears of the stop, by
\* its flag or by its alert, even when a sink's own wait took the alert away.
FinalizeReturns ==
    \A t \in Clients : pc[t] = "fin_count" ~> pc[t] = "idle"

\* No wakeup is lost: a record that was put is taken, though the event holds
\* one set() at most and the writer looks at the queue before it waits.
PutIsTaken == queue # <<>> ~> queue = <<>>

Symmetric == Permutations(Clients) \cup Permutations(Names)
               \cup Permutations(Formatters)
=============================================================================
