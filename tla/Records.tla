------------------------------ MODULE Records ------------------------------
(***************************************************************************)
(* The records of SkTracer's main window, MainDlg.cpp: message() queues    *)
(* them from the threads of the servers and of the local sink, and posts a *)
(* window message to a queue that was empty; the window's thread moves     *)
(* them to the database, shows those the filter lets pass, and discards    *)
(* the oldest when there are too many.                                     *)
(***************************************************************************)
EXTENDS Naturals, Sequences, SequencesExt

CONSTANTS Kinds,      \* level and component of a record, as filterMessage() sees them
          Limit,      \* SH_MAX_RECORDS
          ToDiscard,  \* SH_RECORDS_TO_DISCARD
          MaxRecords  \* bound: records that arrive

RecordsAssumption == ToDiscard \in 1 .. Limit /\ {Limit, MaxRecords} \subseteq Nat

VARIABLES arrived,     \* records that arrived
          queue,       \* m_queue, of [id, kind]
          posted,      \* SH_NEW_RECORD in the thread's message queue
          unfiltered,  \* m_databaseUnfiltered: owns its records
          database,    \* m_database: pointers to those shown
          items,       \* the item count of m_messageView
          filter,      \* the kinds that pass
          ui,          \* the window's thread
          count,       \* discardedCount
          fault        \* why the discarding loop left its vectors

vars == <<arrived, queue, posted, unfiltered, database, items, filter, ui,
          count, fault>>

Init ==
    /\ arrived = 0 /\ queue = <<>> /\ posted = 0
    /\ unfiltered = <<>> /\ database = <<>> /\ items = 0
    /\ filter \in SUBSET Kinds
    /\ ui = "idle" /\ count = 0 /\ fault = "none"

filterMessage(r) == r.kind \in filter

\* The records of s of these kinds, in order.
Passing(s, kinds) ==
    LET f[i \in 0 .. Len(s)] ==
          IF i = 0 THEN <<>>
          ELSE IF s[i].kind \in kinds THEN Append(f[i - 1], s[i]) ELSE f[i - 1]
    IN  f[Len(s)]

\* Mutant: a window message for every record.
MessagePostAlways(kind) ==
    /\ arrived < MaxRecords /\ ui # "discard"
    /\ arrived' = arrived + 1
    /\ queue' = Append(queue, [id |-> arrived', kind |-> kind])
    /\ posted' = posted + 1
    /\ UNCHANGED <<unfiltered, database, items, filter, ui, count, fault>>

\* The lock is held by the window's thread while it discards.
message(kind) ==
    /\ arrived < MaxRecords /\ ui # "discard"
    /\ arrived' = arrived + 1
    /\ queue' = Append(queue, [id |-> arrived', kind |-> kind])
    /\ posted' = IF queue = <<>> THEN posted + 1 ELSE posted
    /\ UNCHANGED <<unfiltered, database, items, filter, ui, count, fault>>

\* The window's thread takes the message; the lock comes after.
Dispatch ==
    /\ ui = "idle" /\ posted > 0
    /\ posted' = posted - 1 /\ ui' = "handler"
    /\ UNCHANGED <<arrived, queue, unfiltered, database, items, filter, count, fault>>

\* Mutant: one record for a window message.
NewRecordOne ==
    /\ ui = "handler" /\ queue # <<>>
    /\ queue' = Tail(queue)
    /\ unfiltered' = Append(unfiltered, Head(queue))
    /\ database' = IF filterMessage(Head(queue)) THEN Append(database, Head(queue))
                                                 ELSE database
    /\ items' = Len(database') /\ ui' = "idle" /\ count' = 0
    /\ UNCHANGED <<arrived, posted, filter, fault>>

\* OnNewRecord() up to its discarding loop, or to its end.
NewRecord ==
    /\ ui = "handler"
    /\ queue' = <<>>
    /\ unfiltered' = unfiltered \o queue
    /\ database' = database \o Passing(queue, filter)
    /\ IF Len(unfiltered') > Limit
       THEN ui' = "discard" /\ UNCHANGED items
       ELSE ui' = "idle" /\ items' = Len(database')
    /\ count' = 0
    /\ UNCHANGED <<arrived, posted, filter, fault>>

\* Vector::erase(begin()): elements move down, and the end stays, because a
\* pointer has no destructor (Vector.hxx 168).
EraseFirst(s) == Append(Tail(s), Last(s))

\* Only records that are shown count.
Discard ==
    /\ ui = "discard" /\ fault = "none" /\ count < ToDiscard
    /\ \/ /\ unfiltered = <<>> /\ fault' = "unfiltered"
          /\ UNCHANGED <<unfiltered, database, count>>
       \/ /\ unfiltered # <<>> /\ filterMessage(Head(unfiltered)) /\ database = <<>>
          /\ fault' = "database"
          /\ UNCHANGED <<unfiltered, database, count>>
       \/ /\ unfiltered # <<>> /\ filterMessage(Head(unfiltered)) /\ database # <<>>
          /\ count' = count + 1
          /\ database' = EraseFirst(database)
          /\ unfiltered' = Tail(unfiltered)
          /\ UNCHANGED fault
       \/ /\ unfiltered # <<>> /\ ~filterMessage(Head(unfiltered))
          /\ unfiltered' = Tail(unfiltered)
          /\ UNCHANGED <<database, count, fault>>
    /\ UNCHANGED <<arrived, queue, posted, items, filter, ui>>

DiscardEnd ==
    /\ ui = "discard" /\ count = ToDiscard
    /\ ui' = "idle" /\ items' = Len(database)
    /\ UNCHANGED <<arrived, queue, posted, unfiltered, database, filter, count, fault>>

OnBnClickedClear ==
    /\ ui = "idle"
    /\ database' = <<>> /\ items' = 0
    /\ UNCHANGED <<arrived, queue, posted, unfiltered, filter, ui, count, fault>>

\* Mutant: what is shown is not chosen again.
FiltersOnly ==
    /\ ui = "idle"
    /\ filter' \in SUBSET Kinds
    /\ UNCHANGED <<arrived, queue, posted, unfiltered, database, items, ui, count, fault>>

\* reloadFilters() and reapplyFilters().
OnBnClickedFilters ==
    /\ ui = "idle"
    /\ filter' \in SUBSET Kinds
    /\ database' = Passing(unfiltered, filter')
    /\ items' = Len(database')
    /\ UNCHANGED <<arrived, queue, posted, unfiltered, ui, count, fault>>

Window == Dispatch \/ NewRecord \/ Discard \/ DiscardEnd

Next ==
    \/ \E kind \in Kinds : message(kind)
    \/ Window \/ OnBnClickedClear \/ OnBnClickedFilters

Spec == Init /\ [][Next]_vars

\* The window's thread runs its loop.
FairSpec == Spec /\ WF_vars(Window)

----------------------------------------------------------------------------
Records == [id : 1 .. MaxRecords, kind : Kinds]

TypeOK ==
    /\ {arrived, posted, items, count} \subseteq 0 .. MaxRecords
    /\ {queue, unfiltered, database} \subseteq Seq(Records)
    /\ filter \subseteq Kinds
    /\ ui \in {"idle", "handler", "discard"}
    /\ fault \in {"none", "unfiltered", "database"}

\* A record that waits has its window message, one for all of them: posted, or
\* taken by a handler that has not looked yet (MainDlg.cpp 503-513, 573-580).
OneWakeup == posted + (IF ui = "handler" THEN 1 ELSE 0) = IF queue = <<>> THEN 0 ELSE 1

\* The database and then the queue hold what arrived, in order, each once, but
\* for the oldest that were discarded (MainDlg.cpp 503-513, 576-610).
NoneLost ==
    LET kept == unfiltered \o queue IN
    \A i \in DOMAIN kept : kept[i].id = arrived - Len(kept) + i

\* What is shown are the newest of the records that pass the filter, as many
\* as the list view has items: all since Clear, in order.  It holds up to the
\* first discard (MainDlg.cpp 246-251, 515-535, 581-585).
ShowsTheNewest ==
    Len(unfiltered) + Len(queue) = arrived /\ ui # "discard" =>
      /\ items = Len(database)
      /\ IsSuffix(database, Passing(unfiltered, filter))

\* Every record leaves the queue (MainDlg.cpp 568-586).
QueueIsEmptied == queue # <<>> ~> queue = <<>>
=============================================================================
