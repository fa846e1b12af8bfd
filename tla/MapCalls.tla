------------------------------ MODULE MapCalls ------------------------------
(***************************************************************************)
(* What a map of unique keys promises of its calls.                        *)
(***************************************************************************)
CONSTANT Keys

VARIABLES keys, \* the keys in the map
          call  \* the last call, with what it returned

Init == keys = {} /\ call = <<"none">>

Insert(k) == call' = <<"insert", k, k \notin keys>> /\ keys' = keys \cup {k}
Find(k) == call' = <<"find", k, k \in keys>> /\ UNCHANGED keys
Erase(k) == call' = <<"erase", k, k \in keys>> /\ keys' = keys \ {k}
Clear == call' = <<"clear">> /\ keys' = {}
Rehash == call' = <<"rehash">> /\ UNCHANGED keys

Next == Clear \/ Rehash \/ \E k \in Keys : Insert(k) \/ Find(k) \/ Erase(k)

Spec == Init /\ [][Next]_<<keys, call>>
=============================================================================
