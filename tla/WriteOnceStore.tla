---------------------------- MODULE WriteOnceStore ----------------------------
(***************************************************************************)
(* What the echo service promises of its records, whatever keeps them:     *)
(* one is written once, under an id of its own, and never changes.  Only   *)
(* a store that dies with its process forgets, and then it forgets all.    *)
(***************************************************************************)
CONSTANTS
    Stores,    \* the places records are kept in
    Volatile,  \* those that forget
    Records    \* what may be recorded

VARIABLE kept    \* for each store: id -> record

Empty == [i \in {} |-> {}]

Init == kept = [s \in Stores |-> Empty]

Fresh(i) == \A s \in Stores : i \notin DOMAIN kept[s]

Write(s, i, record) ==
    /\ Fresh(i)
    /\ kept' = [kept EXCEPT ![s] = [j \in DOMAIN @ \cup {i} |->
                                      IF j = i THEN record ELSE @[j]]]

Forget(s) ==
    /\ s \in Volatile
    /\ kept' = [kept EXCEPT ![s] = Empty]

Next == \E s \in Stores :
           \/ Forget(s)
           \/ \E i \in DOMAIN kept'[s], record \in Records : Write(s, i, record)

Spec == Init /\ [][Next]_kept
=============================================================================
