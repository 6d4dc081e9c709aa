----------------------------- MODULE WriteOnce -----------------------------
(***************************************************************************)
(* What the local object store promises to its clients: a key is written   *)
(* at most once, what was written never changes, and a key that was        *)
(* withdrawn, or whose write was cut short, is neither read nor written    *)
(* again, unless an operator forgets it while the service is stopped.      *)
(***************************************************************************)
CONSTANTS Keys, Contents, Absent, Gone

VARIABLES object, online

vars == <<object, online>>

Init ==
    /\ object = [k \in Keys |-> Absent]
    /\ online = TRUE

Write(k, c) ==
    /\ online
    /\ object[k] = Absent
    /\ object' = [object EXCEPT ![k] = c]
    /\ UNCHANGED online

Withdraw(k) ==
    /\ online
    /\ object' = [object EXCEPT ![k] = Gone]
    /\ UNCHANGED online

Stop ==
    /\ online
    /\ online' = FALSE
    /\ \/ UNCHANGED object
       \/ \E k \in Keys :
            /\ object[k] = Absent
            /\ object' = [object EXCEPT ![k] = Gone]

Start ==
    /\ ~online
    /\ online' = TRUE
    /\ UNCHANGED object

Forget ==
    /\ ~online
    /\ \E K \in SUBSET {k \in Keys : object[k] = Gone} :
         object' = [k \in Keys |-> IF k \in K THEN Absent ELSE object[k]]
    /\ UNCHANGED online

Next ==
    \/ \E k \in Keys : Withdraw(k) \/ \E c \in Contents : Write(k, c)
    \/ Stop
    \/ Start
    \/ Forget

Spec == Init /\ [][Next]_vars
=============================================================================
