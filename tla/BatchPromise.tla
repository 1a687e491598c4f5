----------------------------- MODULE BatchPromise -----------------------------
(***************************************************************************)
(* What the daily refresh relies on when it runs a batch: a store is asked *)
(* once per batch id and no more after a delivery, a delivery is whole and *)
(* final, and "ok" is said of a delivered batch only.  CatalogBatch        *)
(* implements it with checkpoint files, retries and a database that fails  *)
(* and forgets.                                                            *)
(***************************************************************************)
CONSTANT Ids   \* the batch ids of the day

VARIABLES
    state,     \* "unused", "asked" or "delivered", by id
    whole,     \* ids whose admitted rows are all in the catalog
    answer     \* what the last call returned

vars == <<state, whole, answer>>

Results == {"none", "ok", "blocked", "failed", "refused"}

Delivered == {i \in Ids : state[i] = "delivered"}

Init ==
    /\ state = [i \in Ids |-> "unused"]
    /\ whole = {}
    /\ answer = "none"

\* The store is asked: once per id, never after a delivery.
Ask(i) ==
    /\ state[i] = "unused" /\ Delivered = {}
    /\ state' = [state EXCEPT ![i] = "asked"]
    /\ UNCHANGED <<whole, answer>>

\* The rows of one id are in the catalog, all of them, and stay.
Fill(i) ==
    /\ state[i] = "asked"
    /\ whole' = whole \cup {i}
    /\ UNCHANGED <<state, answer>>

Deliver(i, r) ==
    /\ state[i] = "asked" /\ i \in whole
    /\ state' = [state EXCEPT ![i] = "delivered"]
    /\ answer' = r
    /\ UNCHANGED whole

Say(r) ==
    /\ r = "ok" => Delivered # {}
    /\ answer' = r
    /\ UNCHANGED <<state, whole>>

Next ==
    \/ \E i \in Ids : Ask(i) \/ Fill(i) \/ \E r \in Results : Deliver(i, r)
    \/ \E r \in Results : Say(r)

Spec == Init /\ [][Next]_vars
===============================================================================
