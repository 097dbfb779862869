---------------------------- MODULE DeliveryWindow ----------------------------
(***************************************************************************)
(* What webhook deduplication promises the sender of deliveries, who may   *)
(* send each one any number of times: a delivery is accepted unless it is  *)
(* one of the WindowSize deliveries handled most recently since the        *)
(* process started.  Redelivering a duplicate counts as handling it.       *)
(***************************************************************************)
EXTENDS Naturals, FiniteSets

CONSTANTS Deliveries, WindowSize

VARIABLES
    clock,    \* the deliveries handled since the process started
    latest,   \* latest[d]: the clock when d was last handled, 0 if never
    answer    \* the last answer given to a delivery, or "none"

vars == <<clock, latest, answer>>

Init ==
    /\ clock = 0
    /\ latest = [d \in Deliveries |-> 0]
    /\ answer = "none"

\* The deliveries handled after d was last handled.
After(d) == {e \in Deliveries : latest[e] > latest[d]}

InWindow(d) == latest[d] > 0 /\ Cardinality(After(d)) < WindowSize

Handle(d) ==
    /\ answer' = IF InWindow(d) THEN "duplicate_ignored" ELSE "received"
    /\ clock' = clock + 1
    /\ latest' = [latest EXCEPT ![d] = clock + 1]

\* A request that is refused is as if it had never come.
Refuse == answer' = "refused" /\ UNCHANGED <<clock, latest>>

Restart ==
    /\ clock' = 0
    /\ latest' = [d \in Deliveries |-> 0]
    /\ answer' = "none"

Next == (\E d \in Deliveries : Handle(d)) \/ Refuse \/ Restart

Spec == Init /\ [][Next]_vars
===============================================================================
