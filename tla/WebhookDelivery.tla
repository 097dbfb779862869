---------------------------- MODULE WebhookDelivery ----------------------------
(***************************************************************************)
(* The IncidentDesk webhook (app/api/webhooks.py) under at-least-once      *)
(* delivery.  A handler waits for the body of its request and then runs to *)
(* its end without another await, so requests overlap but are handled one  *)
(* at a time, in any order.  The identifiers seen live in the memory of    *)
(* the process (app.state, main.py) and are lost with it.                  *)
(***************************************************************************)
EXTENDS Integers, Sequences, SequencesExt

CONSTANTS
    Deliveries,          \* delivery identifiers
    MAX_SEEN_DELIVERIES, \* capacity of the store
    MaxRequests          \* bound: requests made, so that TLC ends

ASSUME CapacityAssumption ==
    /\ MAX_SEEN_DELIVERIES \in Nat \ {0}
    /\ MaxRequests \in Nat

\* What a request carries: the identifier in its body, and whether the checks pass.
\* An "odd" signature is one with characters that are not ASCII, which
\* compare_digest refuses to compare; a body that is "malformed" is well signed.
Request == [delivery : Deliveries, check : {"passes", "unsigned", "odd", "malformed"}]

VARIABLES
    made,      \* requests made so far
    waiting,   \* the requests whose body is still awaited, by number
    seen,      \* the OrderedDict of identifiers, oldest first
    clock,     \* deliveries handled since the process started (a record)
    latest,    \* latest[d]: the clock when d was last handled (a record)
    answer     \* the last answer given (a record)

vars == <<made, waiting, seen, clock, latest, answer>>

-------------------------------------------------------------------------------
RefusalAnswers == {"invalid_signature", "internal_error", "validation_error"}

Answers == {"none", "duplicate_ignored", "received"} \cup RefusalAnswers

TypeOK ==
    /\ made \in 0 .. MaxRequests
    /\ waiting \in SUBSET [number : 1 .. MaxRequests, request : Request]
    /\ seen \in Seq(Deliveries)
    /\ clock \in Nat
    /\ latest \in [Deliveries -> Nat]
    /\ answer \in Answers

Init ==
    /\ made = 0
    /\ waiting = {}
    /\ seen = <<>>
    /\ clock = 0
    /\ latest = [d \in Deliveries |-> 0]
    /\ answer = "none"

\* The sender makes a request; its handler starts and awaits the body.
Arrive ==
    /\ made < MaxRequests
    /\ made' = made + 1
    /\ \E r \in Request : waiting' = waiting \cup {[number |-> made + 1, request |-> r]}
    /\ UNCHANGED <<seen, clock, latest, answer>>

MoveToEnd(s, d) ==
    Append(RemoveAt(s, CHOOSE i \in DOMAIN s : s[i] = d), d)

\* Slip: a duplicate keeps its place in the order.
WithDelivery_Fifo(s, d) ==
    IF d \in ToSet(s) THEN s
    ELSE IF Len(s) = MAX_SEEN_DELIVERIES THEN Append(Tail(s), d)
    ELSE Append(s, d)

\* Slip: one identifier too many is kept.
WithDelivery_OffByOne(s, d) ==
    IF d \in ToSet(s) THEN MoveToEnd(s, d)
    ELSE IF Len(s) > MAX_SEEN_DELIVERIES THEN Tail(Append(s, d))
    ELSE Append(s, d)

\* The store after _is_duplicate_delivery has been asked about d.
WithDelivery(s, d) ==
    IF d \in ToSet(s) THEN MoveToEnd(s, d)
    ELSE IF Len(Append(s, d)) > MAX_SEEN_DELIVERIES THEN Tail(Append(s, d))
    ELSE Append(s, d)

\* Slip: the refusal is answered with its status text.
Refusal_Unauthorized(r) ==
    IF r.check = "passes" THEN "none" ELSE "unauthorized"

Refusal(r) ==
    IF r.check = "unsigned" THEN "invalid_signature"
    ELSE IF r.check = "odd" THEN "internal_error"
    ELSE IF r.check = "malformed" THEN "validation_error"
    ELSE "none"

\* Slip: the identifier is remembered before the request has been checked.
Remembered_Early(r) == TRUE

Remembered(r) == Refusal(r) = "none"

\* The body of a request is there: the handler runs to its end.
Handle(w) ==
    /\ w \in waiting
    /\ waiting' = waiting \ {w}
    /\ answer' = IF Refusal(w.request) # "none" THEN Refusal(w.request)
                 ELSE IF w.request.delivery \in ToSet(seen) THEN "duplicate_ignored"
                 ELSE "received"
    /\ IF Remembered(w.request)
         THEN /\ seen' = WithDelivery(seen, w.request.delivery)
              /\ clock' = clock + 1
              /\ latest' = [latest EXCEPT ![w.request.delivery] = clock + 1]
         ELSE UNCHANGED <<seen, clock, latest>>
    /\ UNCHANGED made

\* The process restarts: the store is empty, the requests under way are gone.
Restart ==
    /\ waiting' = {}
    /\ seen' = <<>>
    /\ clock' = 0
    /\ latest' = [d \in Deliveries |-> 0]
    /\ answer' = "none"
    /\ UNCHANGED made

Next == Arrive \/ (\E w \in waiting : Handle(w)) \/ Restart

Spec == Init /\ [][Next]_vars

-------------------------------------------------------------------------------
\* The store never outgrows its capacity and holds each identifier once, in the
\* order in which they were last handled (webhooks.py:55-69).
SeenIsAnLru ==
    /\ Len(seen) <= MAX_SEEN_DELIVERIES
    /\ \A i, j \in DOMAIN seen : i < j => latest[seen[i]] < latest[seen[j]]

\* A request that is refused, or that makes the handler raise, leaves no trace: it can neither make
\* a later delivery a duplicate nor push an earlier one out (webhooks.py:84-138).
RefusedLeavesNoTrace ==
    [][answer' \in RefusalAnswers =>
          seen' = seen /\ latest' = latest]_vars

(***************************************************************************)
(* The store keeps the promise of module DeliveryWindow.                   *)
(***************************************************************************)
Window == INSTANCE DeliveryWindow WITH
    WindowSize <- MAX_SEEN_DELIVERIES,
    answer <- IF answer \in RefusalAnswers THEN "refused" ELSE answer

\* A delivery is processed again only after MAX_SEEN_DELIVERIES others, or a
\* restart: in between, every further request for it is ignored, whatever the
\* order in which overlapping requests are handled.
ProcessedOncePerWindow == Window!Spec
===============================================================================
