---------------------------- MODULE CaseManagement ----------------------------
(***************************************************************************)
(* IncidentDeskCaseManagementProvider.create_case over an unreliable       *)
(* network:                                                                *)
(*   app/integrations/case_management/incident_desk.py   client, adapter   *)
(*                                                       and mock vendor   *)
(*   app/integrations/base.py                            key and retries   *)
(* A request the client has given up may still reach the vendor, before or *)
(* after the retry does; a case may be created and its response lost.      *)
(***************************************************************************)
EXTENDS IntegrationClient, Sequences

CONSTANTS
    Alerts,
    AlertOf,    \* AlertOf[c]: the alert call c creates a case for
    Keyed       \* the calls whose caller passes an idempotency key for the alert

ASSUME CallersAssumption ==
    /\ AlertOf \in [Calls -> Alerts]
    /\ Keyed \subseteq Calls

VARIABLES
    requests,   \* the requests on their way to the vendor
    inbox,      \* inbox[c]: what has come back for the current attempt of c
    seen,       \* the vendor's idempotency-key store
    cases,      \* the cases the vendor has created, in order
    answer      \* answer[c]: what create_case has given its caller

caseVars == <<clientVars, requests, inbox, seen, cases, answer>>

-------------------------------------------------------------------------------
\* A key is the alert's, or a uuid4 that nobody else draws.
Keys == (Alerts \X {0}) \cup (Calls \X (1 .. MaxAttempts))

\* Slip: the key is drawn anew for every attempt.
IdempotencyKey_PerAttempt(c, n) == IF c \in Keyed THEN <<AlertOf[c], 0>> ELSE <<c, n>>

\* The key of attempt n: drawn once per call, before the first attempt.
IdempotencyKey(c, n) == IF c \in Keyed THEN <<AlertOf[c], 0>> ELSE <<c, 1>>

Request == [call : Calls, attempt : 1 .. MaxAttempts, key : Keys]

RequestFor(c, n) == [call |-> c, attempt |-> n, key |-> IdempotencyKey(c, n)]

NoCase == 0

\* What a caller is given: nothing yet, CaseManagementUnavailableError, another
\* exception, or a case.
Pending == [kind |-> "pending"]

Unavailable == [kind |-> "unavailable"]

Crashed == [kind |-> "crashed"]

Case(n) == [kind |-> "case", number |-> n]

Nothing == [reply |-> NoReply, case |-> NoCase]

CaseTypeOK ==
    /\ TypeOK
    /\ requests \subseteq Request
    /\ inbox \in [Calls -> [reply : Replies \cup {NoReply}, case : Nat]]
    /\ seen \in [Keys -> Nat]
    /\ cases \in Seq([call : Calls, key : Keys])
    /\ answer \in [Calls -> {Pending, Unavailable, Crashed} \cup [kind : {"case"}, number : Nat]]

CaseInit ==
    /\ ClientInit
    /\ requests = {}
    /\ inbox = [c \in Calls |-> Nothing]
    /\ seen = [k \in Keys |-> NoCase]
    /\ cases = <<>>
    /\ answer = [c \in Calls |-> Pending]

(***************************************************************************)
(* The client.                                                             *)
(***************************************************************************)
CreateCase(c) ==
    /\ Send(c)
    /\ requests' = requests \cup {RequestFor(c, 1)}
    /\ UNCHANGED <<inbox, seen, cases, answer>>

Retry(c) ==
    /\ Resend(c)
    /\ requests' = requests \cup {RequestFor(c, attempt[c] + 1)}
    /\ UNCHANGED <<inbox, seen, cases, answer>>

\* What create_case may make of the end of the call.  An IntegrationError becomes
\* "unavailable", one of a body outside the vendor's schema included; a record of
\* the schema whose case_id is empty is refused by CaseResult only after the try,
\* and leaves as pydantic's own error.
AnswersOf(r, case) ==
    IF r = "none" THEN {Pending}
    ELSE IF r = "ok" /\ case # NoCase THEN {Case(case)}
    ELSE IF r = "ok" THEN {Unavailable, Crashed}
    ELSE IF r \in ErrorClass THEN {Unavailable}
    ELSE {Crashed}

Conclude(c, case) ==
    \E given \in AnswersOf(result'[c], case) : answer' = [answer EXCEPT ![c] = given]

ReceiveResponse(c) ==
    /\ inbox[c].reply # NoReply
    /\ Handle(c, inbox[c].reply)
    /\ Conclude(c, inbox[c].case)
    /\ inbox' = [inbox EXCEPT ![c] = Nothing]
    /\ UNCHANGED <<requests, seen, cases>>

\* No response within the timeout, or the connection breaks: whatever comes back
\* later finds nobody waiting.
AttemptFails(c) ==
    /\ \E reply \in Replies :
          reply.kind \in {"timeout", "connection", "http_error"} /\ Handle(c, reply)
    /\ Conclude(c, NoCase)
    /\ inbox' = [inbox EXCEPT ![c] = Nothing]
    /\ UNCHANGED <<requests, seen, cases>>

\* The request cannot be sent, so it never leaves for the vendor.
SendRaises(c) ==
    /\ RequestFor(c, 1) \in requests
    /\ \E reply \in Replies : reply.kind = "unsent" /\ Handle(c, reply)
    /\ Conclude(c, NoCase)
    /\ inbox' = [inbox EXCEPT ![c] = Nothing]
    /\ requests' = requests \ {RequestFor(c, 1)}
    /\ UNCHANGED <<seen, cases>>

(***************************************************************************)
(* The network and the vendor.                                             *)
(***************************************************************************)
\* The response reaches the client if that attempt is still waiting for it.
Deliver(m, reply, case) ==
    IF phase[m.call] = "sent" /\ attempt[m.call] = m.attempt
      THEN inbox' = [inbox EXCEPT ![m.call] = [reply |-> reply, case |-> case]]
      ELSE UNCHANGED inbox

\* Slip: the key is not looked up.
Lookup_Never(key) == NoCase

\* Slip: the newest case, whatever its key.
Lookup_Newest(key) == Len(cases)

Lookup(key) == seen[key]

\* The handler of the mock vendor: the case already stored under the key, or a
\* new one.  The response may be damaged, or replaced by a gateway's error.
Serve(m) ==
    LET known == Lookup(m.key)
        id    == IF known # NoCase THEN known ELSE Len(cases) + 1
    IN  /\ m \in requests
        /\ requests' = requests \ {m}
        /\ IF known # NoCase
             THEN UNCHANGED <<seen, cases>>
             ELSE /\ cases' = Append(cases, [call |-> m.call, key |-> m.key])
                  /\ seen' = [seen EXCEPT ![m.key] = id]
        /\ \E reply \in Replies, case \in {id, NoCase} :
              /\ reply.kind = "response"
              /\ case # NoCase => Outcome(reply) = "ok"
              /\ Deliver(m, reply, case)
        /\ UNCHANGED <<clientVars, answer>>

\* The vendor refuses the request before doing anything.
Reject(m) ==
    /\ m \in requests
    /\ requests' = requests \ {m}
    /\ \E reply \in Replies :
          /\ reply.kind = "response"
          /\ Outcome(reply) # "ok"
          /\ Deliver(m, reply, NoCase)
    /\ UNCHANGED <<clientVars, seen, cases, answer>>

Lose(m) ==
    /\ m \in requests
    /\ requests' = requests \ {m}
    /\ UNCHANGED <<clientVars, inbox, seen, cases, answer>>

CaseNext ==
    \/ \E c \in Calls : CreateCase(c)
    \/ \E c \in Calls : Retry(c)
    \/ \E c \in Calls : ReceiveResponse(c)
    \/ \E c \in Calls : AttemptFails(c)
    \/ \E c \in Calls : SendRaises(c)
    \/ \E m \in requests : Serve(m)
    \/ \E m \in requests : Reject(m)
    \/ \E m \in requests : Lose(m)
    \/ ClientDone /\ requests = {} /\ UNCHANGED caseVars

CaseSpec == CaseInit /\ [][CaseNext]_caseVars

-------------------------------------------------------------------------------
\* The request a call stands for, as its caller understands it: the alert's one
\* case if the caller named the alert by a key, else a case for this very call.
RequestOf(c) == IF c \in Keyed THEN <<AlertOf[c], 0>> ELSE <<c, 1>>

\* Neither retries, nor a request that arrives after it was given up, nor a
\* second call with the same key ever makes the vendor create a second case for
\* a request (base.py:204-229, incident_desk.py:65-82).
OneCasePerRequest ==
    \A i, j \in DOMAIN cases :
        RequestOf(cases[i].call) = RequestOf(cases[j].call) => i = j

\* A caller that is given a case is given the one of its own request, even if
\* another call's attempt created it (incident_desk.py:155-166).
AnswerIsTheRequestsCase ==
    \A c \in Calls : answer[c].kind = "case" =>
        /\ answer[c].number \in DOMAIN cases
        /\ RequestOf(cases[answer[c].number].call) = RequestOf(c)

\* "One alert should only ever produce one case" (case_management/providers.py:32),
\* said of the mock that IncidentDesk is interchangeable with.
OneCasePerAlert ==
    \A i, j \in DOMAIN cases : AlertOf[cases[i].call] = AlertOf[cases[j].call] => i = j

(***************************************************************************)
(* The provider keeps the promise of module CaseRegistry.                  *)
(***************************************************************************)
Requests == {RequestOf(c) : c \in Calls}

Registered(r) == {i \in DOMAIN cases : RequestOf(cases[i].call) = r}

Registry == INSTANCE CaseRegistry WITH
    registry <- [r \in Requests |->
                   IF Registered(r) = {} THEN NoCase ELSE CHOOSE i \in Registered(r) : TRUE],
    answer   <- [c \in Calls |->
                   IF answer[c] \in {Unavailable, Crashed} THEN [kind |-> "failed"] ELSE answer[c]]

\* Lost, late and repeated requests and responses look to the callers like one
\* registry that knows each request once.
CallersSeeOneRegistry == Registry!Spec
===============================================================================
