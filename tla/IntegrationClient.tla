--------------------------- MODULE IntegrationClient ---------------------------
(***************************************************************************)
(* BaseIntegrationClient (app/integrations/base.py): one authenticated     *)
(* request with bounded retries, for any number of calls at once.  A       *)
(* module that composes the client with a provider joins Attempt, Handle   *)
(* and Resend with what the network and the provider do; taken alone, the  *)
(* provider may reply anything.                                            *)
(*                                                                         *)
(* Time is counted in units of the sleeps the client asks for.  The body   *)
(* of a response is abstracted to whether it is a JSON object.             *)
(***************************************************************************)
EXTENDS IntegrationErrors, Integers, FiniteSets

CONSTANTS
    Calls,           \* the calls of get() or post()
    MaxAttempts,     \* RetryPolicy.max_attempts, the first attempt included
    BackoffBase,     \* RetryPolicy.backoff_base_seconds
    BackoffMax,      \* RetryPolicy.backoff_max_seconds
    MaxRetryAfter,   \* RetryPolicy.max_retry_after_seconds
    Replies          \* the replies a provider or the network may give

ASSUME PolicyAssumption ==
    /\ MaxAttempts \in Nat \ {0}
    /\ BackoffBase \in Nat
    /\ BackoffMax \in Nat
    /\ MaxRetryAfter \in Nat

RETRYABLE_STATUS_CODES == {429, 502, 503, 504}

\* A Retry-After header: absent, an HTTP date or other text, a negative number,
\* the word "nan", or a number of seconds.
RetryAfter ==
    [form : {"absent", "text", "negative", "nan"}, seconds : {0}]
    \cup [form : {"number"}, seconds : Nat]

NoRetryAfter == [form |-> "absent", seconds |-> 0]

\* What one attempt ends in: a response, an httpx.HTTPError of one of three kinds, or
\* no request at all ("unsent": httpx.InvalidURL for the path or query, or a
\* UnicodeEncodeError for a key that is not ASCII, neither of them an HTTPError).
Reply ==
    [kind : {"response"}, status : 100 .. 599, body : {"object", "other", "not_json"},
     retryAfter : RetryAfter]
    \cup [kind : {"timeout", "connection", "http_error", "unsent"}]

Response(status, body, retryAfter) ==
    [kind |-> "response", status |-> status, body |-> body, retryAfter |-> retryAfter]

NoResponse(kind) == [kind |-> kind]

ASSUME RepliesAssumption == Replies \subseteq Reply

VARIABLES
    phase,     \* phase[c]: "idle", "sent", "sleeping" or "ended"
    attempt,   \* attempt[c]: the number of the current attempt
    waited,    \* waited[c]: how long c has slept between its attempts
    last,      \* last[c]: the reply c has handled last
    result     \* result[c]: "none", "ok", an ErrorClass, or one of Escaped

clientVars == <<phase, attempt, waited, last, result>>

-------------------------------------------------------------------------------
Least(m, n) == IF m <= n THEN m ELSE n

\* float() accepts the word "nan", and a NaN is not below zero.
ParseRetryAfter(header) ==
    IF header.form \in {"number", "nan"} THEN header ELSE NoRetryAfter

\* Slip: the provider's delay is taken as it comes.
ComputeDelay_Trusting(n, header) ==
    IF header.form = "number" THEN {header.seconds} ELSE {BackoffMax}

\* The delays the client may choose: the capped Retry-After, or the capped
\* exponential backoff and a jitter that stays below the same cap.
ComputeDelay(n, header) ==
    LET base == Least(BackoffBase * 2 ^ (n - 1), BackoffMax)
    IN  IF ParseRetryAfter(header).form = "number"
          THEN {Least(header.seconds, MaxRetryAfter)}
          ELSE {d \in 0 .. BackoffMax : d >= base}

Transient(reply) ==
    \/ reply.kind \in {"timeout", "connection"}
    \/ reply.kind = "response" /\ reply.status \in RETRYABLE_STATUS_CODES

HeaderOf(reply) == IF reply.kind = "response" THEN reply.retryAfter ELSE NoRetryAfter

\* How the call ends on a reply that is not retried: "ok" or the error raised.
Outcome(reply) ==
    IF reply.kind \in {"timeout", "connection"} THEN "IntegrationTimeoutError"
    ELSE IF reply.kind = "http_error" THEN "IntegrationUnexpectedError"
    ELSE IF reply.kind = "unsent" THEN "SendError"
    ELSE IF reply.status \in {401, 403} THEN "IntegrationAuthError"
    ELSE IF reply.status = 404 THEN "IntegrationNotFoundError"
    ELSE IF reply.status = 429 THEN "IntegrationRateLimitedError"
    ELSE IF reply.status >= 500 THEN "IntegrationServerError"
    ELSE IF reply.status >= 400 THEN "IntegrationUnexpectedError"
    ELSE IF reply.body # "object" THEN "IntegrationValidationError"
    ELSE "ok"

-------------------------------------------------------------------------------
NoReply == [kind |-> "none"]

TypeOK ==
    /\ phase \in [Calls -> {"idle", "sent", "sleeping", "ended"}]
    /\ attempt \in [Calls -> 0 .. MaxAttempts]
    /\ waited \in [Calls -> Nat]
    /\ last \in [Calls -> Replies \cup {NoReply}]
    /\ result \in [Calls -> {"none", "ok"} \cup Escaped \cup ErrorClass]

ClientInit ==
    /\ phase = [c \in Calls |-> "idle"]
    /\ attempt = [c \in Calls |-> 0]
    /\ waited = [c \in Calls |-> 0]
    /\ last = [c \in Calls |-> NoReply]
    /\ result = [c \in Calls |-> "none"]

\* The call is made and its first attempt sent.
Send(c) ==
    /\ phase[c] = "idle"
    /\ phase' = [phase EXCEPT ![c] = "sent"]
    /\ attempt' = [attempt EXCEPT ![c] = 1]
    /\ UNCHANGED <<waited, last, result>>

\* Slip: a malformed body does not end the call.
End_WaitsOn(c, r) ==
    IF r = "IntegrationValidationError" THEN UNCHANGED <<phase, result, waited>>
    ELSE /\ phase' = [phase EXCEPT ![c] = "ended"]
         /\ result' = [result EXCEPT ![c] = r]
         /\ UNCHANGED waited

End(c, r) ==
    /\ phase' = [phase EXCEPT ![c] = "ended"]
    /\ result' = [result EXCEPT ![c] = r]
    /\ UNCHANGED waited

Sleep(c, delay) ==
    /\ phase' = [phase EXCEPT ![c] = "sleeping"]
    /\ waited' = [waited EXCEPT ![c] = @ + delay]
    /\ UNCHANGED result

\* Slip: one attempt too many.
Retries_Extra(c, reply) == Transient(reply) /\ attempt[c] <= MaxAttempts

\* Slip: one attempt too few.
Retries_Fewer(c, reply) == Transient(reply) /\ attempt[c] + 1 < MaxAttempts

\* Slip: every failure is retried.
Retries_AnyFailure(c, reply) == Outcome(reply) # "ok" /\ attempt[c] < MaxAttempts

Retries(c, reply) == Transient(reply) /\ attempt[c] < MaxAttempts

\* The attempt has ended in a reply: it is retried after a delay, or it ends
\* the call.  A "nan" delay survives min() and makes time.sleep raise.  Every
\* attempt makes the same request, so one that cannot be sent fails the first.
Handle(c, reply) ==
    /\ phase[c] = "sent"
    /\ reply.kind = "unsent" => attempt[c] = 1
    /\ last' = [last EXCEPT ![c] = reply]
    /\ \/ /\ Retries(c, reply)
          /\ ParseRetryAfter(HeaderOf(reply)).form # "nan"
          /\ \E delay \in ComputeDelay(attempt[c], HeaderOf(reply)) : Sleep(c, delay)
       \/ /\ Retries(c, reply)
          /\ ParseRetryAfter(HeaderOf(reply)).form = "nan"
          /\ End(c, "ValueError")
       \/ /\ ~Retries(c, reply)
          /\ End(c, Outcome(reply))
    /\ UNCHANGED attempt

\* The sleep is over and the next attempt sent.
Resend(c) ==
    /\ phase[c] = "sleeping"
    /\ phase' = [phase EXCEPT ![c] = "sent"]
    /\ attempt' = [attempt EXCEPT ![c] = @ + 1]
    /\ UNCHANGED <<waited, last, result>>

ClientDone == \A c \in Calls : phase[c] = "ended"

ClientNext ==
    \/ \E c \in Calls : Send(c)
    \/ \E c \in Calls, reply \in Replies : Handle(c, reply)
    \/ \E c \in Calls : Resend(c)
    \/ ClientDone /\ UNCHANGED clientVars

ClientSpec == ClientInit /\ [][ClientNext]_clientVars

(***************************************************************************)
(* httpx always ends an attempt, with a timeout if nothing else, and       *)
(* time.sleep returns.                                                     *)
(***************************************************************************)
ClientFairness ==
    \A c \in Calls :
        /\ WF_clientVars(\E reply \in Replies : Handle(c, reply))
        /\ WF_clientVars(Resend(c))

FairClientSpec == ClientSpec /\ ClientFairness

-------------------------------------------------------------------------------
\* However the provider asks to be waited for, a call sleeps no longer than the
\* larger of the two caps between two attempts (base.py:447-464).
WaitIsBounded ==
    \A c \in Calls :
        LET cap == IF BackoffMax >= MaxRetryAfter THEN BackoffMax ELSE MaxRetryAfter
        IN  waited[c] <= cap * (IF phase[c] = "sleeping" \/ phase[c] = "idle"
                                  THEN attempt[c] ELSE attempt[c] - 1)

\* A transient failure is reported only once every attempt is used up, and the
\* error is that of the last reply: a rate limit is never reported as a server
\* error that an earlier attempt met, nor the other way round (base.py:231-282).
ErrorIsTheLastReplys ==
    \A c \in Calls : phase[c] = "ended" /\ result[c] # "ValueError" =>
        /\ result[c] = Outcome(last[c])
        /\ Transient(last[c]) => attempt[c] = MaxAttempts

\* A request that may have taken effect is not sent again: after a success or a
\* failure that is not transient the call is over (base.py:177-188).
OnlyTransientIsRetried ==
    [][\A c \in Calls : attempt[c] > 0 /\ attempt'[c] # attempt[c] =>
          Transient(last[c]) /\ result[c] = "none"]_clientVars

\* Every call comes to an end, whatever the provider replies (base.py:236).
EveryCallEnds == \A c \in Calls : (phase[c] = "sent") ~> (phase[c] = "ended")

\* What the docstring of get() says: every terminal failure, of the modes it lists
\* (a request that was never sent is none of them), is raised as a subclass of
\* IntegrationError (base.py:182-183).
EveryFailureIsAnIntegrationError ==
    \A c \in Calls : phase[c] = "ended" /\ last[c].kind # "unsent" =>
        result[c] \in {"ok"} \cup ErrorClass
===============================================================================
