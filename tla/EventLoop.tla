------------------------------- MODULE EventLoop --------------------------------
(***************************************************************************)
(* Time on the event loop of run_alert_workflow (app/services/workflow.py).*)
(* Module AlertWorkflow says what the steps of a request do; this one how  *)
(* long they keep the others waiting.  Enrichment is synchronous: from its *)
(* first statement to the call of the assistant a request holds the loop,  *)
(* for as long as its lookups take, and the timers and answers of the      *)
(* other requests wait.                                                    *)
(*                                                                         *)
(* asyncio is not under src/ and is modelled from what the workflow uses   *)
(* of it.  An iteration of the loop takes what is scheduled, then what the *)
(* sockets hold, then the timers that are due, and runs all of it in that  *)
(* order; what is scheduled meanwhile waits for the next iteration.  A     *)
(* cancelled task is cancelled even when its result has come and its       *)
(* resumption is scheduled.  Handling a socket or a timer takes no time.   *)
(***************************************************************************)
EXTENDS Integers, SequencesExt

CONSTANTS
    Requests,     \* the connections requests come on, one request at a time each
    NoRequest,    \* no request holds the loop
    AiTimeout,    \* AI_PROVIDER_TIMEOUT_SECONDS, in units of time
    Lookups,      \* how many indicators an alert may have
    LookupTime,   \* what one lookup may take: IntegrationClient's WaitIsBounded
    NoAnswer      \* the assistant has not answered

ASSUME TimesAssumption ==
    /\ AiTimeout \in Nat \ {0}
    /\ Lookups \in Nat
    /\ LookupTime \in Nat
    /\ IsFiniteSet(Requests)
    /\ NoRequest \notin Requests
    /\ NoAnswer \notin Nat

VARIABLES
    place,      \* place[r]: "away", "arriving", "enriching" or "awaiting"
    holder,     \* the request whose coroutine holds the loop, or NoRequest
    held,       \* how long it has held it
    sockets,    \* what has come in and the loop has not seen
    batch,      \* what is left to run of this iteration, in order
    scheduled,  \* what the next iteration starts with, in order
    timers,     \* the requests whose call has a timer that has not gone off
    cancelled,  \* the requests whose call has been cancelled by its timer
    age,        \* age[r]: how long the call of r has been awaited
    answered,   \* answered[r]: its age when the assistant answered, or NoAnswer
    blocked     \* blocked[r]: for how much of the time since others held the loop

vars == <<place, holder, held, sockets, batch, scheduled, timers, cancelled, age,
          answered, blocked>>

-------------------------------------------------------------------------------
Handle == [do : {"start", "receive", "expire", "resume"}, of : Requests]

Do(what, r) == [do |-> what, of |-> r]

\* The longest a request holds the loop.
Stretch == Lookups * LookupTime

\* At worst, a timer falls due just as a batch of all the other requests begins,
\* and is put behind another such batch.  With two requests or more this is reached,
\* but for the one unit in which the timer falls due.
Latest == AiTimeout + 2 * (Cardinality(Requests) - 1) * Stretch

\* Ages are not told apart beyond the latest: the bound of this model.
Older(n) == IF n <= Latest THEN n + 1 ELSE n

\* Slip: the timeout is given to each of three attempts of the SDK.
Due_PerAttempt(r) == r \in timers /\ age[r] >= 3 * AiTimeout

\* Slip: one unit too early.
Due_Early(r) == r \in timers /\ age[r] + 1 >= AiTimeout

Due(r) == r \in timers /\ age[r] >= AiTimeout

\* h is the next to run, and nothing holds the loop.
Runs(h) == holder = NoRequest /\ batch # <<>> /\ h = batch[1]

-------------------------------------------------------------------------------
TypeOK ==
    /\ place \in [Requests -> {"away", "arriving", "enriching", "awaiting"}]
    /\ holder \in Requests \cup {NoRequest}
    /\ held \in 0 .. Stretch
    /\ sockets \in SUBSET Handle
    /\ batch \in Seq(Handle)
    /\ scheduled \in Seq(Handle)
    /\ timers \in SUBSET Requests /\ cancelled \in SUBSET Requests
    /\ age \in [Requests -> 0 .. Latest + 1]
    /\ answered \in [Requests -> Nat \cup {NoAnswer}]
    /\ blocked \in [Requests -> Nat]
    /\ \A r \in Requests : r = holder <=> place[r] = "enriching"
    /\ \A r \in timers \cup cancelled : place[r] = "awaiting"
    /\ IsInjective(batch \o scheduled)

Init ==
    /\ place = [r \in Requests |-> "away"]
    /\ holder = NoRequest
    /\ held = 0
    /\ sockets = {}
    /\ batch = <<>>
    /\ scheduled = <<>>
    /\ timers = {}
    /\ cancelled = {}
    /\ age = [r \in Requests |-> 0]
    /\ answered = [r \in Requests |-> NoAnswer]
    /\ blocked = [r \in Requests |-> 0]

(***************************************************************************)
(* The world outside: a client sends an alert, the assistant's vendor      *)
(* answers, time passes.                                                   *)
(***************************************************************************)
Arrive(r) ==
    /\ place[r] = "away"
    /\ place' = [place EXCEPT ![r] = "arriving"]
    /\ sockets' = sockets \cup {Do("start", r)}
    /\ UNCHANGED <<holder, held, batch, scheduled, timers, cancelled, age, answered,
                   blocked>>

Answer(r) ==
    /\ place[r] = "awaiting"
    /\ answered[r] = NoAnswer
    /\ r \notin cancelled
    /\ answered' = [answered EXCEPT ![r] = age[r]]
    /\ sockets' = sockets \cup {Do("receive", r)}
    /\ UNCHANGED <<place, holder, held, batch, scheduled, timers, cancelled, age, blocked>>

Ages ==
    age' = [r \in Requests |-> IF place[r] = "awaiting" THEN Older(age[r]) ELSE age[r]]

\* A lookup takes time, sleeps of the client between two attempts included.
LookupTakesTime ==
    /\ holder # NoRequest
    /\ held < Stretch
    /\ held' = held + 1
    /\ Ages
    /\ blocked' = [r \in Requests |-> IF answered[r] = NoAnswer THEN 0 ELSE blocked[r] + 1]
    /\ UNCHANGED <<place, holder, sockets, batch, scheduled, timers, cancelled, answered>>

\* The loop has nothing to run and waits for a socket or a timer.
LoopSleeps ==
    /\ holder = NoRequest
    /\ batch = <<>> /\ scheduled = <<>> /\ sockets = {}
    /\ timers # {} /\ \A r \in timers : ~Due(r)
    /\ Ages
    /\ UNCHANGED <<place, holder, held, sockets, batch, scheduled, timers, cancelled,
                   answered, blocked>>

-------------------------------------------------------------------------------
(***************************************************************************)
(* The event loop.                                                         *)
(***************************************************************************)

\* The next iteration begins: the sockets in any order, the timers by deadline.
Select ==
    /\ holder = NoRequest
    /\ batch = <<>>
    /\ \E events \in SetToSeqs(sockets), due \in SetToSeqs({r \in timers : Due(r)}) :
          /\ \A i, j \in DOMAIN due : i < j => age[due[i]] >= age[due[j]]
          /\ batch' = scheduled \o events \o [i \in DOMAIN due |-> Do("expire", due[i])]
          /\ batch' # <<>>
          /\ timers' = timers \ {due[i] : i \in DOMAIN due}
    /\ sockets' = {}
    /\ scheduled' = <<>>
    /\ UNCHANGED <<place, holder, held, cancelled, age, answered, blocked>>

\* run_alert_workflow begins, and holds the loop for its lookups.
Start(r) ==
    /\ Runs(Do("start", r))
    /\ batch' = Tail(batch)
    /\ place' = [place EXCEPT ![r] = "enriching"]
    /\ holder' = r
    /\ held' = 0
    /\ UNCHANGED <<sockets, scheduled, timers, cancelled, age, answered, blocked>>

\* The lookups are over and the alert is triaged.  A live assistant suspends at
\* the await, where the timer is set ...
CallAssistant(r) ==
    /\ holder = r
    /\ holder' = NoRequest
    /\ held' = 0
    /\ place' = [place EXCEPT ![r] = "awaiting"]
    /\ timers' = timers \cup {r}
    /\ age' = [age EXCEPT ![r] = 0]
    /\ UNCHANGED <<sockets, batch, scheduled, cancelled, answered, blocked>>

\* ... and any other assistant answers at once, so the request is served.
AnswerAtOnce(r) ==
    /\ holder = r
    /\ holder' = NoRequest
    /\ held' = 0
    /\ place' = [place EXCEPT ![r] = "away"]
    /\ UNCHANGED <<sockets, batch, scheduled, timers, cancelled, age, answered, blocked>>

\* A response has come in: the task is scheduled, unless it has been already or
\* is over.
Receive(r) ==
    /\ Runs(Do("receive", r))
    /\ batch' = Tail(batch)
    /\ scheduled' = IF place[r] = "awaiting" /\ r \notin cancelled
                      THEN Append(scheduled, Do("resume", r)) ELSE scheduled
    /\ UNCHANGED <<place, holder, held, sockets, timers, cancelled, age, answered, blocked>>

\* The resumption of r is scheduled.
Resuming(r) == \E i \in DOMAIN scheduled : scheduled[i] = Do("resume", r)

\* Slip: the timer of a request that is over cancels.
Expire_Stale(r) ==
    /\ Runs(Do("expire", r))
    /\ batch' = Tail(batch)
    /\ cancelled' = cancelled \cup {r}
    /\ scheduled' = IF Resuming(r) THEN scheduled ELSE Append(scheduled, Do("resume", r))
    /\ UNCHANGED <<place, holder, held, sockets, timers, age, answered, blocked>>

\* The timer goes off and cancels the task, also if its resumption is scheduled.
\* The timer of a call that has ended meanwhile does nothing.
Expire(r) ==
    /\ Runs(Do("expire", r))
    /\ batch' = Tail(batch)
    /\ IF place[r] = "awaiting"
         THEN /\ cancelled' = cancelled \cup {r}
              /\ scheduled' = IF Resuming(r) THEN scheduled
                              ELSE Append(scheduled, Do("resume", r))
         ELSE UNCHANGED <<cancelled, scheduled>>
    /\ UNCHANGED <<place, holder, held, sockets, timers, age, answered, blocked>>

\* Slip: a call that timed out is made again.
Resume_AsksAgain(r) ==
    /\ Runs(Do("resume", r))
    /\ batch' = Tail(batch)
    /\ place' = [place EXCEPT ![r] = IF r \in cancelled THEN "awaiting" ELSE "away"]
    /\ timers' = IF r \in cancelled THEN timers \cup {r} ELSE timers \ {r}
    /\ cancelled' = cancelled \ {r}
    /\ age' = [age EXCEPT ![r] = 0]
    /\ answered' = [answered EXCEPT ![r] = NoAnswer]
    /\ blocked' = [blocked EXCEPT ![r] = 0]
    /\ sockets' = sockets \ {Do("receive", r)}
    /\ UNCHANGED <<holder, held, scheduled>>

\* Slip: the pool of connections is closed, and with it the others' calls.
Resume_ClosesThePool(r) ==
    /\ Runs(Do("resume", r))
    /\ batch' = Tail(batch)
    /\ place' = [place EXCEPT ![r] = "away"]
    /\ timers' = timers \ {r}
    /\ cancelled' = cancelled \ {r}
    /\ age' = [age EXCEPT ![r] = 0]
    /\ answered' = [answered EXCEPT ![r] = NoAnswer]
    /\ blocked' = [blocked EXCEPT ![r] = 0]
    /\ sockets' = {h \in sockets : h.do # "receive"}
    /\ UNCHANGED <<holder, held, scheduled>>

\* The workflow goes on behind its await, with the answer, or with a TimeoutError
\* if it was cancelled, and the request is served.  The connection to the vendor
\* is closed, or given back, with whatever is still in its socket.
Resume(r) ==
    /\ Runs(Do("resume", r))
    /\ batch' = Tail(batch)
    /\ place' = [place EXCEPT ![r] = "away"]
    /\ timers' = timers \ {r}
    /\ cancelled' = cancelled \ {r}
    /\ age' = [age EXCEPT ![r] = 0]
    /\ answered' = [answered EXCEPT ![r] = NoAnswer]
    /\ blocked' = [blocked EXCEPT ![r] = 0]
    /\ sockets' = sockets \ {Do("receive", r)}
    /\ UNCHANGED <<holder, held, scheduled>>

-------------------------------------------------------------------------------
Loop ==
    \/ Select
    \/ \E r \in Requests :
          Start(r) \/ CallAssistant(r) \/ AnswerAtOnce(r) \/ Receive(r) \/ Expire(r)
          \/ Resume(r)

Time == LookupTakesTime \/ LoopSleeps

Next == Loop \/ Time \/ \E r \in Requests : Arrive(r) \/ Answer(r)

Spec == Init /\ [][Next]_vars

\* The loop runs what it has to, lookups end, and time does not stop.
FairSpec == Spec /\ WF_vars(Loop) /\ SF_vars(Time)

-------------------------------------------------------------------------------
\* How late at most: the call of an assistant is awaited for the timeout and as
\* long as two rounds of lookups of all the other requests, however the requests,
\* the answers and the timers fall (workflow.py:114 against 207-211).  The timeout
\* alone is not the outer bound that ADR 001 calls it.
LatenessIsBounded == \A r \in Requests : age[r] <= Latest

\* An answer that comes before the deadline is given up only if lookups of other
\* requests held the loop for all of the time that was left (workflow.py:207-212).
AnswerKeptUnlessHeld ==
    \A r \in cancelled :
        answered[r] # NoAnswer /\ answered[r] < AiTimeout =>
            answered[r] + blocked[r] >= AiTimeout

\* The loop has been told to, or will be told to, do something for r.
OnItsWay(what, r) == Do(what, r) \in sockets \cup Range(batch) \cup Range(scheduled)

\* No wake-up is lost, whatever is cancelled, closed or resumed meanwhile: a request
\* that has come in will be started; one behind its await has a timer, or is about to
\* be timed out or resumed; and an answer is on its way to its request until that is
\* resumed (workflow.py:114, 207-212).
NoWakeUpIsLost ==
    \A r \in Requests :
        /\ place[r] = "arriving" => OnItsWay("start", r)
        /\ place[r] = "awaiting" =>
               r \in timers \/ OnItsWay("expire", r) \/ OnItsWay("resume", r)
        /\ answered[r] # NoAnswer => OnItsWay("receive", r) \/ OnItsWay("resume", r)

\* Every request is served, although its assistant may never answer and others
\* keep coming (workflow.py:114, 207-211).
EveryRequestServed == \A r \in Requests : (place[r] # "away") ~> (place[r] = "away")
===============================================================================
