----------------------------- MODULE AlertWorkflow -----------------------------
(***************************************************************************)
(* run_alert_workflow (app/services/workflow.py) for several alerts that   *)
(* share one event loop.                                                   *)
(*                                                                         *)
(* A coroutine runs until it awaits.  The only await of the workflow is    *)
(* the call of the AI assistant, and only a live assistant suspends there, *)
(* so from its first statement to that await an alert holds the loop: its  *)
(* enrichment lookups are synchronous and nothing else the process does    *)
(* can run between them.  What does go on meanwhile is outside the         *)
(* process: a live assistant answers another alert, a timer expires.       *)
(***************************************************************************)
EXTENDS Investigation, Integers

CONSTANTS
    Alerts,       \* the requests being served, one alert each
    NoAlert,      \* the loop is free
    Values,       \* indicator values
    Payloads,     \* what a request may carry
    Verdicts,     \* what the enrichment provider may answer for one indicator
    LiveOutputs   \* the raw outputs a live assistant may return

\* No triage result or no analysis yet, no accepted output: None in the code.
CONSTANTS NoTriage, NoAnalysis, NoAdvice

Payload ==
    [supported : BOOLEAN, severity : Severity, source_ip : Values \cup {Absent},
     destination_ip : Values \cup {Absent}, file_hash : Values \cup {Absent},
     process_name : BOOLEAN, denied : SUBSET Names, assistant : {"mock", "failing", "live"}]

\* An address or a hash is none of the words the validation tells apart.
ASSUME ValuesAssumption == Values \cap ({"prohibited", "foreign"} \cup Names) = {}

ASSUME PayloadsAssumption == Payloads \subseteq Payload

ASSUME VerdictsAssumption ==
    Verdicts \subseteq {r \in EnrichmentResult : r.available}

ASSUME LiveOutputsAssumption ==
    \A raw \in LiveOutputs :
        /\ raw.schemaOk \in BOOLEAN
        /\ raw.risk \in AIRiskAssessment
        /\ raw.confidence \in AIConfidence

VARIABLES
    loop,        \* the alert whose coroutine is running, or NoAlert
    pc,          \* pc[a]: where the coroutine of a is
    payload,     \* payload[a]: the request; any payload until it arrives
    gathered,    \* gathered[a]: what the provider has answered so far, in order
    enrichment,  \* enrichment[a]: the evidence the alert is triaged on
    available,   \* available[a]: whether that evidence is the provider's
    triage,      \* triage[a]: the triage result, or NoTriage
    call,        \* call[a]: the assistant call: "none", "running" or its end
    expired,     \* expired[a]: the timer of the call has gone off
    analysis,    \* analysis[a]: the AI-assisted analysis, or NoAnalysis
    history      \* history[a]: the processing history, stage by stage

vars == <<loop, pc, payload, gathered, enrichment, available, triage, call, expired,
          analysis, history>>

-------------------------------------------------------------------------------
\* ProcessingStage, in the order of the pipeline.
ProcessingStage ==
    <<"received", "validated", "normalized", "indicators_extracted", "enriched",
      "triaged", "ai_requested", "ai_received", "ai_validated", "ai_rejected",
      "ai_unavailable", "analyst_review">>

Stages == {ProcessingStage[i] : i \in DOMAIN ProcessingStage}

AIStatus == {"available", "unavailable", "rejected"}

\* What the later steps use of an accepted InvestigationResult.
Advice == [risk : AIRiskAssessment, confidence : AIConfidence]

\* AIAssistedAnalysis; "result" keeps the accepted output and "reason" both the
\* rejection reason and the reason recorded with the ai_unavailable stage.
Analysis ==
    [status : AIStatus, reason : RejectionReason \cup Failure \cup {"none"},
     result : Advice \cup {NoAdvice},
     conflicts : BOOLEAN, review : BOOLEAN]

ASSUME MarkersAssumption ==
    /\ NoAlert \notin Alerts
    /\ Absent \notin Values
    /\ NoTriage \notin TriageResult
    /\ NoAnalysis \notin Analysis
    /\ NoAdvice \notin Advice

Running == [kind |-> "running"]

NoCall == [kind |-> "none"]

(***************************************************************************)
(* The end of an assistant call, as the except clauses sort it.            *)
(***************************************************************************)
Judged(end, alert) ==
    IF end.kind = "output" THEN ValidateInvestigationResult(end.raw, alert) ELSE end.kind

\* Slip: the reason reported as the status.
StatusOf_Reason(verdict) == IF verdict = "accepted" THEN "available" ELSE verdict

StatusOf(verdict) ==
    IF verdict = "accepted" THEN "available"
    ELSE IF verdict \in RejectionReason THEN "rejected"
    ELSE "unavailable"

\* Slip: a low confidence alone no longer asks for a review.
ReviewRequired_Unsure(accepted, conflicts, low) == ~accepted \/ conflicts

ReviewRequired(accepted, conflicts, low) == ~accepted \/ conflicts \/ low

AnalysisOf(end, alert, decision) ==
    LET verdict   == Judged(end, alert)
        accepted  == verdict = "accepted"
        conflicts == accepted /\ AIConflictsWithTriage(decision, end.raw.risk)
        low       == accepted /\ end.raw.confidence = "LOW"
    IN  [status    |-> StatusOf(verdict),
         reason    |-> IF accepted THEN "none" ELSE verdict,
         result    |-> IF accepted
                         THEN [risk |-> end.raw.risk, confidence |-> end.raw.confidence]
                         ELSE NoAdvice,
         conflicts |-> conflicts,
         review    |-> ReviewRequired(accepted, conflicts, low)]

\* Slip: the review is recorded with the failed calls only.
AdviceStages_Failures(end, an) ==
    (IF end.kind = "output" THEN <<"ai_received">> ELSE <<>>)
    \o (IF an.status = "available" THEN <<"ai_validated">>
        ELSE IF an.status = "rejected" THEN <<"ai_rejected", "analyst_review">>
        ELSE <<"ai_unavailable", "analyst_review">>)

\* The stages the call's end adds to the history.
AdviceStages(end, an) ==
    (IF end.kind = "output" THEN <<"ai_received">> ELSE <<>>)
    \o (IF an.status = "available" THEN <<"ai_validated">>
        ELSE IF an.status = "rejected" THEN <<"ai_rejected">>
        ELSE <<"ai_unavailable">>)
    \o (IF an.review THEN <<"analyst_review">> ELSE <<>>)

-------------------------------------------------------------------------------
TypeOK ==
    /\ loop \in Alerts \cup {NoAlert}
    /\ pc \in [Alerts -> {"idle", "enriching", "awaiting", "responded", "refused"}]
    /\ payload \in [Alerts -> Payloads]
    /\ gathered \in [Alerts -> Seq(Verdicts)]
    /\ enrichment \in [Alerts -> Seq(EnrichmentResult)]
    /\ available \in [Alerts -> BOOLEAN]
    /\ triage \in [Alerts -> TriageResult \cup {NoTriage}]
    /\ call \in [Alerts -> {NoCall, Running} \cup {Returned(raw) : raw \in LiveOutputs}
                                           \cup {Raised(f) : f \in Failure}]
    /\ expired \in [Alerts -> BOOLEAN]
    /\ analysis \in [Alerts -> Analysis \cup {NoAnalysis}]
    /\ history \in [Alerts -> Seq(Stages)]

Init ==
    /\ loop = NoAlert
    /\ pc = [a \in Alerts |-> "idle"]
    /\ payload \in [Alerts -> Payloads]
    /\ gathered = [a \in Alerts |-> <<>>]
    /\ enrichment = [a \in Alerts |-> <<>>]
    /\ available = [a \in Alerts |-> TRUE]
    /\ triage = [a \in Alerts |-> NoTriage]
    /\ call = [a \in Alerts |-> NoCall]
    /\ expired = [a \in Alerts |-> FALSE]
    /\ analysis = [a \in Alerts |-> NoAnalysis]
    /\ history = [a \in Alerts |-> <<>>]

Indicators(a) == ExtractIndicators(payload[a])

(***************************************************************************)
(* The request arrives.  The adapter refuses a payload of another source   *)
(* (UnsupportedSourceError, HTTP 422) and its history is dropped with the  *)
(* coroutine; otherwise the coroutine goes on to its first lookup.         *)
(***************************************************************************)
Refuse(a) ==
    /\ loop = NoAlert
    /\ pc[a] = "idle"
    /\ ~payload[a].supported
    /\ pc' = [pc EXCEPT ![a] = "refused"]
    /\ UNCHANGED <<loop, payload, gathered, enrichment, available, triage, call, expired,
                   analysis, history>>

\* The synchronous part of the coroutine has begun.
Begin(a) ==
    /\ pc[a] = "idle"
    /\ payload[a].supported
    /\ loop' = a
    /\ pc' = [pc EXCEPT ![a] = "enriching"]
    /\ history' = [history EXCEPT
          ![a] = <<"received", "validated", "normalized", "indicators_extracted">>]
    /\ UNCHANGED <<payload, gathered, enrichment, available, triage, call, expired, analysis>>

\* Slip: lookups are awaited, and other requests run between them.
Receive_Preempts(a) == Begin(a)

Receive(a) == loop = NoAlert /\ Begin(a)

\* One lookup of the list comprehension.
Enrich(a) ==
    /\ pc[a] = "enriching"
    /\ Len(gathered[a]) < Len(Indicators(a))
    /\ \E r \in Verdicts : gathered' = [gathered EXCEPT ![a] = Append(@, r)]
    /\ UNCHANGED <<loop, pc, payload, enrichment, available, triage, call, expired,
                   analysis, history>>

\* The call's end becomes the analysis, and the response is returned.
Finish(a, end, decision, stages) ==
    LET an == AnalysisOf(end, payload[a], decision)
    IN  /\ analysis' = [analysis EXCEPT ![a] = an]
        /\ history' = [history EXCEPT ![a] = @ \o stages \o AdviceStages(end, an)]
        /\ pc' = [pc EXCEPT ![a] = "responded"]

(***************************************************************************)
(* Once enrichment has ended, one way or the other, the alert is triaged   *)
(* and the assistant is called: the rest of the coroutine up to its await, *)
(* or up to its return when the assistant does not suspend.                *)
(***************************************************************************)
DecideAndAsk(a, results, ok) ==
    LET t      == TriageAlert(payload[a].severity, results, ok)
        stages == <<"enriched", "triaged", "ai_requested">>
    IN  /\ enrichment' = [enrichment EXCEPT ![a] = results]
        /\ available' = [available EXCEPT ![a] = ok]
        /\ triage' = [triage EXCEPT ![a] = t]
        /\ loop' = NoAlert
        /\ \/ /\ payload[a].assistant = "live"
              /\ pc' = [pc EXCEPT ![a] = "awaiting"]
              /\ call' = [call EXCEPT ![a] = Running]
              /\ history' = [history EXCEPT ![a] = @ \o stages]
              /\ UNCHANGED analysis
           \/ /\ payload[a].assistant = "mock"
              /\ Finish(a, Returned(MockInvestigate(payload[a], t.decision, results)),
                        t.decision, stages)
              /\ UNCHANGED call
           \/ /\ payload[a].assistant = "failing"
              /\ Finish(a, Raised("provider_unavailable"), t.decision, stages)
              /\ UNCHANGED call
        /\ UNCHANGED <<payload, gathered, expired>>

EnrichmentCompletes(a) ==
    /\ pc[a] = "enriching"
    /\ Len(gathered[a]) = Len(Indicators(a))
    /\ DecideAndAsk(a, gathered[a], TRUE)

\* Slip: the results that did arrive are kept.
EnrichmentFails_KeepsAnswers(a) ==
    /\ pc[a] = "enriching"
    /\ Len(gathered[a]) < Len(Indicators(a))
    /\ DecideAndAsk(a, gathered[a], FALSE)

\* A lookup raises, with EnrichmentUnavailableError or with anything else: what
\* the provider has answered so far is thrown away.
EnrichmentFails(a) ==
    /\ pc[a] = "enriching"
    /\ Len(gathered[a]) < Len(Indicators(a))
    /\ DecideAndAsk(a, [i \in 1 .. Len(Indicators(a)) |-> UnavailableResult], FALSE)

(***************************************************************************)
(* Outside the process: a live call ends, the timer of a call goes off.    *)
(***************************************************************************)
LiveCallEnds(a) ==
    /\ pc[a] = "awaiting"
    /\ call[a] = Running
    /\ \E sdk \in SdkOutcome, raw \in LiveOutputs :
          call' = [call EXCEPT ![a] = LiveInvestigate(sdk, raw)]
    /\ UNCHANGED <<loop, pc, payload, gathered, enrichment, available, triage, expired,
                   analysis, history>>

TimerExpires(a) ==
    /\ pc[a] = "awaiting"
    /\ ~expired[a]
    /\ expired' = [expired EXCEPT ![a] = TRUE]
    /\ UNCHANGED <<loop, pc, payload, gathered, enrichment, available, triage, call,
                   analysis, history>>

(***************************************************************************)
(* The coroutine is resumed, as soon as the loop is free, by the end of    *)
(* the call or by the timer.  When both are due either may be served       *)
(* first: wait_for keeps an answer whose wake-up was queued before the     *)
(* timer's, and drops it otherwise.                                        *)
(***************************************************************************)
Wake(a, end) ==
    /\ loop = NoAlert
    /\ pc[a] = "awaiting"
    /\ Finish(a, end, triage[a].decision, <<>>)
    /\ call' = [call EXCEPT ![a] = NoCall]
    /\ UNCHANGED <<loop, payload, gathered, enrichment, available, triage, expired>>

CallResumes(a) == call[a] # Running /\ Wake(a, call[a])

\* Slip: the timer only stops the wait once the call has ended.
CallTimesOut_Shielded(a) == expired[a] /\ call[a] # Running /\ Wake(a, Raised("timeout"))

CallTimesOut(a) == expired[a] /\ Wake(a, Raised("timeout"))

Arrive(a) == Refuse(a) \/ Receive(a)

Step(a) ==
    \/ Enrich(a)
    \/ EnrichmentCompletes(a)
    \/ EnrichmentFails(a)
    \/ CallResumes(a)
    \/ CallTimesOut(a)

Environment(a) == LiveCallEnds(a) \/ TimerExpires(a)

Done == \A a \in Alerts : pc[a] \in {"responded", "refused"}

\* Every request has been served: the system may rest.
Terminated == Done /\ UNCHANGED vars

Next == (\E a \in Alerts : Arrive(a) \/ Step(a) \/ Environment(a)) \/ Terminated

Spec == Init /\ [][Next]_vars

(***************************************************************************)
(* The event loop runs whatever is due and its timers go off; a lookup     *)
(* returns or raises, since the integration client bounds its attempts.    *)
(* Requests need not arrive, and a live assistant need not ever answer.    *)
(***************************************************************************)
Fairness == \A a \in Alerts : WF_vars(Step(a)) /\ WF_vars(TimerExpires(a))

FairSpec == Spec /\ Fairness

-------------------------------------------------------------------------------
\* What keeps the properties below invariant: where the coroutine is says what it
\* has, and the decision on record is the one the evidence on record leads to.
PlaceTellsState ==
    \A a \in Alerts :
        /\ triage[a] = NoTriage <=> pc[a] \in {"idle", "enriching", "refused"}
        /\ analysis[a] = NoAnalysis <=> pc[a] # "responded"
        /\ pc[a] = "awaiting" => call[a] # NoCall
        /\ triage[a] # NoTriage =>
              triage[a] = TriageAlert(payload[a].severity, enrichment[a], available[a])

Responded(a) == pc[a] = "responded"

StagesOf(a) == {history[a][i] : i \in DOMAIN history[a]}

\* Only the lookups of one alert hold the event loop, and they give it back: an
\* alert that waits for its assistant never keeps the others waiting
\* (workflow.py:107-211).
LoopIsGivenBack ==
    \A a \in Alerts : loop = a <=> pc[a] = "enriching"

\* Evidence is all or nothing.  An alert is triaged either on the provider's
\* answers, one per indicator and in order, or, as soon as one lookup has
\* failed, on none of them: every result is then marked unavailable and the
\* alert goes to an analyst (workflow.py:114-163, rule B).
EvidenceAllOrNothing ==
    \A a \in Alerts : triage[a] # NoTriage =>
        /\ Len(enrichment[a]) = Len(Indicators(a))
        /\ available[a] => enrichment[a] = gathered[a]
        /\ ~available[a] =>
              /\ \A i \in DOMAIN enrichment[a] : ~enrichment[a][i].available
              /\ triage[a] = [decision |-> "ANALYST_REVIEW", rule |-> "RULE_B"]

\* No alert is called low risk unless something was looked up, every lookup was
\* answered and no answer was malicious: neither a failure after a malicious
\* answer nor an alert without indicators reads as safe (engine.py:18-70).
LowRiskIsEarned ==
    \A a \in Alerts : triage[a] # NoTriage /\ triage[a].decision = "LOW_RISK" =>
        /\ Len(gathered[a]) = Len(Indicators(a))
        /\ gathered[a] # <<>>
        /\ \A i \in DOMAIN gathered[a] : gathered[a][i].reputation # "malicious"

\* The history of a finished alert tells what happened to it: every stage once
\* and in pipeline order, exactly one end of the assistant call and the one the
\* analysis reports, "received" only for a call that returned, and
\* "analyst_review" exactly when a review is required (workflow.py:203-325).
HistoryTellsTheOutcome ==
    \A a \in Alerts : Responded(a) =>
        LET rank(s) == CHOOSE i \in DOMAIN ProcessingStage : ProcessingStage[i] = s
            st      == analysis[a].status
        IN  /\ \A i \in 2 .. Len(history[a]) : rank(history[a][i - 1]) < rank(history[a][i])
            /\ {ProcessingStage[i] : i \in 1 .. 7} \subseteq StagesOf(a)
            /\ StagesOf(a) \cap {"ai_validated", "ai_rejected", "ai_unavailable"} =
                  {IF st = "available" THEN "ai_validated"
                   ELSE IF st = "rejected" THEN "ai_rejected" ELSE "ai_unavailable"}
            /\ "ai_received" \in StagesOf(a) <=> st # "unavailable"
            /\ "analyst_review" \in StagesOf(a) <=> analysis[a].review

\* The mock assistant's table and the triage rules were written to mirror each
\* other: advice of the mock never contradicts triage, and asks for a review
\* exactly when triage does (table.py:57-83 against engine.py:18-70).
MockMirrorsTriage ==
    \A a \in Alerts :
        Responded(a) /\ payload[a].assistant = "mock" /\ analysis[a].status = "available" =>
            /\ ~analysis[a].conflicts
            /\ analysis[a].review <=> triage[a].decision = "ANALYST_REVIEW"

\* A prohibited term in one of the alert's own names costs the advice of a
\* harmless output and nothing else: the mock's output is rejected exactly when
\* it quotes such a name, its host in the summary or its user in the evidence,
\* and the rejection says so and sends the alert to an analyst; a process name,
\* which the mock does not quote, does no harm (mock.py:31-46,
\* validation.py:58-73, workflow.py:255-307).
DenylistCostsOnlyTheAdvice ==
    \A a \in Alerts : Responded(a) /\ payload[a].assistant = "mock" =>
        IF payload[a].denied \cap {"host", "user"} = {}
        THEN analysis[a].status = "available"
        ELSE analysis[a] = [status |-> "rejected", reason |-> "policy_keyword_match",
                            result |-> NoAdvice, conflicts |-> FALSE, review |-> TRUE]

\* More evidence never softens a decision: were the alert triaged on the answers
\* so far, a further answer could neither take back an escalation nor make low
\* risk of what was not (engine.py:33-55).
EvidenceNeverSoftens ==
    [][\A a \in Alerts : gathered[a] # <<>> /\ gathered'[a] # gathered[a] =>
          LET decide(answers) == TriageAlert(payload[a].severity, answers, TRUE).decision
          IN  /\ decide(gathered[a]) = "ESCALATE" => decide(gathered'[a]) = "ESCALATE"
              /\ decide(gathered'[a]) = "LOW_RISK" => decide(gathered[a]) = "LOW_RISK"]_vars

\* Every request that arrives is served, whatever the provider and the assistant
\* do, a silent live assistant included (workflow.py:207-285).
EveryAlertServed ==
    \A a \in Alerts : (pc[a] # "idle") ~> (pc[a] \in {"responded", "refused"})

(***************************************************************************)
(* The workflow keeps the promise of module Advisory.                      *)
(***************************************************************************)
DecisionOf == [a \in Alerts |-> IF triage[a] = NoTriage THEN "none" ELSE triage[a].decision]

AdviceOf == [a \in Alerts |-> IF analysis[a] = NoAnalysis THEN NoAdvice ELSE analysis[a].result]

OutcomeOf ==
    [a \in Alerts |-> IF pc[a] = "refused" THEN "refused"
                      ELSE IF analysis[a] = NoAnalysis THEN "open"
                      ELSE IF analysis[a].review THEN "review"
                      ELSE "no_review"]

Promise == INSTANCE Advisory WITH
    decision <- DecisionOf, advice <- AdviceOf, outcome <- OutcomeOf

\* The decision is made once, by triage alone, and no answer, timeout or failure
\* of the assistant ever changes it; no review is skipped without trusted advice.
AdviceNeverDecides == Promise!Spec
===============================================================================
