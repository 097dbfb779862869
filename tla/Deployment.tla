------------------------------ MODULE Deployment -------------------------------
(***************************************************************************)
(* The application as an operator runs it: app/main.py builds it once from *)
(* the settings, and app/api/routes.py and app/web/routes.py hand each     *)
(* request the providers that were built, or the test doubles a scenario   *)
(* asks for.  The operator may edit the environment and restart at any     *)
(* time, and the vendor of the live assistant may revoke a key or accept   *)
(* it again.                                                               *)
(*                                                                         *)
(* One request is followed at a time; how several share the event loop is  *)
(* module AlertWorkflow's.  Of a response the model keeps the triage       *)
(* result and which provider the evidence and the advice come from.        *)
(***************************************************************************)
EXTENDS Settings, VendorAdapters

CONSTANTS
    Environments,    \* what the operator may set the environment to
    Requests,        \* the requests that may come
    NoLength,        \* a request without a Content-Length header
    NoApp,           \* nothing has been built
    NoRequest,       \* nothing has been asked yet
    NoTriage         \* the request did not reach triage

ASSUME EnvironmentsAssumption == Environments \subseteq Environment

VARIABLES
    env,         \* the environment as it stands
    accepted,    \* the keys the live assistant's vendor accepts
    phase,       \* "down", "refused" to start, or "up"
    app,         \* application.state, or NoApp
    request,     \* the request that came last, or NoRequest
    response     \* what it got so far

vars == <<env, accepted, phase, app, request, response>>

-------------------------------------------------------------------------------
(***************************************************************************)
(* Alerts, and what the two enrichment providers know of an indicator.     *)
(***************************************************************************)
IndicatorKind ==
    {"malicious_ip", "benign_ip", "malicious_hash", "benign_hash", "unlisted"}

Alert == [severity : Severity, indicators : Seq(IndicatorKind)]

\* SYNTHETIC_LOOKUP_TABLE, and the default for what is not in it.
MockEnrich(indicator) ==
    Data(IF indicator = "unlisted" THEN UnknownIndicator
         ELSE [reputation |-> IF indicator \in {"malicious_ip", "malicious_hash"}
                                THEN "malicious" ELSE "benign",
               confidence |-> "high", available |-> TRUE])

\* The mock vendor's records: the two addresses only.
VendorRecords ==
    [indicator \in {"malicious_ip", "benign_ip"} |->
        IF indicator = "malicious_ip"
          THEN [schemaOk |-> TRUE, verdict |-> "malicious", score |-> 92]
          ELSE [schemaOk |-> TRUE, verdict |-> "benign", score |-> 5]]

\* How a call of the client ends against mock_threat_intel_transport.
VendorResult(key, indicator) ==
    IF key # "mock-threat-intel-api-key" THEN "IntegrationAuthError"
    ELSE IF indicator \notin DOMAIN VendorRecords THEN "IntegrationNotFoundError"
    ELSE "ok"

ThreatIntelEnrich(key, indicator) ==
    LET result == VendorResult(key, indicator)
    IN  IF result = "ok"
          THEN Enrich(LookupOutcome(result, VendorRecords[indicator]),
                      VendorRecords[indicator])
          ELSE Enrich(result, [schemaOk |-> FALSE])

EnrichWith(provider, key, indicator) ==
    IF provider = "mock" THEN MockEnrich(indicator)
    ELSE IF provider = "threat_intel" THEN ThreatIntelEnrich(key, indicator)
    ELSE Raises("EnrichmentUnavailableError")

\* The evidence on an alert: all of the answers, or none of them.
Evidence(provider, key, indicators) ==
    LET answers == [i \in 1 .. Len(indicators) |-> EnrichWith(provider, key, indicators[i])]
        ok      == \A i \in DOMAIN answers : answers[i].kind = "data"
    IN  [available |-> ok,
         results   |-> [i \in 1 .. Len(indicators) |->
                           IF ok THEN answers[i].data ELSE UnavailableResult]]

(***************************************************************************)
(* The scenarios of the demo view, each a fixture and two providers.       *)
(***************************************************************************)
HIGH_RISK_ALERT ==
    [severity |-> "HIGH", indicators |-> <<"unlisted", "malicious_ip", "malicious_hash">>]

BENIGN_ALERT ==
    [severity |-> "LOW", indicators |-> <<"unlisted", "benign_ip", "benign_hash">>]

AMBIGUOUS_ALERT == [severity |-> "HIGH", indicators |-> <<"unlisted", "benign_ip">>]

Demo(alert, enrichment, assistant) ==
    [alert |-> alert, enrichment |-> enrichment, assistant |-> assistant]

\* Slip: every scenario has its enrichment from the mock.
DEMO_SCENARIOS_OneProvider ==
    [high_risk          |-> Demo(HIGH_RISK_ALERT, "mock", "mock"),
     enrichment_failure |-> Demo(HIGH_RISK_ALERT, "mock", "mock"),
     ai_failure         |-> Demo(HIGH_RISK_ALERT, "mock", "failing"),
     ai_invalid         |-> Demo(HIGH_RISK_ALERT, "mock", "malformed"),
     low_risk           |-> Demo(BENIGN_ALERT, "mock", "mock"),
     ambiguous          |-> Demo(AMBIGUOUS_ALERT, "mock", "mock")]

DEMO_SCENARIOS ==
    [high_risk          |-> Demo(HIGH_RISK_ALERT, "mock", "mock"),
     enrichment_failure |-> Demo(HIGH_RISK_ALERT, "failing", "mock"),
     ai_failure         |-> Demo(HIGH_RISK_ALERT, "mock", "failing"),
     ai_invalid         |-> Demo(HIGH_RISK_ALERT, "mock", "malformed"),
     low_risk           |-> Demo(BENIGN_ALERT, "mock", "mock"),
     ambiguous          |-> Demo(AMBIGUOUS_ALERT, "mock", "mock")]

(***************************************************************************)
(* Requests and responses.  A status of 0 is a response still to come, and *)
(* "handled" a webhook delivery that goes on to module WebhookDelivery.    *)
(***************************************************************************)
Request ==
    [path : {"alerts"}, alert : Alert, length : Nat \cup {NoLength},
     scenario : {"none", "enrichment_failure", "ai_failure"}]
    \cup [path : {"webhook"}, length : Nat \cup {NoLength}]
    \cup [path : {"demo"}, scenario : DOMAIN DEMO_SCENARIOS \cup {"unlisted"}]

ASSUME RequestsAssumption ==
    \A q \in Requests :
        \/ /\ q.path = "alerts"
           /\ q.alert.severity \in Severity
           /\ q.alert.indicators \in Seq(IndicatorKind)
           /\ q.scenario \in {"none", "enrichment_failure", "ai_failure"}
        \/ q.path = "webhook"
        \/ q.path = "demo" /\ q.scenario \in DOMAIN DEMO_SCENARIOS \cup {"unlisted"}

Provider == {"none", "mock", "threat_intel", "live"}

Responses ==
    [status : {0, 200, 404, 413}, triage : TriageResult \cup {NoTriage},
     evidence : Provider, advice : Provider]

NoResponse == [status |-> 0, triage |-> NoTriage, evidence |-> "none", advice |-> "none"]

Short(status) == [NoResponse EXCEPT !.status = status]

-------------------------------------------------------------------------------
(***************************************************************************)
(* Building the application.                                               *)
(***************************************************************************)

\* Slip: a live assistant that cannot start is replaced by the mock.
SelectAssistant_FallsBack(settings) ==
    IF ProviderName(settings.ai_provider) # "mock"
       /\ settings.anthropic_api_key # NoKey /\ settings.sdk THEN "live" ELSE "mock"

\* select_investigation_assistant; the live one needs its key and its SDK.
SelectAssistant(settings) ==
    IF ProviderName(settings.ai_provider) = "mock" THEN "mock"
    ELSE IF settings.anthropic_api_key # NoKey /\ settings.sdk THEN "live"
    ELSE "unavailable"

\* select_enrichment_provider; httpx.Client refuses a base URL it cannot parse.
SelectEnrichment(settings) ==
    IF ProviderName(settings.enrichment_provider) = "mock" THEN "mock"
    ELSE IF settings.threat_intel_base_url = "valid" THEN "threat_intel"
    ELSE "failing"

CreateApp(settings) ==
    [settings   |-> settings,
     enrichment |-> SelectEnrichment(settings),
     assistant  |-> SelectAssistant(settings),
     timeout    |-> ValidTimeout(settings.ai_provider_timeout_seconds, DefaultTimeout),
     attempts   |-> ValidRetries(settings.threat_intel_max_retries, DefaultRetries) + 1,
     limits     |-> Limits(settings)]

\* application.state, with the settings it was built from.
App ==
    [settings : {e \in Environments : Loads(e)},
     enrichment : {"mock", "threat_intel", "failing"},
     assistant : {"mock", "live", "unavailable"},
     timeout : {r \in Raw : r.form \in {"inf", "nan"} \/ (r.form = "number" /\ r.value > 0)},
     attempts : Nat \ {0}, limits : [alerts : Nat \ {0}, webhook : Nat \ {0}]]

\* Slip: whatever is not the mock counts as unavailable.
Readiness_MockOnly == IF app.assistant # "mock" THEN "degraded" ELSE "healthy"

\* /health/ready, evaluated on every request and without effect on the state.
Readiness == IF app.assistant = "unavailable" THEN "degraded" ELSE "healthy"

-------------------------------------------------------------------------------
TypeOK ==
    /\ env \in Environments
    /\ accepted \in SUBSET Keys
    /\ phase \in {"down", "refused", "up"}
    /\ phase = "up" => app \in App
    /\ phase # "up" => app = NoApp /\ request = NoRequest
    /\ request \in Requests \cup {NoRequest}
    /\ response \in Responses

Init ==
    /\ env \in Environments
    /\ accepted \in SUBSET Keys
    /\ phase = "down"
    /\ app = NoApp
    /\ request = NoRequest
    /\ response = NoResponse

\* The operator edits the environment; a running process does not look at it again.
Configure ==
    /\ env' \in Environments \ {env}
    /\ UNCHANGED <<accepted, phase, app, request, response>>

\* The vendor revokes keys of the live assistant, or accepts them again.
KeysChange ==
    /\ accepted' \in SUBSET Keys \ {accepted}
    /\ UNCHANGED <<env, phase, app, request, response>>

Start ==
    /\ phase # "up"
    /\ Loads(env)
    /\ phase' = "up"
    /\ app' = CreateApp(env)
    /\ UNCHANGED <<env, accepted, request, response>>

RefuseToStart ==
    /\ phase = "down"
    /\ ~Loads(env)
    /\ phase' = "refused"
    /\ UNCHANGED <<env, accepted, app, request, response>>

\* The process ends, at the operator's will or not, and what it served is lost.
Stop ==
    /\ phase = "up"
    /\ phase' = "down"
    /\ app' = NoApp
    /\ request' = NoRequest
    /\ response' = NoResponse
    /\ UNCHANGED <<env, accepted>>

-------------------------------------------------------------------------------
\* A live call is under way.
Waiting == request # NoRequest /\ response.status = 0

\* RequestBodySizeLimitMiddleware.
Oversized(q) ==
    /\ q.path \in DOMAIN app.limits
    /\ q.length # NoLength
    /\ q.length > app.limits[q.path]

\* The request comes in while no other is under way.
Arrives(q) ==
    /\ phase = "up"
    /\ ~Waiting
    /\ request' = q
    /\ UNCHANGED <<env, accepted, phase, app>>

\* It is refused by its length, or as a scenario that does not exist, or it is
\* a delivery, which another component handles.
ReceiveOther(q) ==
    /\ Arrives(q)
    /\ \/ Oversized(q) /\ response' = Short(413)
       \/ q.path = "webhook" /\ ~Oversized(q) /\ response' = Short(200)
       \/ q.path = "demo" /\ q.scenario = "unlisted" /\ response' = Short(404)

\* run_alert_workflow with the given providers, up to the call of a live
\* assistant or else to the response.
Process(alert, enrichment, assistant) ==
    LET e == Evidence(enrichment, app.settings.threat_intel_api_key, alert.indicators)
    IN  response' = [status   |-> IF assistant = "live" THEN 0 ELSE 200,
                     triage   |-> TriageAlert(alert.severity, e.results, e.available),
                     evidence |-> IF e.available /\ alert.indicators # <<>>
                                    THEN enrichment ELSE "none",
                     advice   |-> IF assistant = "mock" THEN "mock" ELSE "none"]

\* POST /api/v1/alerts; a scenario swaps in a failing test double for the request.
ReceiveAlert(q) ==
    /\ q.path = "alerts"
    /\ Arrives(q)
    /\ ~Oversized(q)
    /\ Process(q.alert,
               IF q.scenario = "enrichment_failure" THEN "failing" ELSE app.enrichment,
               IF q.scenario = "ai_failure" THEN "failing" ELSE app.assistant)

\* GET /demo/{scenario}: the scenario's own providers, whatever was built.
ReceiveDemo(q) ==
    /\ q.path = "demo" /\ q.scenario \in DOMAIN DEMO_SCENARIOS
    /\ Arrives(q)
    /\ LET demo == DEMO_SCENARIOS[q.scenario]
       IN  Process(demo.alert, demo.enrichment, demo.assistant)

\* The live call ends: with advice that passes validation only if the vendor
\* accepts the key.  A timer set to "nan" goes off before any answer.
LiveCallEnds ==
    /\ Waiting
    /\ app.timeout.form # "nan"
    /\ \E advice \in IF app.settings.anthropic_api_key \in accepted
                      THEN {"live", "none"} ELSE {"none"} :
          response' = [response EXCEPT !.status = 200, !.advice = advice]
    /\ UNCHANGED <<env, accepted, phase, app, request>>

\* The timer of the live call goes off; one set to "inf" never does.
LiveCallTimesOut ==
    /\ Waiting
    /\ app.timeout.form # "inf"
    /\ response' = [response EXCEPT !.status = 200]
    /\ UNCHANGED <<env, accepted, phase, app, request>>

Next ==
    \/ Configure
    \/ KeysChange
    \/ Start
    \/ RefuseToStart
    \/ Stop
    \/ \E q \in Requests : ReceiveOther(q) \/ ReceiveAlert(q) \/ ReceiveDemo(q)
    \/ LiveCallEnds
    \/ LiveCallTimesOut

Spec == Init /\ [][Next]_vars

-------------------------------------------------------------------------------
\* The providers the settings of the running process name.
NamedEnrichment ==
    IF ProviderName(app.settings.enrichment_provider) = "mock" THEN "mock" ELSE "threat_intel"

NamedAssistant == IF ProviderName(app.settings.ai_provider) = "mock" THEN "mock" ELSE "live"

\* An alert has been triaged for a client of the API.
AlertTriaged == request # NoRequest /\ request.path = "alerts" /\ response.triage # NoTriage

\* No mock in disguise: evidence and advice come from the provider the operator
\* named when the process started, or there are none.  A provider that cannot be
\* built, a key that is revoked, a scenario of an earlier request and an edited
\* environment never put another in its place (main.py:49-116, routes.py:30-39).
\* The docstring of live.py (6-8) still says that without SDK or credentials "the
\* caller falls back to the mock provider; see app/main.py"; main.py does not: it
\* puts an assistant in place that is always unavailable (70-81).
NoMockInDisguise ==
    AlertTriaged =>
        /\ response.evidence \in {NamedEnrichment, "none"}
        /\ response.advice \in {NamedAssistant, "none"}

\* A threat-intelligence provider that is misconfigured, by its address or its
\* key, never makes an alert low risk (main.py:97-116, threat_intel.py:113-121
\* and 225-239, rules B and C).
MisconfiguredNeverLowRisk ==
    AlertTriaged /\ NamedEnrichment = "threat_intel" =>
        \/ response.triage.decision # "LOW_RISK"
        \/ /\ app.settings.threat_intel_base_url = "valid"
           /\ app.settings.threat_intel_api_key = "mock-threat-intel-api-key"

\* While readiness says degraded, no alert gets advice (main.py:243-252 against
\* 49-81): the report never hides an assistant that works.
DegradedMeansNoAdvice ==
    phase = "up" /\ AlertTriaged /\ Readiness = "degraded" => response.advice = "none"

\* What the descriptions of the demo scenarios promise: a decision, the rule behind it
\* and where the advice comes from.
DemoPromises ==
    [high_risk          |-> <<"ESCALATE", "RULE_A", "mock">>,
     enrichment_failure |-> <<"ANALYST_REVIEW", "RULE_B", "mock">>,
     ai_failure         |-> <<"ESCALATE", "RULE_A", "none">>,
     ai_invalid         |-> <<"ESCALATE", "RULE_A", "none">>,
     low_risk           |-> <<"LOW_RISK", "RULE_C", "mock">>,
     ambiguous          |-> <<"ANALYST_REVIEW", "RULE_D", "mock">>]

\* Every demo scenario shows what its description promises, in any deployment
\* (demo_scenarios.py:47-116 against the fixtures, the table and the rules).
DemoShowsWhatItSays ==
    request # NoRequest /\ request.path = "demo" /\ response.status = 200 =>
        <<response.triage.decision, response.triage.rule, response.advice>>
            = DemoPromises[request.scenario]

\* What docs/operations.md says of readiness (lines 46-48, 69-71 and 152): it is
\* healthy only while the configured assistant is available, and degraded when
\* the credentials are missing or invalid.
HealthyMeansAvailable ==
    phase = "up" /\ Readiness = "healthy" =>
        app.assistant = "mock" \/ app.settings.anthropic_api_key \in accepted
===============================================================================
