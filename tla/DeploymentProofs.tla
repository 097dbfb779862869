--------------------------- MODULE DeploymentProofs ----------------------------
(***************************************************************************)
(* Proofs about Deployment, for any environments an operator may set, any  *)
(* keys, any requests and any restarts.                                    *)
(***************************************************************************)
EXTENDS Deployment, TLAPS

-------------------------------------------------------------------------------
\* Its address or its key keeps the threat-intelligence vendor from answering.
Misconfigured ==
    \/ app.settings.threat_intel_base_url # "valid"
    \/ app.settings.threat_intel_api_key # "mock-threat-intel-api-key"

\* The running application is the one its settings ask for.
AppTells ==
    IF phase = "up"
      THEN /\ app.settings \in {e \in Environments : Loads(e)}
           /\ app = CreateApp(app.settings)
      ELSE app = NoApp /\ request = NoRequest

\* What an alert got can be told from the application.
ResponseTells ==
    AlertTriaged =>
        /\ response.evidence \in {NamedEnrichment, "none"}
        /\ response.advice \in {app.assistant, "none"}
        /\ response.status = 0 => app.assistant = "live"
        /\ NamedEnrichment = "threat_intel" /\ Misconfigured =>
              response.triage.decision # "LOW_RISK"

IndInv ==
    /\ env \in Environments
    /\ accepted \in SUBSET Keys
    /\ phase \in {"down", "refused", "up"}
    /\ request \in Requests \cup {NoRequest}
    /\ response \in Responses
    /\ AppTells
    /\ ResponseTells

-------------------------------------------------------------------------------
(***************************************************************************)
(* What the operators return.                                              *)
(***************************************************************************)

\* An alert gets evidence from the provider it was looked up with, or is triaged as
\* one whose evidence is missing; with a misconfigured vendor it always is, unless
\* it has no indicators, and is never low risk.
LEMMA EvidenceOrNone ==
    ASSUME NEW provider \in {"mock", "threat_intel", "failing"}, NEW key, NEW severity,
           NEW indicators \in Seq(IndicatorKind)
    PROVE  LET e == Evidence(provider, key, indicators)
           IN  /\ provider = "failing" => ~(e.available /\ indicators # <<>>)
               /\ provider = "failing" \/ (provider = "threat_intel"
                                           /\ key # "mock-threat-intel-api-key") =>
                     TriageAlert(severity, e.results, e.available).decision # "LOW_RISK"
<1> DEFINE answers == [i \in 1 .. Len(indicators) |-> EnrichWith(provider, key, indicators[i])]
           e == Evidence(provider, key, indicators)
<1>1. e.available <=> \A i \in 1 .. Len(indicators) : EnrichWith(provider, key, indicators[i]).kind = "data"
  BY DEF Evidence
<1>2. CASE \/ provider = "failing"
           \/ provider = "threat_intel" /\ key # "mock-threat-intel-api-key"
  <2>1. \A i \in 1 .. Len(indicators) : EnrichWith(provider, key, indicators[i]).kind = "raised"
    BY <1>2 DEF EnrichWith, ThreatIntelEnrich, VendorResult, Enrich, Handled, ErrorClass, Raises
  <2>2. CASE indicators = <<>>
    <3>1. e.results = [i \in 1 .. 0 |-> UnavailableResult]
      BY <1>1, <2>2 DEF Evidence
    <3> QED
      BY <1>2, <2>2, <3>1 DEF TriageAlert, LowRiskEvidence
  <2>3. CASE indicators # <<>>
    <3>1. 1 \in 1 .. Len(indicators)
      BY <2>3
    <3>2. ~e.available
      BY <1>1, <2>1, <3>1
    <3> QED
      BY <3>2 DEF TriageAlert
  <2> QED
    BY <2>2, <2>3
<1> QED
  BY <1>2

\* The application built from settings that load has the types of its state.
LEMMA AppType ==
    ASSUME NEW settings \in Environments, Loads(settings)
    PROVE  CreateApp(settings) \in App
<1> USE DEF CreateApp
<1>1. settings \in Environment
  BY EnvironmentsAssumption
<1>2. SelectEnrichment(settings) \in {"mock", "threat_intel", "failing"}
  BY DEF SelectEnrichment
<1>3. SelectAssistant(settings) \in {"mock", "live", "unavailable"}
  BY DEF SelectAssistant
<1>4. ASSUME NEW raw \in Raw
      PROVE  /\ ValidTimeout(raw, DefaultTimeout)
                   \in {r \in Raw : r.form \in {"inf", "nan"} \/ (r.form = "number" /\ r.value > 0)}
             /\ ValidRetries(raw, DefaultRetries) + 1 \in Nat \ {0}
  <2>1. Number(DefaultTimeout)
           \in {r \in Raw : r.form \in {"inf", "nan"} \/ (r.form = "number" /\ r.value > 0)}
    BY DefaultsAssumption DEF Number, Raw
  <2>2. ValidRetries(raw, DefaultRetries) \in Nat
    BY DefaultsAssumption DEF ValidRetries, Raw
  <2> QED
    BY <2>1, <2>2 DEF ValidTimeout
<1>5. Limits(settings) \in [alerts : Nat \ {0}, webhook : Nat \ {0}]
  <2>1. ASSUME NEW raw \in Raw, NEW default \in Nat \ {0}, LimitStands(raw)
        PROVE  Limit(raw, default) \in Nat \ {0}
    BY <2>1 DEF Limit, LimitStands, Raw
  <2>2. settings.max_alert_body_bytes \in Raw /\ settings.max_webhook_body_bytes \in Raw
    BY <1>1 DEF Environment
  <2> QED
    BY <2>1, <2>2, DefaultsAssumption DEF Limits, Loads
<1>6. settings.ai_provider_timeout_seconds \in Raw /\ settings.threat_intel_max_retries \in Raw
  BY <1>1 DEF Environment
<1> QED
  BY <1>2, <1>3, <1>4, <1>5, <1>6 DEF App

\* The workflow's response, at its end or at the call of a live assistant.
LEMMA ProcessType ==
    ASSUME NEW alert, NEW enrichment \in Provider \cup {"failing"}, NEW assistant,
           enrichment = "failing" => ~(Evidence(enrichment, app.settings.threat_intel_api_key,
                                                alert.indicators).available
                                       /\ alert.indicators # <<>>),
           Process(alert, enrichment, assistant)
    PROVE  response' \in Responses
<1> DEFINE e == Evidence(enrichment, app.settings.threat_intel_api_key, alert.indicators)
<1>1. TriageAlert(alert.severity, e.results, e.available) \in TriageResult
  BY DEF TriageAlert, TriageResult, TriageDecision
<1>2. (IF e.available /\ alert.indicators # <<>> THEN enrichment ELSE "none") \in Provider
  BY DEF Provider
<1> QED
  BY <1>1, <1>2 DEF Process, Responses, Provider

-------------------------------------------------------------------------------
(***************************************************************************)
(* The invariant.                                                          *)
(***************************************************************************)
LEMMA InitiallyInv == Init => IndInv
  BY DEF Init, IndInv, AppTells, ResponseTells, AlertTriaged, NoResponse, Responses, Provider

\* An alert that reaches the workflow gets what the running application stands for.
LEMMA ReceiveAlertKeeps ==
    ASSUME IndInv, NEW q \in Requests, ReceiveAlert(q)
    PROVE  IndInv'
<1> DEFINE enrichment == IF q.scenario = "enrichment_failure" THEN "failing" ELSE app.enrichment
           assistant  == IF q.scenario = "ai_failure" THEN "failing" ELSE app.assistant
           e == Evidence(enrichment, app.settings.threat_intel_api_key, q.alert.indicators)
<1>1. /\ q.path = "alerts" /\ phase = "up" /\ request' = q
      /\ UNCHANGED <<env, accepted, phase, app>>
      /\ Process(q.alert, enrichment, assistant)
  BY DEF ReceiveAlert, Arrives
<1>2. q.alert.indicators \in Seq(IndicatorKind)
  BY <1>1, RequestsAssumption
<1>3. app = CreateApp(app.settings)
  BY <1>1 DEF IndInv, AppTells
<1>4. enrichment \in {"mock", "threat_intel", "failing"}
  BY <1>3 DEF CreateApp, SelectEnrichment
<1>5. enrichment = "failing" => ~(e.available /\ q.alert.indicators # <<>>)
  BY <1>2, <1>4, EvidenceOrNone
<1>6. response' \in Responses
  BY <1>1, <1>4, <1>5, ProcessType DEF Provider
<1>7. /\ response'.evidence = IF e.available /\ q.alert.indicators # <<>> THEN enrichment ELSE "none"
      /\ response'.advice = IF assistant = "mock" THEN "mock" ELSE "none"
      /\ response'.status = IF assistant = "live" THEN 0 ELSE 200
      /\ response'.triage = TriageAlert(q.alert.severity, e.results, e.available)
  BY <1>1 DEF Process
<1>8. enrichment \in {NamedEnrichment, "failing"}
  BY <1>3 DEF CreateApp, SelectEnrichment, NamedEnrichment
<1>9. NamedEnrichment = "threat_intel" /\ Misconfigured => response'.triage.decision # "LOW_RISK"
  <2> SUFFICES ASSUME NamedEnrichment = "threat_intel", Misconfigured
               PROVE  response'.triage.decision # "LOW_RISK"
    OBVIOUS
  <2>1. enrichment = "failing" \/ (enrichment = "threat_intel"
           /\ app.settings.threat_intel_api_key # "mock-threat-intel-api-key")
    BY <1>3, <1>8 DEF Misconfigured, CreateApp, SelectEnrichment, NamedEnrichment
  <2>2. TriageAlert(q.alert.severity, e.results, e.available).decision # "LOW_RISK"
    BY <1>2, <1>4, <2>1, EvidenceOrNone
  <2> QED
    BY <1>7, <2>2
<1>10. ResponseTells'
  BY <1>1, <1>5, <1>7, <1>8, <1>9
  DEF ResponseTells, NamedEnrichment, Misconfigured
<1> QED
  BY <1>1, <1>6, <1>10 DEF IndInv, AppTells

\* Every step keeps the invariant.
LEMMA EveryStepKeeps == IndInv /\ [Next]_vars => IndInv'
<1> SUFFICES ASSUME IndInv, [Next]_vars PROVE IndInv'
  OBVIOUS
<1> USE DEF IndInv, AppTells, ResponseTells, AlertTriaged, NamedEnrichment, Misconfigured
<1>1. CASE Configure \/ KeysChange \/ UNCHANGED vars
  BY <1>1 DEF Configure, KeysChange, vars
<1>2. CASE Start
  <2>1. app' = CreateApp(env) /\ app'.settings = env /\ Loads(env) /\ phase' = "up"
    BY <1>2 DEF Start, CreateApp
  <2>2. request' = NoRequest
    BY <1>2 DEF Start
  <2> QED
    BY <1>2, <2>1, <2>2 DEF Start
<1>3. CASE RefuseToStart
  BY <1>3 DEF RefuseToStart
<1>4. CASE Stop
  BY <1>4 DEF Stop, NoResponse, Responses, Provider
<1>5. ASSUME NEW q \in Requests, ReceiveOther(q) PROVE IndInv'
  <2>1. response' \in Responses /\ response'.triage = NoTriage
    BY <1>5 DEF ReceiveOther, Short, NoResponse, Responses, Provider
  <2> QED
    BY <1>5, <2>1 DEF ReceiveOther, Arrives
<1>6. ASSUME NEW q \in Requests, ReceiveAlert(q) PROVE IndInv'
  BY <1>6, ReceiveAlertKeeps
<1>7. ASSUME NEW q \in Requests, ReceiveDemo(q) PROVE IndInv'
  <2>1. PICK demo : /\ demo = DEMO_SCENARIOS[q.scenario]
                    /\ Process(demo.alert, demo.enrichment, demo.assistant)
    BY <1>7 DEF ReceiveDemo
  <2>2. /\ demo.enrichment \in {"mock", "failing"}
        /\ demo.alert.indicators \in Seq(IndicatorKind)
    <3>1. \A alert \in {HIGH_RISK_ALERT, BENIGN_ALERT, AMBIGUOUS_ALERT} :
             alert.indicators \in Seq(IndicatorKind)
      <4>1. <<"unlisted", "malicious_ip", "malicious_hash">> \in Seq(IndicatorKind)
        BY DEF IndicatorKind
      <4>2. <<"unlisted", "benign_ip", "benign_hash">> \in Seq(IndicatorKind)
        BY DEF IndicatorKind
      <4>3. <<"unlisted", "benign_ip">> \in Seq(IndicatorKind)
        BY DEF IndicatorKind
      <4>4. HIGH_RISK_ALERT.indicators \in Seq(IndicatorKind)
        BY <4>1 DEF HIGH_RISK_ALERT
      <4>5. BENIGN_ALERT.indicators \in Seq(IndicatorKind)
        BY <4>2 DEF BENIGN_ALERT
      <4>6. AMBIGUOUS_ALERT.indicators \in Seq(IndicatorKind)
        BY <4>3 DEF AMBIGUOUS_ALERT
      <4> QED
        BY <4>4, <4>5, <4>6
    <3>2. /\ demo.alert \in {HIGH_RISK_ALERT, BENIGN_ALERT, AMBIGUOUS_ALERT}
          /\ demo.enrichment \in {"mock", "failing"}
      BY <1>7, <2>1 DEF ReceiveDemo, DEMO_SCENARIOS, Demo
    <3> QED
      BY <3>1, <3>2
  <2>3. response' \in Responses
    BY <2>1, <2>2, EvidenceOrNone, ProcessType DEF Provider
  <2> QED
    BY <1>7, <2>3 DEF ReceiveDemo, Arrives
<1>8. CASE LiveCallEnds
  <2>1. PICK advice \in {"live", "none"} :
               response' = [response EXCEPT !.status = 200, !.advice = advice]
    BY <1>8 DEF LiveCallEnds
  <2>2. response' \in Responses /\ response'.status = 200 /\ response'.advice = advice
        /\ response'.triage = response.triage /\ response'.evidence = response.evidence
    <3>1. response \in Responses
      OBVIOUS
    <3>2. response' = [status |-> 200, triage |-> response.triage,
                       evidence |-> response.evidence, advice |-> advice]
      BY <2>1, <3>1 DEF Responses
    <3> QED
      BY <3>1, <3>2 DEF Responses, Provider
  <2>3. response.status = 0
    BY <1>8 DEF LiveCallEnds, Waiting
  <2> QED
    BY <1>8, <2>2, <2>3 DEF LiveCallEnds
<1>9. CASE LiveCallTimesOut
  <2>1. response' \in Responses /\ response'.status = 200 /\ response'.advice = response.advice
        /\ response'.triage = response.triage /\ response'.evidence = response.evidence
    BY <1>9 DEF LiveCallTimesOut, Responses
  <2> QED
    BY <1>9, <2>1 DEF LiveCallTimesOut
<1> QED
  BY <1>1, <1>2, <1>3, <1>4, <1>5, <1>6, <1>7, <1>8, <1>9 DEF Next

\* Whatever the operator does, the running application is the one its settings ask
\* for, and what an alert got can be told from it.
THEOREM Invariance == Spec => []IndInv
  BY InitiallyInv, EveryStepKeeps, PTL DEF Spec

-------------------------------------------------------------------------------
(***************************************************************************)
(* What follows.                                                           *)
(***************************************************************************)

\* The state keeps its types (TypeOK): no setting that makes no sense reaches a
\* timeout, a number of attempts or a limit of the running application.
THEOREM TypeCorrect == Spec => []TypeOK
<1>1. IndInv => TypeOK
  BY AppType DEF IndInv, AppTells, TypeOK
<1> QED
  BY <1>1, Invariance, PTL

\* No mock in disguise (NoMockInDisguise).
THEOREM NamedOrNothing == Spec => []NoMockInDisguise
<1>1. IndInv => NoMockInDisguise
  <2> SUFFICES ASSUME IndInv, AlertTriaged
               PROVE  /\ response.evidence \in {NamedEnrichment, "none"}
                      /\ response.advice \in {NamedAssistant, "none"}
    BY DEF NoMockInDisguise
  <2>1. phase = "up"
    BY DEF IndInv, AppTells, AlertTriaged
  <2>2. response.advice \in {app.assistant, "none"} /\ response.advice \in Provider
    BY DEF IndInv, ResponseTells, Responses
  <2>3. app.assistant \in {NamedAssistant, "unavailable"}
    BY <2>1 DEF IndInv, AppTells, CreateApp, SelectAssistant, NamedAssistant
  <2> QED
    BY <2>2, <2>3 DEF IndInv, ResponseTells, Provider
<1> QED
  BY <1>1, Invariance, PTL

\* A misconfigured vendor never makes an alert low risk
\* (MisconfiguredNeverLowRisk).
THEOREM MisconfigurationIsSafe == Spec => []MisconfiguredNeverLowRisk
<1>1. IndInv => MisconfiguredNeverLowRisk
  BY DEF IndInv, ResponseTells, MisconfiguredNeverLowRisk, Misconfigured
<1> QED
  BY <1>1, Invariance, PTL

\* Degraded means that no alert gets advice (DegradedMeansNoAdvice).
THEOREM DegradedIsTrue == Spec => []DegradedMeansNoAdvice
<1>1. IndInv => DegradedMeansNoAdvice
  BY DEF IndInv, ResponseTells, DegradedMeansNoAdvice, Readiness, Responses, Provider
<1> QED
  BY <1>1, Invariance, PTL

-------------------------------------------------------------------------------
(***************************************************************************)
(* The demo: its responses depend on nothing but their scenario.           *)
(***************************************************************************)
\* With the mock, every indicator has an answer, and it is the table's.
LEMMA MockEvidence ==
    ASSUME NEW key, NEW indicators \in Seq(IndicatorKind)
    PROVE  LET e == Evidence("mock", key, indicators)
           IN  /\ e.available
               /\ e.results = [i \in 1 .. Len(indicators) |-> MockEnrich(indicators[i]).data]
<1>1. \A i : EnrichWith("mock", key, indicators[i]) = MockEnrich(indicators[i])
  BY DEF EnrichWith
<1>2. \A i : MockEnrich(indicators[i]).kind = "data"
  BY DEF MockEnrich, Data
<1> QED
  BY <1>1, <1>2 DEF Evidence

\* What a demo shows of its alert.
DemoShown(demo, key) ==
    LET e == Evidence(demo.enrichment, key, demo.alert.indicators)
        t == TriageAlert(demo.alert.severity, e.results, e.available)
    IN  <<t.decision, t.rule, IF demo.assistant = "mock" THEN "mock" ELSE "none">>

LEMMA HighRiskShows ==
    ASSUME NEW key
    PROVE  LET e == Evidence("mock", key, HIGH_RISK_ALERT.indicators)
           IN  TriageAlert(HIGH_RISK_ALERT.severity, e.results, e.available)
                  = [decision |-> "ESCALATE", rule |-> "RULE_A"]
<1> DEFINE indicators == <<"unlisted", "malicious_ip", "malicious_hash">>
           e == Evidence("mock", key, indicators)
<1>1. HIGH_RISK_ALERT.indicators = indicators /\ HIGH_RISK_ALERT.severity = "HIGH"
  BY DEF HIGH_RISK_ALERT
<1>2. indicators \in Seq(IndicatorKind) /\ Len(indicators) = 3 /\ indicators[2] = "malicious_ip"
  BY DEF IndicatorKind
<1>3. e.available /\ e.results = [i \in 1 .. 3 |-> MockEnrich(indicators[i]).data]
  BY <1>2, MockEvidence
<1>4. e.results[2].reputation = "malicious" /\ 2 \in DOMAIN e.results
  <2>1. 2 \in 1 .. 3
    OBVIOUS
  <2>2. MockEnrich(indicators[2]).data.reputation = "malicious"
    BY <1>2 DEF MockEnrich, Data
  <2> HIDE DEF e, indicators
  <2> QED
    BY <1>3, <2>1, <2>2
<1> HIDE DEF e, indicators
<1>5. HighRiskMalicious("HIGH", e.results)
  BY <1>4 DEF HighRiskMalicious, Reputations, HIGH_RISK_SEVERITIES
<1> QED
  BY <1>1, <1>3, <1>5 DEF TriageAlert, e

LEMMA BenignShows ==
    ASSUME NEW key
    PROVE  LET e == Evidence("mock", key, BENIGN_ALERT.indicators)
           IN  TriageAlert(BENIGN_ALERT.severity, e.results, e.available)
                  = [decision |-> "LOW_RISK", rule |-> "RULE_C"]
<1> DEFINE indicators == <<"unlisted", "benign_ip", "benign_hash">>
           e == Evidence("mock", key, indicators)
<1>1. BENIGN_ALERT.indicators = indicators /\ BENIGN_ALERT.severity = "LOW"
  BY DEF BENIGN_ALERT
<1>2. /\ indicators \in Seq(IndicatorKind) /\ Len(indicators) = 3
      /\ \A i \in 1 .. 3 : indicators[i] \in {"unlisted", "benign_ip", "benign_hash"}
  BY DEF IndicatorKind
<1>3. e.available /\ e.results = [i \in 1 .. 3 |-> MockEnrich(indicators[i]).data]
  BY <1>2, MockEvidence
<1> HIDE DEF indicators
<1>4. \A i \in 1 .. 3 :
          \/ MockEnrich(indicators[i]).data.reputation = "benign"
          \/ /\ MockEnrich(indicators[i]).data.reputation = "unknown"
             /\ MockEnrich(indicators[i]).data.confidence = "low"
  BY <1>2 DEF MockEnrich, Data, UnknownIndicator
<1> HIDE DEF e
<1>5. /\ DOMAIN e.results = 1 .. 3 /\ e.results # <<>>
      /\ \A i \in 1 .. 3 :
            \/ e.results[i].reputation = "benign"
            \/ /\ e.results[i].reputation = "unknown"
               /\ e.results[i].confidence = "low"
  <2>1. DOMAIN e.results = 1 .. 3
    BY <1>3
  <2>2. e.results # <<>>
    BY <2>1
  <2>3. \A i \in 1 .. 3 : e.results[i] = MockEnrich(indicators[i]).data
    BY <1>3
  <2> QED
    BY <1>4, <2>1, <2>2, <2>3
<1>6. LowRiskEvidence("LOW", e.results)
  BY <1>5 DEF LowRiskEvidence, Reputations
<1>7. ~HighRiskMalicious("LOW", e.results)
  BY DEF HighRiskMalicious, HIGH_RISK_SEVERITIES
<1> QED
  BY <1>1, <1>3, <1>6, <1>7 DEF TriageAlert, e

LEMMA AmbiguousShows ==
    ASSUME NEW key
    PROVE  LET e == Evidence("mock", key, AMBIGUOUS_ALERT.indicators)
           IN  TriageAlert(AMBIGUOUS_ALERT.severity, e.results, e.available)
                  = [decision |-> "ANALYST_REVIEW", rule |-> "RULE_D"]
<1> DEFINE indicators == <<"unlisted", "benign_ip">>
           e == Evidence("mock", key, indicators)
<1>1. AMBIGUOUS_ALERT.indicators = indicators /\ AMBIGUOUS_ALERT.severity = "HIGH"
  BY DEF AMBIGUOUS_ALERT
<1>2. /\ indicators \in Seq(IndicatorKind) /\ Len(indicators) = 2
      /\ \A i \in 1 .. 2 : indicators[i] \in {"unlisted", "benign_ip"}
  BY DEF IndicatorKind
<1>3. e.available /\ e.results = [i \in 1 .. 2 |-> MockEnrich(indicators[i]).data]
  BY <1>2, MockEvidence
<1> HIDE DEF indicators
<1>4. \A i \in 1 .. 2 : MockEnrich(indicators[i]).data.reputation # "malicious"
  BY <1>2 DEF MockEnrich, Data, UnknownIndicator
<1> HIDE DEF e
<1>5. ~HighRiskMalicious("HIGH", e.results)
  BY <1>3, <1>4 DEF HighRiskMalicious, Reputations
<1>6. ~LowRiskEvidence("HIGH", e.results)
  BY DEF LowRiskEvidence
<1> QED
  BY <1>1, <1>3, <1>5, <1>6 DEF TriageAlert, e

\* Every scenario keeps its promise, whatever key the deployment has.
LEMMA PromisesAreKept ==
    ASSUME NEW key, NEW scenario \in DOMAIN DEMO_SCENARIOS
    PROVE  /\ DemoShown(DEMO_SCENARIOS[scenario], key) = DemoPromises[scenario]
           /\ DEMO_SCENARIOS[scenario].assistant # "live"
<1> DEFINE demo == DEMO_SCENARIOS[scenario]
           Triaged(alert, enrichment) ==
               LET e == Evidence(enrichment, key, alert.indicators)
               IN  TriageAlert(alert.severity, e.results, e.available)
<1>1. /\ Triaged(HIGH_RISK_ALERT, "mock") = [decision |-> "ESCALATE", rule |-> "RULE_A"]
      /\ Triaged(BENIGN_ALERT, "mock") = [decision |-> "LOW_RISK", rule |-> "RULE_C"]
      /\ Triaged(AMBIGUOUS_ALERT, "mock") = [decision |-> "ANALYST_REVIEW", rule |-> "RULE_D"]
  BY HighRiskShows, BenignShows, AmbiguousShows
<1>2. Triaged(HIGH_RISK_ALERT, "failing") = [decision |-> "ANALYST_REVIEW", rule |-> "RULE_B"]
  <2> DEFINE indicators == <<"unlisted", "malicious_ip", "malicious_hash">>
             e == Evidence("failing", key, indicators)
  <2>1. HIGH_RISK_ALERT.indicators = indicators
    BY DEF HIGH_RISK_ALERT
  <2>2. indicators \in Seq(IndicatorKind) /\ indicators # <<>>
    BY DEF IndicatorKind
  <2>3. ~e.available
    <3> HIDE DEF indicators
    <3> QED
      BY <2>2, EvidenceOrNone DEF e
  <2> HIDE DEF e, indicators
  <2> QED
    BY <2>1, <2>3 DEF TriageAlert, e
<1>3. DemoShown(demo, key) =
          <<Triaged(demo.alert, demo.enrichment).decision,
            Triaged(demo.alert, demo.enrichment).rule,
            IF demo.assistant = "mock" THEN "mock" ELSE "none">>
  BY DEF DemoShown
<1> HIDE DEF Triaged
<1>4. scenario \in {"high_risk", "enrichment_failure", "ai_failure", "ai_invalid",
                     "low_risk", "ambiguous"}
  BY DEF DEMO_SCENARIOS
<1> QED
  BY <1>1, <1>2, <1>3, <1>4 DEF DEMO_SCENARIOS, DemoPromises, Demo

\* A demo is answered at once: its scenario is unknown, or shows what it promises.
DemoTells ==
    request # NoRequest /\ request.path = "demo" =>
        /\ response.status # 0
        /\ DemoShowsWhatItSays

LEMMA DemoKept == IndInv /\ DemoTells /\ [Next]_vars => DemoTells'
<1> SUFFICES ASSUME IndInv, DemoTells, [Next]_vars,
                    request' # NoRequest, request'.path = "demo"
             PROVE  /\ response'.status # 0
                    /\ response'.status = 200 =>
                          <<response'.triage.decision, response'.triage.rule, response'.advice>>
                              = DemoPromises[request'.scenario]
  BY DEF DemoTells, DemoShowsWhatItSays
<1>1. CASE Configure \/ KeysChange \/ RefuseToStart \/ UNCHANGED vars
  BY <1>1 DEF Configure, KeysChange, RefuseToStart, vars, DemoTells, DemoShowsWhatItSays
<1>2. CASE Start \/ Stop
  BY <1>2 DEF Start, Stop, IndInv, AppTells
<1>3. ASSUME NEW q \in Requests, ReceiveOther(q)
      PROVE  response'.status \in {404, 413}
  BY <1>3 DEF ReceiveOther, Arrives, Short, NoResponse
<1>4. ASSUME NEW q \in Requests, ReceiveAlert(q)
      PROVE  FALSE
  BY <1>4 DEF ReceiveAlert, Arrives
<1>5. ASSUME NEW q \in Requests, ReceiveDemo(q)
      PROVE  /\ response'.status = 200
             /\ <<response'.triage.decision, response'.triage.rule, response'.advice>>
                   = DemoPromises[request'.scenario]
  <2> DEFINE demo == DEMO_SCENARIOS[q.scenario]
             key == app.settings.threat_intel_api_key
  <2>1. /\ request' = q /\ q.scenario \in DOMAIN DEMO_SCENARIOS
        /\ Process(demo.alert, demo.enrichment, demo.assistant)
    BY <1>5 DEF ReceiveDemo, Arrives
  <2> HIDE DEF demo
  <2>2. /\ response'.status = IF demo.assistant = "live" THEN 0 ELSE 200
        /\ <<response'.triage.decision, response'.triage.rule, response'.advice>>
              = DemoShown(demo, key)
    BY <2>1 DEF Process, DemoShown
  <2> HIDE DEF key
  <2>3. DemoShown(demo, key) = DemoPromises[q.scenario] /\ demo.assistant # "live"
    BY <2>1, PromisesAreKept DEF demo
  <2> QED
    BY <2>1, <2>2, <2>3
<1>6. CASE LiveCallEnds \/ LiveCallTimesOut
  BY <1>6 DEF LiveCallEnds, LiveCallTimesOut, Waiting, DemoTells
<1> QED
  BY <1>1, <1>2, <1>3, <1>4, <1>5, <1>6 DEF Next

\* In any deployment, whatever came before, every demo scenario shows what its
\* description promises (demo_scenarios.py:47-116).
THEOREM DemoKeepsItsPromises == Spec => []DemoShowsWhatItSays
<1>1. Init => DemoTells
  BY DEF Init, DemoTells
<1>2. DemoTells => DemoShowsWhatItSays
  BY DEF DemoTells, DemoShowsWhatItSays
<1> QED
  BY <1>1, <1>2, DemoKept, Invariance, PTL DEF Spec
================================================================================
