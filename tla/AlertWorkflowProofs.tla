-------------------------- MODULE AlertWorkflowProofs --------------------------
(***************************************************************************)
(* Proofs about AlertWorkflow, for any number of alerts, any payloads and  *)
(* any answers of the providers and the assistant; about Triage first.     *)
(***************************************************************************)
EXTENDS AlertWorkflow, SequenceTheorems, TLAPS

-------------------------------------------------------------------------------
(***************************************************************************)
(* What the rules and the mock table guarantee for evidence of any length. *)
(***************************************************************************)

\* The three rows of the mock table, as the lookups below use them.
LEMMA MockTable ==
    /\ AI_INVESTIGATION_TABLE[<<"ESCALATE", "high", "malicious">>] =
          [risk |-> "HIGH", confidence |-> "HIGH"]
    /\ AI_INVESTIGATION_TABLE[<<"ANALYST_REVIEW", "any", "unavailable">>] =
          [risk |-> "UNCERTAIN", confidence |-> "LOW"]
    /\ AI_INVESTIGATION_TABLE[<<"LOW_RISK", "low", "benign">>] =
          [risk |-> "LOW", confidence |-> "HIGH"]
  BY DEF AI_INVESTIGATION_TABLE, InvestigationKeys

\* The reputation bucket of evidence that is all there.
LEMMA BucketOfRules ==
    ASSUME NEW s \in Severity, NEW e \in Seq(EnrichmentResult),
           \A i \in DOMAIN e : e[i].available
    PROVE  /\ HighRiskMalicious(s, e) => ReputationBucket(e) = "malicious"
           /\ LowRiskEvidence(s, e) => ReputationBucket(e) = "benign"
<1> DEFINE reps == Reputations(e)
<1>1. ASSUME HighRiskMalicious(s, e)
      PROVE  ReputationBucket(e) = "malicious"
  <2>1. e # <<>>
    BY <1>1 DEF HighRiskMalicious, Reputations
  <2> QED
    BY <1>1, <2>1 DEF HighRiskMalicious, ReputationBucket
<1>2. ASSUME LowRiskEvidence(s, e)
      PROVE  ReputationBucket(e) = "benign"
  <2>1. "malicious" \notin reps
    BY <1>2 DEF LowRiskEvidence
  <2>2. \A i \in DOMAIN e : SafeLooking(e[i])
    BY <1>2 DEF LowRiskEvidence, SafeLooking, Reputations
  <2> QED
    BY <1>2, <2>1, <2>2 DEF LowRiskEvidence, ReputationBucket
<1> QED
  BY <1>1, <1>2

-------------------------------------------------------------------------------
\* One more answer neither takes back an escalation nor makes low risk of what
\* was not, for any severity and any evidence so far (engine.py:33-55).
LEMMA MoreEvidence ==
    ASSUME NEW s, NEW e \in Seq(EnrichmentResult), e # <<>>, NEW r \in EnrichmentResult
    PROVE  LET decide(answers) == TriageAlert(s, answers, TRUE).decision
           IN  /\ decide(e) = "ESCALATE" => decide(Append(e, r)) = "ESCALATE"
               /\ decide(Append(e, r)) = "LOW_RISK" => decide(e) = "LOW_RISK"
<1> DEFINE more == Append(e, r)
<1>1. more \in Seq(EnrichmentResult) /\ DOMAIN e \subseteq DOMAIN more
  OBVIOUS
<1>2. \A i \in DOMAIN e : more[i] = e[i]
  OBVIOUS
<1> HIDE DEF more
<1>3. Reputations(e) \subseteq Reputations(more)
  BY <1>1, <1>2 DEF Reputations
<1>4. HighRiskMalicious(s, e) => HighRiskMalicious(s, more)
  BY <1>3 DEF HighRiskMalicious
<1>5. LowRiskEvidence(s, more) => LowRiskEvidence(s, e)
  BY <1>1, <1>2, <1>3 DEF LowRiskEvidence
<1>6. LowRiskEvidence(s, more) => ~HighRiskMalicious(s, more) /\ ~HighRiskMalicious(s, e)
  BY DEF LowRiskEvidence, HighRiskMalicious, HIGH_RISK_SEVERITIES
<1>7. /\ TriageAlert(s, e, TRUE).decision = "ESCALATE" =>
            TriageAlert(s, more, TRUE).decision = "ESCALATE"
      /\ TriageAlert(s, more, TRUE).decision = "LOW_RISK" =>
            TriageAlert(s, e, TRUE).decision = "LOW_RISK"
  BY <1>4, <1>5, <1>6 DEF TriageAlert
<1> QED
  BY <1>7 DEF more

\* The mock table mirrors the rules, for any severity and evidence of any length
\* that is all there or all marked unavailable: the mock never contradicts the
\* decision, and is confident exactly when triage is (table.py:57-83).
THEOREM MockMirrorsRules ==
    ASSUME NEW s \in Severity, NEW e \in Seq(EnrichmentResult), NEW ok \in BOOLEAN,
           \A i \in DOMAIN e : e[i].available = ok
    PROVE  LET d     == TriageAlert(s, e, ok).decision
               entry == LookupMockEntry(d, s, e)
           IN  /\ ~AIConflictsWithTriage(d, entry.risk)
               /\ entry.confidence = "LOW" <=> d = "ANALYST_REVIEW"
<1>1. CASE ~ok
  <2>1. TriageAlert(s, e, ok).decision = "ANALYST_REVIEW"
    BY <1>1 DEF TriageAlert
  <2>2. ReputationBucket(e) = "unavailable"
    <3>1. e = <<>> \/ 1 \in DOMAIN e
      OBVIOUS
    <3> QED
      BY <1>1, <3>1 DEF ReputationBucket
  <2>3. LookupMockEntry("ANALYST_REVIEW", s, e) = [risk |-> "UNCERTAIN", confidence |-> "LOW"]
    BY <2>2, MockTable DEF LookupMockEntry, InvestigationKeys
  <2> QED
    BY <2>1, <2>3 DEF AIConflictsWithTriage
<1>2. CASE ok /\ HighRiskMalicious(s, e)
  <2>1. TriageAlert(s, e, ok).decision = "ESCALATE"
    BY <1>2 DEF TriageAlert
  <2>2. ReputationBucket(e) = "malicious" /\ SeverityBucket(s) = "high"
    BY <1>2, BucketOfRules DEF HighRiskMalicious, SeverityBucket
  <2>3. LookupMockEntry("ESCALATE", s, e) = [risk |-> "HIGH", confidence |-> "HIGH"]
    BY <2>2, MockTable DEF LookupMockEntry, InvestigationKeys
  <2> QED
    BY <2>1, <2>3 DEF AIConflictsWithTriage
<1>3. CASE ok /\ LowRiskEvidence(s, e)
  <2>1. TriageAlert(s, e, ok).decision = "LOW_RISK"
    BY <1>3 DEF TriageAlert, LowRiskEvidence, HighRiskMalicious, HIGH_RISK_SEVERITIES
  <2>2. ReputationBucket(e) = "benign" /\ SeverityBucket(s) = "low"
    BY <1>3, BucketOfRules DEF LowRiskEvidence, SeverityBucket, HIGH_RISK_SEVERITIES
  <2>3. LookupMockEntry("LOW_RISK", s, e) = [risk |-> "LOW", confidence |-> "HIGH"]
    BY <2>2, MockTable DEF LookupMockEntry, InvestigationKeys
  <2> QED
    BY <2>1, <2>3 DEF AIConflictsWithTriage
<1>4. CASE ok /\ ~HighRiskMalicious(s, e) /\ ~LowRiskEvidence(s, e)
  <2>1. TriageAlert(s, e, ok).decision = "ANALYST_REVIEW"
    BY <1>4 DEF TriageAlert
  <2>2. LookupMockEntry("ANALYST_REVIEW", s, e) = [risk |-> "UNCERTAIN", confidence |-> "LOW"]
    BY MockTable DEF LookupMockEntry, InvestigationKeys, UNMATCHED_ENTRY
  <2> QED
    BY <2>1, <2>2 DEF AIConflictsWithTriage
<1> QED
  BY <1>1, <1>2, <1>3, <1>4

-------------------------------------------------------------------------------
(***************************************************************************)
(* What the operators return.                                              *)
(***************************************************************************)

\* Appending two sequences, one after the other, is appending one.
LEMMA AppendTwice ==
    \A S : \A s, t, u \in Seq(S) :
        t \o u \in Seq(S) /\ s \o t \o u = s \o (t \o u)
  BY ConcatAssociative, ConcatProperties

\* Triage always gives a decision and a rule.
LEMMA TriageType ==
    ASSUME NEW s, NEW e, NEW ok
    PROVE  TriageAlert(s, e, ok) \in TriageResult
  BY DEF TriageAlert, TriageResult, TriageDecision

\* An end of an assistant call whose output, if there is one, has the types the
\* schema layer checks for.
TypedEnd(end) ==
    \/ \E f \in Failure : end = Raised(f)
    \/ \E raw : /\ end = Returned(raw)
                /\ raw.risk \in AIRiskAssessment
                /\ raw.confidence \in AIConfidence

\* A failed call is never judged to have been accepted.
LEMMA JudgedType ==
    ASSUME NEW end, TypedEnd(end), NEW alert
    PROVE  /\ Judged(end, alert) \in RejectionReason \cup Failure \cup {"accepted"}
           /\ Judged(end, alert) = "accepted" =>
                 \E raw : /\ end = Returned(raw)
                          /\ raw.risk \in AIRiskAssessment
                          /\ raw.confidence \in AIConfidence
<1>1. CASE \E f \in Failure : end = Raised(f)
  <2>1. PICK f \in Failure : end = Raised(f)
    BY <1>1
  <2>2. end.kind = f
    BY <2>1 DEF Raised
  <2> QED
    BY <2>1, <2>2 DEF Failure, Judged
<1>2. CASE \E raw : /\ end = Returned(raw)
                    /\ raw.risk \in AIRiskAssessment
                    /\ raw.confidence \in AIConfidence
  <2>1. end.kind = "output"
    BY <1>2 DEF Returned
  <2>2. Judged(end, alert) = ValidateInvestigationResult(end.raw, alert)
    BY <2>1 DEF Judged
  <2> QED
    BY <1>2, <2>2 DEF ValidateInvestigationResult, RejectionReason
<1> QED
  BY <1>1, <1>2 DEF TypedEnd

\* The analysis of any such end is well formed.
LEMMA AnalysisType ==
    ASSUME NEW end, TypedEnd(end), NEW alert, NEW decision
    PROVE  AnalysisOf(end, alert, decision) \in Analysis
<1> DEFINE verdict == Judged(end, alert)
           conflicts == verdict = "accepted" /\ AIConflictsWithTriage(decision, end.raw.risk)
           low == verdict = "accepted" /\ end.raw.confidence = "LOW"
           result == IF verdict = "accepted"
                       THEN [risk |-> end.raw.risk, confidence |-> end.raw.confidence]
                       ELSE NoAdvice
<1>1. verdict \in RejectionReason \cup Failure \cup {"accepted"}
  BY JudgedType
<1>2. result \in Advice \cup {NoAdvice}
  <2>1. CASE verdict = "accepted"
    BY <2>1, JudgedType DEF Returned, Advice
  <2>2. CASE verdict # "accepted"
    BY <2>2
  <2> QED
    BY <2>1, <2>2
<1>3. StatusOf(verdict) \in AIStatus
  BY DEF StatusOf, AIStatus
<1>4. /\ conflicts \in BOOLEAN
      /\ ReviewRequired(verdict = "accepted", conflicts, low) \in BOOLEAN
  BY DEF ReviewRequired
<1>5. (IF verdict = "accepted" THEN "none" ELSE verdict) \in RejectionReason \cup Failure \cup {"none"}
  BY <1>1
<1> QED
  BY <1>2, <1>3, <1>4, <1>5, Zenon DEF AnalysisOf, Analysis

\* The stages an end adds to the history are stages.
LEMMA AdviceStagesType ==
    ASSUME NEW end, NEW an
    PROVE  AdviceStages(end, an) \in Seq(Stages)
<1>1. {"ai_received", "ai_validated", "ai_rejected", "ai_unavailable", "analyst_review"}
         \subseteq Stages
  BY DEF Stages, ProcessingStage
<1>2. (IF end.kind = "output" THEN <<"ai_received">> ELSE <<>>) \in Seq(Stages)
  BY <1>1
<1>3. (IF an.status = "available" THEN <<"ai_validated">>
       ELSE IF an.status = "rejected" THEN <<"ai_rejected">>
       ELSE <<"ai_unavailable">>) \in Seq(Stages)
  BY <1>1
<1>4. (IF an.review THEN <<"analyst_review">> ELSE <<>>) \in Seq(Stages)
  BY <1>1
<1> QED
  BY <1>2, <1>3, <1>4 DEF AdviceStages

\* The mock's output has the types the schema layer checks for.
LEMMA MockOutputType ==
    ASSUME NEW alert, NEW decision, NEW e
    PROVE  TypedEnd(Returned(MockInvestigate(alert, decision, e)))
<1>1. LookupMockEntry(decision, alert.severity, e) \in [risk : AIRiskAssessment, confidence : AIConfidence]
  BY MockTable DEF LookupMockEntry, InvestigationKeys, UNMATCHED_ENTRY, AIRiskAssessment, AIConfidence
<1> DEFINE raw == MockInvestigate(alert, decision, e)
<1>2. raw.risk \in AIRiskAssessment /\ raw.confidence \in AIConfidence
  BY <1>1 DEF MockInvestigate
<1> QED
  BY <1>2, Zenon DEF TypedEnd

-------------------------------------------------------------------------------
(***************************************************************************)
(* The inductive invariant.                                                *)
(***************************************************************************)
IndInv == TypeOK /\ LoopIsGivenBack /\ PlaceTellsState /\ EvidenceAllOrNothing

\* The indicators of any payload are a sequence.
LEMMA IndicatorsType ==
    ASSUME NEW p
    PROVE  Len(ExtractIndicators(p)) \in Nat
<1>1. /\ IfPresent(p.source_ip) \in Seq({p.source_ip, p.destination_ip, p.file_hash})
      /\ IfPresent(p.destination_ip) \in Seq({p.source_ip, p.destination_ip, p.file_hash})
      /\ IfPresent(p.file_hash) \in Seq({p.source_ip, p.destination_ip, p.file_hash})
  <2>1. ASSUME NEW v, NEW S, v \in S
        PROVE  IfPresent(v) \in Seq(S)
    BY <2>1 DEF IfPresent
  <2> QED
    BY <2>1
<1>2. ExtractIndicators(p) \in Seq({p.source_ip, p.destination_ip, p.file_hash})
  BY <1>1 DEF ExtractIndicators
<1> QED
  BY <1>2

LEMMA InitIndInv == Init => IndInv
<1> SUFFICES ASSUME Init PROVE IndInv
  OBVIOUS
<1>1. TypeOK
  BY DEF Init, TypeOK
<1>2. LoopIsGivenBack /\ PlaceTellsState /\ EvidenceAllOrNothing
  BY MarkersAssumption DEF Init, LoopIsGivenBack, PlaceTellsState, EvidenceAllOrNothing
<1> QED
  BY <1>1, <1>2 DEF IndInv

\* An answer of the provider is an enrichment result that is available.
LEMMA VerdictsTyped ==
    /\ Verdicts \subseteq EnrichmentResult
    /\ UnavailableResult \in EnrichmentResult
  BY VerdictsAssumption DEF EnrichmentResult, UnavailableResult, Reputation, Confidence

\* The steps that only touch where an alert is, or what its lookups have answered.
LEMMA BeforeTriage ==
    ASSUME IndInv, NEW a \in Alerts, Refuse(a) \/ Receive(a) \/ Enrich(a)
    PROVE  IndInv'
<1> USE DEF IndInv
<1>1. CASE Refuse(a)
  <2>1. TypeOK'
    BY <1>1 DEF TypeOK, Refuse
  <2>2. LoopIsGivenBack'
    BY <1>1 DEF TypeOK, Refuse, LoopIsGivenBack
  <2>3. PlaceTellsState'
    BY <1>1 DEF TypeOK, Refuse, PlaceTellsState
  <2>4. EvidenceAllOrNothing'
    BY <1>1 DEF Refuse, EvidenceAllOrNothing, Indicators
  <2> QED
    BY <2>1, <2>2, <2>3, <2>4
<1>2. CASE Receive(a)
  <2>1. TypeOK'
    <3>1. <<"received", "validated", "normalized", "indicators_extracted">> \in Seq(Stages)
      BY DEF Stages, ProcessingStage
    <3> QED
      BY <1>2, <3>1 DEF TypeOK, Receive, Begin
  <2>2. LoopIsGivenBack'
    BY <1>2, MarkersAssumption DEF TypeOK, Receive, Begin, LoopIsGivenBack
  <2>3. PlaceTellsState'
    BY <1>2 DEF TypeOK, Receive, Begin, PlaceTellsState
  <2>4. EvidenceAllOrNothing'
    BY <1>2 DEF Receive, Begin, EvidenceAllOrNothing, Indicators
  <2> QED
    BY <2>1, <2>2, <2>3, <2>4
<1>3. CASE Enrich(a)
  <2>1. TypeOK'
    <3>1. PICK r \in Verdicts : gathered' = [gathered EXCEPT ![a] = Append(@, r)]
      BY <1>3 DEF Enrich
    <3>2. gathered' \in [Alerts -> Seq(Verdicts)]
      BY <3>1 DEF TypeOK
    <3> QED
      BY <1>3, <3>2 DEF TypeOK, Enrich
  <2>2. LoopIsGivenBack'
    BY <1>3 DEF Enrich, LoopIsGivenBack
  <2>3. PlaceTellsState'
    BY <1>3 DEF Enrich, PlaceTellsState
  <2>4. EvidenceAllOrNothing'
    BY <1>3 DEF TypeOK, Enrich, EvidenceAllOrNothing, PlaceTellsState, Indicators
  <2> QED
    BY <2>1, <2>2, <2>3, <2>4
<1> QED
  BY <1>1, <1>2, <1>3

\* The synchronous rest of the coroutine, on evidence that is all or nothing.
LEMMA TriageStep ==
    ASSUME IndInv, NEW a \in Alerts, pc[a] = "enriching",
           NEW results \in Seq(EnrichmentResult), NEW ok \in BOOLEAN,
           Len(results) = Len(Indicators(a)),
           ok => results = gathered[a],
           ~ok => \A i \in DOMAIN results : ~results[i].available,
           DecideAndAsk(a, results, ok)
    PROVE  IndInv'
<1> DEFINE t == TriageAlert(payload[a].severity, results, ok)
           stages == <<"enriched", "triaged", "ai_requested">>
           mock == Returned(MockInvestigate(payload[a], t.decision, results))
           failing == Raised("provider_unavailable")
<1>0. t \in TriageResult /\ stages \in Seq(Stages)
  BY TriageType DEF Stages, ProcessingStage
<1>1. TypedEnd(mock) /\ TypedEnd(failing)
  BY MockOutputType DEF TypedEnd, Failure
<1> HIDE DEF t, stages, mock, failing
<1>2. /\ enrichment' = [enrichment EXCEPT ![a] = results]
      /\ available' = [available EXCEPT ![a] = ok]
      /\ triage' = [triage EXCEPT ![a] = t]
      /\ loop' = NoAlert
      /\ UNCHANGED <<payload, gathered, expired>>
  BY DEF DecideAndAsk, t
<1>3. \/ /\ pc' = [pc EXCEPT ![a] = "awaiting"]
         /\ call' = [call EXCEPT ![a] = Running]
         /\ history' = [history EXCEPT ![a] = @ \o stages]
         /\ UNCHANGED analysis
      \/ /\ \E end : TypedEnd(end) /\ Finish(a, end, t.decision, stages)
         /\ UNCHANGED call
  BY <1>1, Zenon DEF DecideAndAsk, t, stages, mock, failing
<1>4. \/ /\ pc' = [pc EXCEPT ![a] = "awaiting"]
         /\ call' = [call EXCEPT ![a] = Running]
         /\ \E more \in Seq(Stages) : history' = [history EXCEPT ![a] = @ \o more]
         /\ UNCHANGED analysis
      \/ /\ pc' = [pc EXCEPT ![a] = "responded"]
         /\ UNCHANGED call
         /\ \E more \in Seq(Stages) : history' = [history EXCEPT ![a] = @ \o more]
         /\ \E an \in Analysis : analysis' = [analysis EXCEPT ![a] = an]
  <2>1. CASE UNCHANGED call /\ \E end : TypedEnd(end) /\ Finish(a, end, t.decision, stages)
    <3>1. PICK end : TypedEnd(end) /\ Finish(a, end, t.decision, stages)
      BY <2>1
    <3> DEFINE an == AnalysisOf(end, payload[a], t.decision)
               advice == AdviceStages(end, an)
    <3>2. an \in Analysis /\ advice \in Seq(Stages)
      BY <3>1, AnalysisType, AdviceStagesType
    <3>3. /\ analysis' = [analysis EXCEPT ![a] = an]
          /\ history' = [history EXCEPT ![a] = @ \o stages \o advice]
          /\ pc' = [pc EXCEPT ![a] = "responded"]
      BY <3>1 DEF Finish
    <3> HIDE DEF an, advice
    <3>4. history[a] \in Seq(Stages)
      BY DEF IndInv, TypeOK
    <3>5. /\ stages \o advice \in Seq(Stages)
          /\ history[a] \o stages \o advice = history[a] \o (stages \o advice)
      <4>1. /\ stages \o advice \in Seq(Stages)
            /\ \A h \in Seq(Stages) : h \o stages \o advice = h \o (stages \o advice)
        BY <1>0, <3>2, AppendTwice
      <4> QED
        BY <3>4, <4>1
    <3> QED
      BY <2>1, <3>2, <3>3, <3>5
  <2>2. CASE /\ pc' = [pc EXCEPT ![a] = "awaiting"]
             /\ call' = [call EXCEPT ![a] = Running]
             /\ history' = [history EXCEPT ![a] = @ \o stages]
             /\ UNCHANGED analysis
    BY <2>2, <1>0
  <2> QED
    BY <2>1, <2>2, <1>3
<1>5. TypeOK'
  <2>1. history' \in [Alerts -> Seq(Stages)]
    <3>1. PICK more \in Seq(Stages) : history' = [history EXCEPT ![a] = @ \o more]
      BY <1>4, <1>0
    <3>2. history[a] \o more \in Seq(Stages)
      BY ConcatProperties DEF IndInv, TypeOK
    <3> QED
      BY <3>1, <3>2 DEF IndInv, TypeOK
  <2>2. analysis' \in [Alerts -> Analysis \cup {NoAnalysis}]
    BY <1>4 DEF IndInv, TypeOK
  <2>3. /\ enrichment' \in [Alerts -> Seq(EnrichmentResult)]
        /\ available' \in [Alerts -> BOOLEAN]
        /\ triage' \in [Alerts -> TriageResult \cup {NoTriage}]
    BY <1>0, <1>2 DEF IndInv, TypeOK
  <2>4. /\ loop' \in Alerts \cup {NoAlert}
        /\ pc' \in [Alerts -> {"idle", "enriching", "awaiting", "responded", "refused"}]
        /\ payload' \in [Alerts -> Payloads]
        /\ gathered' \in [Alerts -> Seq(Verdicts)]
        /\ expired' \in [Alerts -> BOOLEAN]
    BY <1>2, <1>4 DEF IndInv, TypeOK
  <2>5. call' \in [Alerts -> {NoCall, Running} \cup {Returned(raw) : raw \in LiveOutputs}
                                                \cup {Raised(f) : f \in Failure}]
    BY <1>4 DEF IndInv, TypeOK
  <2> QED
    BY <2>1, <2>2, <2>3, <2>4, <2>5 DEF TypeOK
<1>6. LoopIsGivenBack'
  BY <1>2, <1>4, MarkersAssumption DEF IndInv, TypeOK, LoopIsGivenBack
<1>7. PlaceTellsState'
  <2> SUFFICES ASSUME NEW b \in Alerts
               PROVE  /\ triage'[b] = NoTriage <=> pc'[b] \in {"idle", "enriching", "refused"}
                      /\ analysis'[b] = NoAnalysis <=> pc'[b] # "responded"
                      /\ pc'[b] = "awaiting" => call'[b] # NoCall
                      /\ triage'[b] # NoTriage =>
                            triage'[b] = TriageAlert(payload'[b].severity, enrichment'[b], available'[b])
    BY Zenon DEF PlaceTellsState
  <2>1. Running # NoCall
    BY DEF Running, NoCall
  <2>2. CASE b # a
    BY <2>2, <1>2, <1>4 DEF IndInv, TypeOK, PlaceTellsState
  <2>3. CASE b = a
    <3>1. triage'[a] = t /\ enrichment'[a] = results /\ available'[a] = ok
      BY <1>2 DEF IndInv, TypeOK
    <3>2. t # NoTriage /\ pc'[a] \in {"awaiting", "responded"}
      BY <1>0, <1>4, MarkersAssumption DEF IndInv, TypeOK
    <3>3. analysis'[a] = NoAnalysis <=> pc'[a] # "responded"
      BY <1>4, MarkersAssumption DEF IndInv, TypeOK, PlaceTellsState
    <3>4. pc'[a] = "awaiting" => call'[a] # NoCall
      BY <1>4, <2>1 DEF IndInv, TypeOK
    <3>5. t = TriageAlert(payload'[a].severity, results, ok)
      BY <1>2 DEF t
    <3> QED
      BY <2>3, <3>1, <3>2, <3>3, <3>4, <3>5
  <2> QED
    BY <2>2, <2>3
<1>8. EvidenceAllOrNothing'
  <2>1. ~ok => t = [decision |-> "ANALYST_REVIEW", rule |-> "RULE_B"]
    BY DEF t, TriageAlert
  <2> QED
    BY <1>2, <2>1 DEF IndInv, TypeOK, EvidenceAllOrNothing, Indicators
<1> QED
  BY <1>5, <1>6, <1>7, <1>8 DEF IndInv

LEMMA EnrichmentEnds ==
    ASSUME IndInv, NEW a \in Alerts, EnrichmentCompletes(a) \/ EnrichmentFails(a)
    PROVE  IndInv'
<1>1. CASE EnrichmentCompletes(a)
  <2>1. gathered[a] \in Seq(EnrichmentResult)
    BY VerdictsTyped, SeqMonotonic DEF IndInv, TypeOK
  <2> QED
    BY <1>1, <2>1, TriageStep DEF EnrichmentCompletes
<1>2. CASE EnrichmentFails(a)
  <2> DEFINE none == [i \in 1 .. Len(Indicators(a)) |-> UnavailableResult]
  <2>1. /\ none \in Seq(EnrichmentResult)
        /\ Len(none) = Len(Indicators(a))
        /\ \A i \in DOMAIN none : ~none[i].available
    BY VerdictsTyped, IndicatorsType DEF Indicators, UnavailableResult
  <2> HIDE DEF none
  <2>2. pc[a] = "enriching" /\ DecideAndAsk(a, none, FALSE)
    BY <1>2 DEF EnrichmentFails, none
  <2> QED
    BY <2>1, <2>2, TriageStep
<1> QED
  BY <1>1, <1>2

\* The end of a wait, whatever ended it.
LEMMA WakeStep ==
    ASSUME IndInv, NEW a \in Alerts, NEW end, TypedEnd(end), Wake(a, end)
    PROVE  IndInv'
<1> DEFINE an == AnalysisOf(end, payload[a], triage[a].decision)
<1>1. an \in Analysis /\ AdviceStages(end, an) \in Seq(Stages)
  BY AnalysisType, AdviceStagesType
<1> HIDE DEF an
<1>2. /\ pc[a] = "awaiting"
      /\ pc' = [pc EXCEPT ![a] = "responded"]
      /\ analysis' = [analysis EXCEPT ![a] = an]
      /\ history' = [history EXCEPT ![a] = @ \o <<>> \o AdviceStages(end, an)]
      /\ call' = [call EXCEPT ![a] = NoCall]
      /\ UNCHANGED <<loop, payload, gathered, enrichment, available, triage, expired>>
  BY DEF Wake, Finish, an
<1>3. TypeOK'
  <2>1. history[a] \in Seq(Stages) /\ history[a] \o <<>> = history[a]
    BY DEF IndInv, TypeOK
  <2>2. history' \in [Alerts -> Seq(Stages)]
    BY <1>1, <1>2, <2>1, ConcatProperties DEF IndInv, TypeOK
  <2>3. analysis' \in [Alerts -> Analysis \cup {NoAnalysis}]
    BY <1>1, <1>2 DEF IndInv, TypeOK
  <2> QED
    BY <1>2, <2>2, <2>3 DEF IndInv, TypeOK
<1>4. LoopIsGivenBack'
  BY <1>2 DEF IndInv, TypeOK, LoopIsGivenBack
<1>5. PlaceTellsState'
  BY <1>1, <1>2, MarkersAssumption DEF IndInv, TypeOK, PlaceTellsState
<1>6. EvidenceAllOrNothing'
  BY <1>2 DEF IndInv, EvidenceAllOrNothing, Indicators
<1> QED
  BY <1>3, <1>4, <1>5, <1>6 DEF IndInv

\* What ends a wait is an end of a call with typed output.
LEMMA WaitEndsTyped ==
    ASSUME IndInv, NEW a \in Alerts, CallResumes(a) \/ CallTimesOut(a)
    PROVE  \E end : TypedEnd(end) /\ Wake(a, end)
<1>1. CASE CallResumes(a)
  <2>1. pc[a] = "awaiting" /\ call[a] # Running /\ call[a] # NoCall
    BY <1>1 DEF CallResumes, Wake, IndInv, PlaceTellsState
  <2>2. call[a] \in {Returned(raw) : raw \in LiveOutputs} \cup {Raised(f) : f \in Failure}
    BY <2>1 DEF IndInv, TypeOK
  <2>3. TypedEnd(call[a])
    BY <2>2, LiveOutputsAssumption, Zenon DEF TypedEnd
  <2> QED
    BY <1>1, <2>3 DEF CallResumes
<1>2. CASE CallTimesOut(a)
  <2>1. TypedEnd(Raised("timeout"))
    BY DEF TypedEnd, Failure
  <2> QED
    BY <1>2, <2>1 DEF CallTimesOut
<1> QED
  BY <1>1, <1>2

LEMMA WaitEnds ==
    ASSUME IndInv, NEW a \in Alerts, CallResumes(a) \/ CallTimesOut(a)
    PROVE  IndInv'
  BY WaitEndsTyped, WakeStep

LEMMA EnvironmentStep ==
    ASSUME IndInv, NEW a \in Alerts, Environment(a)
    PROVE  IndInv'
<1>1. CASE LiveCallEnds(a)
  <2>1. PICK sdk \in SdkOutcome, raw \in LiveOutputs :
           call' = [call EXCEPT ![a] = LiveInvestigate(sdk, raw)]
    BY <1>1 DEF LiveCallEnds
  <2>2. LiveInvestigate(sdk, raw) \in {Returned(r) : r \in LiveOutputs} \cup {Raised(f) : f \in Failure}
    BY DEF LiveInvestigate, Failure
  <2>3. LiveInvestigate(sdk, raw) # NoCall
    BY DEF LiveInvestigate, Returned, Raised, NoCall
  <2>4. TypeOK'
    BY <1>1, <2>1, <2>2 DEF IndInv, TypeOK, LiveCallEnds
  <2>5. PlaceTellsState'
    BY <1>1, <2>1, <2>3 DEF IndInv, TypeOK, PlaceTellsState, LiveCallEnds
  <2>6. LoopIsGivenBack' /\ EvidenceAllOrNothing'
    BY <1>1 DEF IndInv, LoopIsGivenBack, EvidenceAllOrNothing, Indicators, LiveCallEnds
  <2> QED
    BY <2>4, <2>5, <2>6 DEF IndInv
<1>2. CASE TimerExpires(a)
  BY <1>2 DEF IndInv, TypeOK, LoopIsGivenBack, PlaceTellsState, EvidenceAllOrNothing, Indicators,
              TimerExpires
<1> QED
  BY <1>1, <1>2 DEF Environment

LEMMA StutterStep ==
    ASSUME IndInv, UNCHANGED vars
    PROVE  IndInv'
  BY DEF IndInv, TypeOK, LoopIsGivenBack, PlaceTellsState, EvidenceAllOrNothing, Indicators, vars

LEMMA NextIndInv == IndInv /\ [Next]_vars => IndInv'
<1> SUFFICES ASSUME IndInv, [Next]_vars PROVE IndInv'
  OBVIOUS
<1>1. CASE \E a \in Alerts : Arrive(a) \/ Step(a) \/ Environment(a)
  BY <1>1, BeforeTriage, EnrichmentEnds, WaitEnds, EnvironmentStep DEF Arrive, Step
<1>2. CASE UNCHANGED vars
  BY <1>2, StutterStep
<1> QED
  BY <1>1, <1>2 DEF Next, Terminated

\* Every behaviour of the workflow keeps the inductive invariant.
THEOREM Invariance == Spec => []IndInv
  BY InitIndInv, NextIndInv, PTL DEF Spec

-------------------------------------------------------------------------------
\* The state has its types, whatever the providers and the assistant answer.
THEOREM TypeCorrect == Spec => []TypeOK
<1>1. IndInv => TypeOK
  BY DEF IndInv
<1> QED
  BY <1>1, Invariance, PTL

\* Triage never sees half of the evidence (EvidenceAllOrNothing), for any number
\* of alerts, indicators and answers.
THEOREM EvidenceIsAllOrNothing == Spec => []EvidenceAllOrNothing
<1>1. IndInv => EvidenceAllOrNothing
  BY DEF IndInv
<1> QED
  BY <1>1, Invariance, PTL

\* No alert holds the event loop but while its lookups run (LoopIsGivenBack).
THEOREM LoopComesBack == Spec => []LoopIsGivenBack
<1>1. IndInv => LoopIsGivenBack
  BY DEF IndInv
<1> QED
  BY <1>1, Invariance, PTL

\* No alert is called low risk on missing or malicious evidence (LowRiskIsEarned).
THEOREM LowRiskEarned == Spec => []LowRiskIsEarned
<1>1. IndInv => LowRiskIsEarned
  <2> SUFFICES ASSUME IndInv, NEW a \in Alerts, triage[a] # NoTriage,
                      triage[a].decision = "LOW_RISK"
               PROVE  /\ Len(gathered[a]) = Len(Indicators(a))
                      /\ gathered[a] # <<>>
                      /\ \A i \in DOMAIN gathered[a] : gathered[a][i].reputation # "malicious"
    BY DEF LowRiskIsEarned
  <2>1. available[a]
    BY DEF IndInv, EvidenceAllOrNothing, TypeOK
  <2>2. enrichment[a] = gathered[a] /\ Len(enrichment[a]) = Len(Indicators(a))
    BY <2>1 DEF IndInv, EvidenceAllOrNothing
  <2>3. triage[a] = TriageAlert(payload[a].severity, gathered[a], TRUE)
    BY <2>1, <2>2 DEF IndInv, PlaceTellsState, TypeOK
  <2>4. LowRiskEvidence(payload[a].severity, gathered[a])
    BY <2>3 DEF TriageAlert
  <2> QED
    BY <2>2, <2>4 DEF LowRiskEvidence, Reputations
<1> QED
  BY <1>1, Invariance, PTL

\* More evidence never softens a decision (EvidenceNeverSoftens), however many
\* indicators an alert has and whatever the provider answers.
THEOREM EvidenceOnlyHardens == Spec => EvidenceNeverSoftens
<1>1. ASSUME IndInv, [Next]_vars, NEW a \in Alerts, gathered[a] # <<>>, gathered'[a] # gathered[a]
      PROVE  LET decide(answers) == TriageAlert(payload[a].severity, answers, TRUE).decision
             IN  /\ decide(gathered[a]) = "ESCALATE" => decide(gathered'[a]) = "ESCALATE"
                 /\ decide(gathered'[a]) = "LOW_RISK" => decide(gathered[a]) = "LOW_RISK"
  <2>1. gathered[a] \in Seq(EnrichmentResult)
    <3>1. gathered[a] \in Seq(Verdicts)
      BY <1>1 DEF IndInv, TypeOK
    <3> QED
      BY <3>1, VerdictsTyped, SeqMonotonic
  <2>2. \E b \in Alerts : Enrich(b)
    BY <1>1 DEF Next, Arrive, Step, Environment, Terminated, vars, Refuse, Receive, Begin,
                EnrichmentCompletes, EnrichmentFails, DecideAndAsk, CallResumes, CallTimesOut,
                Wake, LiveCallEnds, TimerExpires
  <2>3. PICK r \in EnrichmentResult : gathered'[a] = Append(gathered[a], r)
    BY <1>1, <2>2, VerdictsTyped DEF Enrich, IndInv, TypeOK
  <2>4. \A e \in Seq(EnrichmentResult) : e # <<>> =>
           /\ TriageAlert(payload[a].severity, e, TRUE).decision = "ESCALATE" =>
                 TriageAlert(payload[a].severity, Append(e, r), TRUE).decision = "ESCALATE"
           /\ TriageAlert(payload[a].severity, Append(e, r), TRUE).decision = "LOW_RISK" =>
                 TriageAlert(payload[a].severity, e, TRUE).decision = "LOW_RISK"
    BY MoreEvidence
  <2> QED
    BY <1>1, <2>1, <2>3, <2>4
<1>2. IndInv /\ [Next]_vars =>
        [\A a \in Alerts : gathered[a] # <<>> /\ gathered'[a] # gathered[a] =>
           LET decide(answers) == TriageAlert(payload[a].severity, answers, TRUE).decision
           IN  /\ decide(gathered[a]) = "ESCALATE" => decide(gathered'[a]) = "ESCALATE"
               /\ decide(gathered'[a]) = "LOW_RISK" => decide(gathered[a]) = "LOW_RISK"]_vars
  BY <1>1
<1> QED
  BY <1>2, Invariance, PTL DEF Spec, EvidenceNeverSoftens

-------------------------------------------------------------------------------
(***************************************************************************)
(* What a finished alert has on record.                                    *)
(***************************************************************************)

\* The stages up to the first lookup, and those up to the assistant's answer.
Prelude == <<"received", "validated", "normalized", "indicators_extracted">>

Decided == <<"enriched", "triaged", "ai_requested">>

\* The end of a call that the record of an alert comes from.
RecordedEnd(a, end) ==
    /\ TypedEnd(end)
    /\ analysis[a] = AnalysisOf(end, payload[a], triage[a].decision)
    /\ history[a] = Prelude \o Decided \o AdviceStages(end, analysis[a])
    /\ payload[a].assistant = "mock" =>
          end = Returned(MockInvestigate(payload[a], triage[a].decision, enrichment[a]))

\* What the history and the analysis are at each place of the coroutine.
Told(a) ==
    /\ pc[a] = "enriching" => history[a] = Prelude
    /\ pc[a] = "awaiting" => payload[a].assistant = "live" /\ history[a] = Prelude \o Decided
    /\ pc[a] = "responded" => \E end : RecordedEnd(a, end)

RecordIsTold == \A a \in Alerts : Told(a)

\* An alert whose state a step leaves alone.
LEMMA ToldFrame ==
    ASSUME NEW a, Told(a), pc'[a] = pc[a], history'[a] = history[a], payload'[a] = payload[a],
           analysis'[a] = analysis[a], triage'[a] = triage[a], enrichment'[a] = enrichment[a]
    PROVE  Told(a)'
  BY Zenon DEF Told, RecordedEnd

\* The synchronous rest of the coroutine records the end of its call.
LEMMA DecisionTold ==
    ASSUME IndInv, RecordIsTold, NEW a \in Alerts, pc[a] = "enriching",
           NEW results, NEW ok, DecideAndAsk(a, results, ok)
    PROVE  RecordIsTold'
<1> DEFINE t == TriageAlert(payload[a].severity, results, ok)
<1>0. history[a] = Prelude
  BY DEF RecordIsTold, Told
<1>1. /\ enrichment'[a] = results
      /\ triage'[a] = t
      /\ payload' = payload
  BY DEF DecideAndAsk, IndInv, TypeOK
<1>2. ASSUME NEW b \in Alerts, b # a
      PROVE  Told(b)'
  <2>1. /\ pc'[b] = pc[b] /\ history'[b] = history[b] /\ analysis'[b] = analysis[b]
        /\ triage'[b] = triage[b] /\ enrichment'[b] = enrichment[b] /\ payload'[b] = payload[b]
    BY <1>2 DEF DecideAndAsk, Finish, IndInv, TypeOK
  <2>2. Told(b)
    BY DEF RecordIsTold
  <2> QED
    BY <2>1, <2>2, ToldFrame
<1>3. ASSUME NEW end, TypedEnd(end), Finish(a, end, t.decision, Decided),
             payload[a].assistant = "mock" =>
                 end = Returned(MockInvestigate(payload[a], t.decision, results))
      PROVE  Told(a)'
  <2> DEFINE an == AnalysisOf(end, payload[a], t.decision)
  <2>1. /\ analysis'[a] = an
        /\ history'[a] = Prelude \o Decided \o AdviceStages(end, an)
        /\ pc'[a] = "responded"
    BY <1>0, <1>3 DEF Finish, IndInv, TypeOK
  <2> HIDE DEF an
  <2>2. an = AnalysisOf(end, payload'[a], triage'[a].decision)
    BY <1>1 DEF an
  <2>3. payload'[a].assistant = "mock" =>
           end = Returned(MockInvestigate(payload'[a], triage'[a].decision, enrichment'[a]))
    BY <1>1, <1>3
  <2>4. RecordedEnd(a, end)'
    BY <1>3, <2>1, <2>2, <2>3 DEF RecordedEnd
  <2> QED
    BY <2>1, <2>4 DEF Told
<1>4. Told(a)'
  <2>1. CASE payload[a].assistant = "live" /\ pc' = [pc EXCEPT ![a] = "awaiting"]
             /\ history' = [history EXCEPT ![a] = @ \o Decided]
    BY <1>0, <1>1, <2>1 DEF Told, IndInv, TypeOK
  <2>2. CASE payload[a].assistant = "mock"
             /\ Finish(a, Returned(MockInvestigate(payload[a], t.decision, results)),
                       t.decision, Decided)
    BY <1>3, <2>2, MockOutputType
  <2>3. CASE payload[a].assistant = "failing"
             /\ Finish(a, Raised("provider_unavailable"), t.decision, Decided)
    <3>1. TypedEnd(Raised("provider_unavailable"))
      BY DEF TypedEnd, Failure
    <3> QED
      BY <1>3, <2>3, <3>1
  <2> QED
    BY <2>1, <2>2, <2>3, Zenon DEF DecideAndAsk, Decided
<1> QED
  BY <1>2, <1>4 DEF RecordIsTold

\* The end of a wait records what ended it.
LEMMA WaitTold ==
    ASSUME IndInv, RecordIsTold, NEW a \in Alerts, NEW end, TypedEnd(end), Wake(a, end)
    PROVE  RecordIsTold'
<1> DEFINE an == AnalysisOf(end, payload[a], triage[a].decision)
<1>0. pc[a] = "awaiting" /\ payload[a].assistant = "live" /\ history[a] = Prelude \o Decided
  BY DEF RecordIsTold, Told, Wake
<1>1. history[a] \o <<>> = history[a]
  <2>1. history[a] \in Seq(Stages)
    BY DEF IndInv, TypeOK
  <2> QED
    BY <2>1
<1>2. /\ analysis'[a] = an
      /\ history'[a] = Prelude \o Decided \o AdviceStages(end, an)
      /\ pc'[a] = "responded"
      /\ payload' = payload /\ triage' = triage
  <2>1. history'[a] = (history[a] \o <<>>) \o AdviceStages(end, an)
    BY DEF Wake, Finish, IndInv, TypeOK
  <2>2. history'[a] = history[a] \o AdviceStages(end, an)
    BY <1>1, <2>1
  <2> QED
    BY <1>0, <2>2 DEF Wake, Finish, IndInv, TypeOK
<1> HIDE DEF an
<1>3. an = AnalysisOf(end, payload'[a], triage'[a].decision)
  BY <1>2 DEF an
<1>4. RecordedEnd(a, end)'
  BY <1>0, <1>2, <1>3 DEF RecordedEnd
<1>5. Told(a)'
  BY <1>2, <1>4 DEF Told
<1>6. ASSUME NEW b \in Alerts, b # a
      PROVE  Told(b)'
  <2>1. /\ pc'[b] = pc[b] /\ history'[b] = history[b] /\ analysis'[b] = analysis[b]
        /\ triage'[b] = triage[b] /\ enrichment'[b] = enrichment[b] /\ payload'[b] = payload[b]
    BY <1>6 DEF Wake, Finish, IndInv, TypeOK
  <2>2. Told(b)
    BY DEF RecordIsTold
  <2> QED
    BY <2>1, <2>2, ToldFrame
<1> QED
  BY <1>5, <1>6 DEF RecordIsTold

\* Every step keeps the record told.
LEMMA NextTold == IndInv /\ RecordIsTold /\ [Next]_vars => RecordIsTold'
<1> SUFFICES ASSUME IndInv, RecordIsTold, [Next]_vars
             PROVE  RecordIsTold'
  OBVIOUS
<1>1. ASSUME NEW a \in Alerts, Refuse(a)
      PROVE  RecordIsTold'
  <2>1. ASSUME NEW b \in Alerts
        PROVE  Told(b)'
    BY <1>1 DEF RecordIsTold, Told, RecordedEnd, Refuse, IndInv, TypeOK
  <2> QED
    BY <2>1 DEF RecordIsTold
<1>2. ASSUME NEW a \in Alerts, Receive(a)
      PROVE  RecordIsTold'
  <2>1. ASSUME NEW b \in Alerts, b # a
        PROVE  Told(b)'
    <3>1. /\ pc'[b] = pc[b] /\ history'[b] = history[b] /\ analysis'[b] = analysis[b]
          /\ triage'[b] = triage[b] /\ enrichment'[b] = enrichment[b] /\ payload'[b] = payload[b]
      BY <1>2, <2>1 DEF Receive, Begin, IndInv, TypeOK
    <3>2. Told(b)
      BY DEF RecordIsTold
    <3> QED
      BY <3>1, <3>2, ToldFrame
  <2>2. Told(a)'
    BY <1>2 DEF Told, Prelude, Receive, Begin, IndInv, TypeOK
  <2> QED
    BY <2>1, <2>2 DEF RecordIsTold
<1>3. ASSUME NEW a \in Alerts, EnrichmentCompletes(a) \/ EnrichmentFails(a)
      PROVE  RecordIsTold'
  BY <1>3, DecisionTold DEF EnrichmentCompletes, EnrichmentFails
<1>4. ASSUME NEW a \in Alerts, CallResumes(a) \/ CallTimesOut(a)
      PROVE  RecordIsTold'
  BY <1>4, WaitEndsTyped, WaitTold
<1>5. ASSUME UNCHANGED <<pc, payload, enrichment, triage, analysis, history>>
      PROVE  RecordIsTold'
  <2>1. ASSUME NEW b \in Alerts
        PROVE  Told(b)'
    <3>1. Told(b)
      BY DEF RecordIsTold
    <3> QED
      BY <1>5, <3>1, ToldFrame
  <2> QED
    BY <2>1 DEF RecordIsTold
<1>6. CASE \E a \in Alerts : Enrich(a) \/ Environment(a)
  BY <1>5, <1>6 DEF Enrich, Environment, LiveCallEnds, TimerExpires
<1>7. CASE UNCHANGED vars
  BY <1>5, <1>7 DEF vars
<1> QED
  BY <1>1, <1>2, <1>3, <1>4, <1>6, <1>7 DEF Next, Arrive, Step, Terminated

\* The second inductive invariant, relative to the first.
LEMMA RecordTold == Spec => [](IndInv /\ RecordIsTold)
<1>1. Init => RecordIsTold
  BY DEF Init, RecordIsTold, Told
<1> QED
  BY <1>1, NextTold, Invariance, PTL DEF Spec

\* The mock's output passes all three layers, unless it quotes a denied name.
LEMMA MockJudged ==
    ASSUME NEW alert \in Payload, NEW decision, NEW e
    PROVE  Judged(Returned(MockInvestigate(alert, decision, e)), alert) =
              IF alert.denied \cap {"host", "user"} = {} THEN "accepted"
              ELSE "policy_keyword_match"
<1> DEFINE raw == MockInvestigate(alert, decision, e)
<1>1. /\ raw.schemaOk
      /\ raw.summary = {"host"}
      /\ raw.keyEvidence = {{"host"}, {"user"}} \cup {{v} : v \in IndicatorValues(alert)}
  BY DEF MockInvestigate
<1> HIDE DEF raw
<1>2. IndicatorValues(alert) \subseteq Values /\ alert.denied \subseteq Names
  BY DEF IndicatorValues, Payload
<1>3. ViolatesPolicy(raw, alert) <=> alert.denied \cap {"host", "user"} # {}
  <2>1. raw.summary \cup UNION raw.keyEvidence = {"host", "user"} \cup IndicatorValues(alert)
    BY <1>1
  <2>2. IndicatorValues(alert) \cap ProhibitedWords(alert) = {}
    BY <1>2, ValuesAssumption DEF ProhibitedWords
  <2>3. {"host", "user"} \cap ProhibitedWords(alert) = alert.denied \cap {"host", "user"}
    BY DEF ProhibitedWords
  <2> QED
    BY <2>1, <2>2, <2>3 DEF ViolatesPolicy
<1>4. Grounded(raw, alert)
  BY <1>1 DEF Grounded, GroundingValues
<1>5. ValidateInvestigationResult(raw, alert) =
         IF alert.denied \cap {"host", "user"} = {} THEN "accepted" ELSE "policy_keyword_match"
  BY <1>1, <1>3, <1>4 DEF ValidateInvestigationResult
<1> QED
  BY <1>5 DEF Judged, Returned, raw

\* The analysis of an accepted output.
LEMMA AcceptedAnalysis ==
    ASSUME NEW end, NEW alert, NEW decision, Judged(end, alert) = "accepted"
    PROVE  LET an == AnalysisOf(end, alert, decision)
           IN  /\ an.status = "available"
               /\ an.conflicts <=> AIConflictsWithTriage(decision, end.raw.risk)
               /\ an.review <=> \/ AIConflictsWithTriage(decision, end.raw.risk)
                                \/ end.raw.confidence = "LOW"
  BY DEF AnalysisOf, StatusOf, ReviewRequired, AIConflictsWithTriage

\* What validation makes of the mock's answer is what the alert has on record.
LEMMA MockOnRecord ==
    ASSUME IndInv, RecordIsTold, NEW a \in Alerts, Responded(a),
           payload[a].assistant = "mock"
    PROVE  LET end == Returned(MockInvestigate(payload[a], triage[a].decision, enrichment[a]))
           IN  /\ payload[a] \in Payload
               /\ analysis[a] = AnalysisOf(end, payload[a], triage[a].decision)
               /\ Judged(end, payload[a]) =
                     IF payload[a].denied \cap {"host", "user"} = {} THEN "accepted"
                     ELSE "policy_keyword_match"
<1>1. payload[a] \in Payload
  BY PayloadsAssumption DEF IndInv, TypeOK
<1> QED
  BY <1>1, MockJudged DEF RecordIsTold, Told, RecordedEnd, Responded

\* The analysis of an output that quotes a denied name.
LEMMA DeniedAnalysis ==
    ASSUME NEW end, NEW alert, NEW decision, Judged(end, alert) = "policy_keyword_match"
    PROVE  AnalysisOf(end, alert, decision) =
              [status |-> "rejected", reason |-> "policy_keyword_match",
               result |-> NoAdvice, conflicts |-> FALSE, review |-> TRUE]
  BY DEF AnalysisOf, StatusOf, ReviewRequired, RejectionReason

\* A prohibited term in a name the mock quotes costs the mock's advice, with the
\* reason on record and a review, and a term in any other name costs nothing
\* (DenylistCostsOnlyTheAdvice), whatever was looked up (validation.py:58-73).
THEOREM DenylistCosts == Spec => []DenylistCostsOnlyTheAdvice
<1>1. ASSUME IndInv, RecordIsTold, NEW a \in Alerts, Responded(a),
             payload[a].assistant = "mock"
      PROVE  IF payload[a].denied \cap {"host", "user"} = {}
             THEN analysis[a].status = "available"
             ELSE analysis[a] = [status |-> "rejected", reason |-> "policy_keyword_match",
                                 result |-> NoAdvice, conflicts |-> FALSE, review |-> TRUE]
  <2> DEFINE end == Returned(MockInvestigate(payload[a], triage[a].decision, enrichment[a]))
  <2>1. /\ analysis[a] = AnalysisOf(end, payload[a], triage[a].decision)
        /\ Judged(end, payload[a]) =
              IF payload[a].denied \cap {"host", "user"} = {} THEN "accepted"
              ELSE "policy_keyword_match"
    BY <1>1, MockOnRecord
  <2> HIDE DEF end
  <2>2. CASE payload[a].denied \cap {"host", "user"} = {}
    BY <2>1, <2>2, AcceptedAnalysis
  <2>3. CASE payload[a].denied \cap {"host", "user"} # {}
    BY <2>1, <2>3, DeniedAnalysis
  <2> QED
    BY <2>2, <2>3
<1>2. IndInv /\ RecordIsTold => DenylistCostsOnlyTheAdvice
  BY <1>1 DEF DenylistCostsOnlyTheAdvice
<1> QED
  BY <1>2, RecordTold, PTL

\* Advice of the mock agrees with triage (MockMirrorsTriage), however many
\* indicators were looked up and whatever was answered (table.py:57-83 against
\* engine.py:18-70).
THEOREM MockMirrors == Spec => []MockMirrorsTriage
<1>1. ASSUME IndInv, RecordIsTold, NEW a \in Alerts, Responded(a),
             payload[a].assistant = "mock", analysis[a].status = "available"
      PROVE  /\ ~analysis[a].conflicts
             /\ analysis[a].review <=> triage[a].decision = "ANALYST_REVIEW"
  <2> DEFINE d == triage[a].decision
             raw == MockInvestigate(payload[a], d, enrichment[a])
             entry == LookupMockEntry(d, payload[a].severity, enrichment[a])
  <2>1. analysis[a] = AnalysisOf(Returned(raw), payload[a], d)
    BY <1>1, MockOnRecord
  <2>2. payload[a] \in Payload
    BY <1>1, MockOnRecord
  <2>3. Judged(Returned(raw), payload[a]) = "accepted"
    <3>1. CASE payload[a].denied \cap {"host", "user"} # {}
      <4>1. Judged(Returned(raw), payload[a]) = "policy_keyword_match"
        BY <1>1, <3>1, MockOnRecord
      <4> HIDE DEF raw
      <4>2. analysis[a].status = "rejected"
        BY <2>1, <4>1, DeniedAnalysis
      <4> QED
        BY <1>1, <4>2
    <3> QED
      BY <1>1, <3>1, MockOnRecord
  <2>4. triage[a] # NoTriage
    BY <1>1 DEF IndInv, PlaceTellsState, Responded
  <2>5. triage[a] = TriageAlert(payload[a].severity, enrichment[a], available[a])
    BY <1>1, <2>4 DEF IndInv, PlaceTellsState
  <2>6. /\ payload[a].severity \in Severity
        /\ enrichment[a] \in Seq(EnrichmentResult)
        /\ available[a] \in BOOLEAN
    BY <1>1, <2>2 DEF IndInv, TypeOK, Payload
  <2>7. \A i \in DOMAIN enrichment[a] : enrichment[a][i].available = available[a]
    <3>1. CASE ~available[a]
      <4>1. \A i \in DOMAIN enrichment[a] : ~enrichment[a][i].available
        BY <1>1, <2>4, <3>1 DEF IndInv, EvidenceAllOrNothing
      <4>2. \A i \in DOMAIN enrichment[a] : enrichment[a][i] \in EnrichmentResult
        BY <2>6
      <4>3. \A r \in EnrichmentResult : r.available \in BOOLEAN
        BY DEF EnrichmentResult
      <4> QED
        BY <2>6, <3>1, <4>1, <4>2, <4>3
    <3>2. CASE available[a]
      <4>1. enrichment[a] = gathered[a] /\ gathered[a] \in Seq(Verdicts)
        BY <1>1, <2>4, <3>2 DEF IndInv, EvidenceAllOrNothing, TypeOK
      <4>2. \A i \in DOMAIN gathered[a] : gathered[a][i] \in Verdicts
        BY <4>1
      <4>3. \A r \in Verdicts : r.available = TRUE
        BY VerdictsAssumption DEF EnrichmentResult
      <4> QED
        BY <3>2, <4>1, <4>2, <4>3
    <3> QED
      BY <2>6, <3>1, <3>2
  <2>8. /\ ~AIConflictsWithTriage(d, entry.risk)
        /\ entry.confidence = "LOW" <=> d = "ANALYST_REVIEW"
    BY <2>5, <2>6, <2>7, MockMirrorsRules
  <2>9. raw.risk = entry.risk /\ raw.confidence = entry.confidence
    BY DEF MockInvestigate
  <2> HIDE DEF entry, raw
  <2>10. Returned(raw).raw = raw
    BY DEF Returned
  <2>11. /\ analysis[a].conflicts <=> AIConflictsWithTriage(d, raw.risk)
         /\ analysis[a].review <=>
               AIConflictsWithTriage(d, raw.risk) \/ raw.confidence = "LOW"
    BY <2>1, <2>3, <2>10, AcceptedAnalysis
  <2> QED
    BY <2>8, <2>9, <2>11
<1>2. IndInv /\ RecordIsTold => MockMirrorsTriage
  BY <1>1 DEF MockMirrorsTriage
<1> QED
  BY <1>2, RecordTold, PTL

\* The place of a stage in the pipeline.
Rank(s) == CHOOSE i \in DOMAIN ProcessingStage : ProcessingStage[i] = s

\* The twelve stages and their places.
LEMMA Ranks ==
    /\ Rank("received") = 1 /\ Rank("validated") = 2 /\ Rank("normalized") = 3
    /\ Rank("indicators_extracted") = 4 /\ Rank("enriched") = 5 /\ Rank("triaged") = 6
    /\ Rank("ai_requested") = 7 /\ Rank("ai_received") = 8 /\ Rank("ai_validated") = 9
    /\ Rank("ai_rejected") = 10 /\ Rank("ai_unavailable") = 11 /\ Rank("analyst_review") = 12
<1>1. /\ DOMAIN ProcessingStage = 1 .. 12
      /\ \A i, j \in 1 .. 12 : ProcessingStage[i] = ProcessingStage[j] => i = j
  BY DEF ProcessingStage
<1>2. ASSUME NEW i \in 1 .. 12
      PROVE  Rank(ProcessingStage[i]) = i
  BY <1>1 DEF Rank
<1> QED
  BY <1>2 DEF ProcessingStage

\* A history of the pipeline's stages and the outcome it tells.
Tells(h, st, review) ==
    LET stages == {h[i] : i \in DOMAIN h}
    IN  /\ \A i \in 2 .. Len(h) : Rank(h[i - 1]) < Rank(h[i])
        /\ {ProcessingStage[i] : i \in 1 .. 7} \subseteq stages
        /\ stages \cap {"ai_validated", "ai_rejected", "ai_unavailable"} =
              {IF st = "available" THEN "ai_validated"
               ELSE IF st = "rejected" THEN "ai_rejected" ELSE "ai_unavailable"}
        /\ "ai_received" \in stages <=> st # "unavailable"
        /\ "analyst_review" \in stages <=> review

\* One sequence appended to another, as an operator the provers leave alone.
Joined(s, t) == s \o t

\* The elements of one sequence of stages appended to another.
LEMMA JoinedElements ==
    \A s, t \in Seq(Stages) :
        /\ Joined(s, t) \in Seq(Stages)
        /\ Len(Joined(s, t)) = Len(s) + Len(t)
        /\ \A i \in 1 .. Len(s) : Joined(s, t)[i] = s[i]
        /\ \A i \in 1 .. Len(t) : Joined(s, t)[Len(s) + i] = t[i]
  BY ConcatProperties DEF Joined

\* One, two or three stages, appended to each other.
LEMMA AppendedOnes ==
    ASSUME NEW x \in Stages, NEW y \in Stages, NEW z \in Stages
    PROVE  /\ <<>> \o <<x>> \o <<y>> = <<x, y>>
           /\ <<x>> \o <<y>> \o <<>> = <<x, y>>
           /\ <<x>> \o <<y>> \o <<z>> = <<x, y, z>>
<1>1. /\ <<x>> \in Seq(Stages) /\ <<y>> \in Seq(Stages) /\ <<z>> \in Seq(Stages)
      /\ <<x, y>> \in Seq(Stages) /\ <<x, y, z>> \in Seq(Stages)
  OBVIOUS
<1> DEFINE two == <<x>> \o <<y>>
           three == <<x, y>> \o <<z>>
<1>2. two = <<x, y>>
  <2>1. two \in Seq(Stages) /\ Len(two) = 2 /\ two[1] = x /\ two[2] = y
    BY <1>1, ConcatProperties
  <2> HIDE DEF two
  <2>2. \A i \in 1 .. 2 : two[i] = <<x, y>>[i]
    BY <2>1
  <2> QED
    BY <1>1, <2>1, <2>2, SeqEqual
<1>3. three = <<x, y, z>>
  <2>1. three \in Seq(Stages) /\ Len(three) = 3 /\ three[1] = x /\ three[2] = y /\ three[3] = z
    BY <1>1, ConcatProperties
  <2> HIDE DEF three
  <2>2. \A i \in 1 .. 3 : three[i] = <<x, y, z>>[i]
    BY <2>1
  <2> QED
    BY <1>1, <2>1, <2>2, SeqEqual
<1>4. <<>> \o <<x>> = <<x>> /\ <<x, y>> \o <<>> = <<x, y>>
  BY <1>1, ConcatEmptySeq
<1> QED
  BY <1>2, <1>3, <1>4

\* The first seven stages of a triaged alert, and what may follow them.
LEMMA SevenStages ==
    LET told == Joined(Prelude, Decided)
    IN  /\ told \in Seq(Stages) /\ Len(told) = 7
        /\ \A i \in 1 .. 7 : told[i] = ProcessingStage[i]
<1> DEFINE told == Joined(Prelude, Decided)
<1>1. Prelude \in Seq(Stages) /\ Decided \in Seq(Stages)
  BY DEF Prelude, Decided, Stages, ProcessingStage
<1>2. Len(Prelude) = 4 /\ Len(Decided) = 3
  BY DEF Prelude, Decided
<1>3. /\ told \in Seq(Stages)
      /\ Len(told) = Len(Prelude) + Len(Decided)
      /\ \A i \in 1 .. Len(Prelude) : told[i] = Prelude[i]
      /\ \A i \in 1 .. Len(Decided) : told[Len(Prelude) + i] = Decided[i]
  BY <1>1, JoinedElements, Zenon
<1> HIDE DEF told
<1>4. /\ Len(told) = 7
      /\ \A i \in 1 .. 4 : told[i] = Prelude[i]
      /\ told[5] = Decided[1] /\ told[6] = Decided[2] /\ told[7] = Decided[3]
  <2>1. /\ \A i \in 1 .. 4 : told[i] = Prelude[i]
        /\ \A i \in 1 .. 3 : told[4 + i] = Decided[i]
    BY <1>2, <1>3
  <2> QED
    BY <1>2, <1>3, <2>1
<1>5. \A i \in 1 .. 7 : told[i] = ProcessingStage[i]
  BY <1>4 DEF Prelude, Decided, ProcessingStage
<1> QED
  BY <1>3, <1>4, <1>5 DEF told

\* The four histories of a finished alert.
LEMMA HistoriesTell ==
    LET told == Joined(Prelude, Decided)
    IN  /\ Tells(Joined(told, <<"ai_received", "ai_validated">>), "available", FALSE)
        /\ Tells(Joined(told, <<"ai_received", "ai_validated", "analyst_review">>), "available", TRUE)
        /\ Tells(Joined(told, <<"ai_received", "ai_rejected", "analyst_review">>), "rejected", TRUE)
        /\ Tells(Joined(told, <<"ai_unavailable", "analyst_review">>), "unavailable", TRUE)
<1> DEFINE told == Joined(Prelude, Decided)
<1>1. /\ told \in Seq(Stages) /\ Len(told) = 7
      /\ \A i \in 1 .. 7 : told[i] = ProcessingStage[i]
  BY SevenStages
<1> HIDE DEF told
<1>2. /\ \A i \in 2 .. 7 : Rank(told[i - 1]) < Rank(told[i])
      /\ Rank(told[7]) = 7
      /\ {told[i] : i \in 1 .. 7} = {ProcessingStage[i] : i \in 1 .. 7}
      /\ {told[i] : i \in 1 .. 7} =
            {"received", "validated", "normalized", "indicators_extracted",
             "enriched", "triaged", "ai_requested"}
  BY <1>1, Ranks DEF ProcessingStage
<1>3. \A t \in Seq(Stages) :
         /\ Len(Joined(told, t)) = 7 + Len(t) /\ DOMAIN Joined(told, t) = 1 .. 7 + Len(t)
         /\ \A i \in 1 .. 7 : Joined(told, t)[i] = told[i]
         /\ Len(t) >= 1 => Joined(told, t)[8] = t[1]
         /\ Len(t) >= 2 => Joined(told, t)[9] = t[2]
         /\ Len(t) >= 3 => Joined(told, t)[10] = t[3]
  <2> TAKE t \in Seq(Stages)
  <2>1. /\ Joined(told, t) \in Seq(Stages)
        /\ Len(Joined(told, t)) = Len(told) + Len(t)
        /\ \A i \in 1 .. Len(told) : Joined(told, t)[i] = told[i]
        /\ \A i \in 1 .. Len(t) : Joined(told, t)[Len(told) + i] = t[i]
    BY <1>1, JoinedElements, Zenon
  <2> DEFINE h == Joined(told, t)
  <2> HIDE DEF h
  <2>2. /\ h \in Seq(Stages) /\ Len(h) = 7 + Len(t) /\ Len(t) \in Nat
        /\ \A i \in 1 .. 7 : h[i] = told[i]
        /\ \A i \in 1 .. Len(t) : h[7 + i] = t[i]
    BY <1>1, <2>1 DEF h
  <2>3. /\ Len(t) >= 1 => h[8] = t[1]
        /\ Len(t) >= 2 => h[9] = t[2]
        /\ Len(t) >= 3 => h[10] = t[3]
    BY <2>2
  <2> QED
    BY <2>2, <2>3 DEF h
<1>4. Tells(Joined(told, <<"ai_received", "ai_validated">>), "available", FALSE)
  <2> DEFINE t == <<"ai_received", "ai_validated">>
             h == Joined(told, t)
  <2>1. t \in Seq(Stages) /\ Len(t) = 2 /\ t[1] = "ai_received" /\ t[2] = "ai_validated"
    BY DEF Stages, ProcessingStage
  <2> HIDE DEF t
  <2>2. /\ Len(h) = 7 + Len(t) /\ DOMAIN h = 1 .. 7 + Len(t)
        /\ \A i \in 1 .. 7 : h[i] = told[i]
        /\ Len(t) >= 1 => h[8] = t[1]
        /\ Len(t) >= 2 => h[9] = t[2]
        /\ Len(t) >= 3 => h[10] = t[3]
    BY <1>3, <2>1, Zenon
  <2> HIDE DEF h
  <2>3. /\ Len(h) = 9 /\ DOMAIN h = 1 .. 9
        /\ \A i \in 1 .. 7 : h[i] = told[i]
        /\ h[8] = "ai_received" /\ h[9] = "ai_validated"
    BY <2>1, <2>2
  <2>4. {h[i] : i \in DOMAIN h} = {told[i] : i \in 1 .. 7} \cup
           {"ai_received", "ai_validated"}
    BY <2>3
  <2>5. \A i \in 2 .. Len(h) : Rank(h[i - 1]) < Rank(h[i])
    BY <1>2, <2>3, Ranks
  <2> QED
    BY <1>2, <2>4, <2>5 DEF Tells, h, t
<1>5. Tells(Joined(told, <<"ai_received", "ai_validated", "analyst_review">>), "available", TRUE)
  <2> DEFINE t == <<"ai_received", "ai_validated", "analyst_review">>
             h == Joined(told, t)
  <2>1. t \in Seq(Stages) /\ Len(t) = 3 /\ t[1] = "ai_received" /\ t[2] = "ai_validated" /\ t[3] = "analyst_review"
    BY DEF Stages, ProcessingStage
  <2> HIDE DEF t
  <2>2. /\ Len(h) = 7 + Len(t) /\ DOMAIN h = 1 .. 7 + Len(t)
        /\ \A i \in 1 .. 7 : h[i] = told[i]
        /\ Len(t) >= 1 => h[8] = t[1]
        /\ Len(t) >= 2 => h[9] = t[2]
        /\ Len(t) >= 3 => h[10] = t[3]
    BY <1>3, <2>1, Zenon
  <2> HIDE DEF h
  <2>3. /\ Len(h) = 10 /\ DOMAIN h = 1 .. 10
        /\ \A i \in 1 .. 7 : h[i] = told[i]
        /\ h[8] = "ai_received" /\ h[9] = "ai_validated" /\ h[10] = "analyst_review"
    BY <2>1, <2>2
  <2>4. {h[i] : i \in DOMAIN h} = {told[i] : i \in 1 .. 7} \cup
           {"ai_received", "ai_validated", "analyst_review"}
    BY <2>3
  <2>5. \A i \in 2 .. Len(h) : Rank(h[i - 1]) < Rank(h[i])
    BY <1>2, <2>3, Ranks
  <2> QED
    BY <1>2, <2>4, <2>5 DEF Tells, h, t
<1>6. Tells(Joined(told, <<"ai_received", "ai_rejected", "analyst_review">>), "rejected", TRUE)
  <2> DEFINE t == <<"ai_received", "ai_rejected", "analyst_review">>
             h == Joined(told, t)
  <2>1. t \in Seq(Stages) /\ Len(t) = 3 /\ t[1] = "ai_received" /\ t[2] = "ai_rejected" /\ t[3] = "analyst_review"
    BY DEF Stages, ProcessingStage
  <2> HIDE DEF t
  <2>2. /\ Len(h) = 7 + Len(t) /\ DOMAIN h = 1 .. 7 + Len(t)
        /\ \A i \in 1 .. 7 : h[i] = told[i]
        /\ Len(t) >= 1 => h[8] = t[1]
        /\ Len(t) >= 2 => h[9] = t[2]
        /\ Len(t) >= 3 => h[10] = t[3]
    BY <1>3, <2>1, Zenon
  <2> HIDE DEF h
  <2>3. /\ Len(h) = 10 /\ DOMAIN h = 1 .. 10
        /\ \A i \in 1 .. 7 : h[i] = told[i]
        /\ h[8] = "ai_received" /\ h[9] = "ai_rejected" /\ h[10] = "analyst_review"
    BY <2>1, <2>2
  <2>4. {h[i] : i \in DOMAIN h} = {told[i] : i \in 1 .. 7} \cup
           {"ai_received", "ai_rejected", "analyst_review"}
    BY <2>3
  <2>5. \A i \in 2 .. Len(h) : Rank(h[i - 1]) < Rank(h[i])
    BY <1>2, <2>3, Ranks
  <2> QED
    BY <1>2, <2>4, <2>5 DEF Tells, h, t
<1>7. Tells(Joined(told, <<"ai_unavailable", "analyst_review">>), "unavailable", TRUE)
  <2> DEFINE t == <<"ai_unavailable", "analyst_review">>
             h == Joined(told, t)
  <2>1. t \in Seq(Stages) /\ Len(t) = 2 /\ t[1] = "ai_unavailable" /\ t[2] = "analyst_review"
    BY DEF Stages, ProcessingStage
  <2> HIDE DEF t
  <2>2. /\ Len(h) = 7 + Len(t) /\ DOMAIN h = 1 .. 7 + Len(t)
        /\ \A i \in 1 .. 7 : h[i] = told[i]
        /\ Len(t) >= 1 => h[8] = t[1]
        /\ Len(t) >= 2 => h[9] = t[2]
        /\ Len(t) >= 3 => h[10] = t[3]
    BY <1>3, <2>1, Zenon
  <2> HIDE DEF h
  <2>3. /\ Len(h) = 9 /\ DOMAIN h = 1 .. 9
        /\ \A i \in 1 .. 7 : h[i] = told[i]
        /\ h[8] = "ai_unavailable" /\ h[9] = "analyst_review"
    BY <2>1, <2>2
  <2>4. {h[i] : i \in DOMAIN h} = {told[i] : i \in 1 .. 7} \cup
           {"ai_unavailable", "analyst_review"}
    BY <2>3
  <2>5. \A i \in 2 .. Len(h) : Rank(h[i - 1]) < Rank(h[i])
    BY <1>2, <2>3, Ranks
  <2> QED
    BY <1>2, <2>4, <2>5 DEF Tells, h, t
<1> QED
  BY <1>4, <1>5, <1>6, <1>7 DEF told

\* What an end adds to the history, by the analysis made of it.
LEMMA EndsAdd ==
    ASSUME NEW end, TypedEnd(end), NEW alert, NEW decision
    PROVE  LET an    == AnalysisOf(end, alert, decision)
               added == AdviceStages(end, an)
           IN  \/ an.status = "available" /\ ~an.review
                  /\ added = <<"ai_received", "ai_validated">>
               \/ an.status = "available" /\ an.review
                  /\ added = <<"ai_received", "ai_validated", "analyst_review">>
               \/ an.status = "rejected" /\ an.review
                  /\ added = <<"ai_received", "ai_rejected", "analyst_review">>
               \/ an.status = "unavailable" /\ an.review
                  /\ added = <<"ai_unavailable", "analyst_review">>
<1> DEFINE verdict == Judged(end, alert)
           an == AnalysisOf(end, alert, decision)
<1>1. /\ an.status = StatusOf(verdict)
      /\ verdict # "accepted" => an.review
      /\ an.review \in BOOLEAN
  BY AnalysisType DEF AnalysisOf, ReviewRequired, Analysis
<1>2. CASE \E f \in Failure : end = Raised(f)
  <2>1. verdict \in Failure /\ end.kind # "output"
    BY <1>2 DEF Judged, Raised, Failure
  <2>2. an.status = "unavailable" /\ an.review
    BY <1>1, <2>1 DEF StatusOf, Failure, RejectionReason
  <2> HIDE DEF an
  <2>3. AdviceStages(end, an) = <<>> \o <<"ai_unavailable">> \o <<"analyst_review">>
    BY <2>1, <2>2, Zenon DEF AdviceStages
  <2>4. AdviceStages(end, an) = <<"ai_unavailable", "analyst_review">>
    BY <2>3, AppendedOnes DEF Stages, ProcessingStage
  <2> QED
    BY <2>2, <2>4 DEF an
<1>3. CASE \E raw : end = Returned(raw)
  <2>1. end.kind = "output" /\ verdict \in RejectionReason \cup {"accepted"}
    BY <1>3 DEF Judged, Returned, ValidateInvestigationResult, RejectionReason
  <2>2. /\ an.status = "available" \/ (an.status = "rejected" /\ an.review)
        /\ an.review = TRUE \/ an.review = FALSE
    BY <1>1, <2>1 DEF StatusOf, RejectionReason
  <2> HIDE DEF an
  <2>3. AdviceStages(end, an) =
           IF an.status = "rejected" THEN <<"ai_received", "ai_rejected", "analyst_review">>
           ELSE IF an.review THEN <<"ai_received", "ai_validated", "analyst_review">>
           ELSE <<"ai_received", "ai_validated">>
    <3>1. CASE an.status = "rejected"
      <4>1. AdviceStages(end, an) = <<"ai_received">> \o <<"ai_rejected">> \o <<"analyst_review">>
        BY <2>1, <2>2, <3>1, Zenon DEF AdviceStages
      <4> QED
        BY <3>1, <4>1, AppendedOnes DEF Stages, ProcessingStage
    <3>2. CASE an.status = "available" /\ an.review
      <4>1. AdviceStages(end, an) = <<"ai_received">> \o <<"ai_validated">> \o <<"analyst_review">>
        BY <2>1, <3>2, Zenon DEF AdviceStages
      <4> QED
        BY <3>2, <4>1, AppendedOnes DEF Stages, ProcessingStage
    <3>3. CASE an.status = "available" /\ ~an.review
      <4>1. AdviceStages(end, an) = <<"ai_received">> \o <<"ai_validated">> \o <<>>
        BY <2>1, <3>3, Zenon DEF AdviceStages
      <4> QED
        BY <3>3, <4>1, AppendedOnes DEF Stages, ProcessingStage
    <3> QED
      BY <2>2, <3>1, <3>2, <3>3
  <2> QED
    BY <2>2, <2>3 DEF an
<1> QED
  BY <1>2, <1>3 DEF TypedEnd

\* The history of a finished alert tells its outcome (HistoryTellsTheOutcome):
\* every stage once and in order, one end of the call and the one the analysis
\* reports, a review stage exactly when one is required (workflow.py:203-325).
THEOREM HistoryTells == Spec => []HistoryTellsTheOutcome
<1>1. ASSUME IndInv, RecordIsTold, NEW a \in Alerts, Responded(a)
      PROVE  Tells(history[a], analysis[a].status, analysis[a].review)
  <2>1. PICK end : RecordedEnd(a, end)
    BY <1>1 DEF RecordIsTold, Told, Responded
  <2> DEFINE an == AnalysisOf(end, payload[a], triage[a].decision)
  <2>2. analysis[a] = an /\ an \in Analysis /\ TypedEnd(end)
    BY <2>1, AnalysisType DEF RecordedEnd
  <2>3. an.review = TRUE \/ an.review = FALSE
    BY <2>2 DEF Analysis
  <2>4. \/ an.status = "available" /\ ~an.review
           /\ AdviceStages(end, an) = <<"ai_received", "ai_validated">>
        \/ an.status = "available" /\ an.review
           /\ AdviceStages(end, an) = <<"ai_received", "ai_validated", "analyst_review">>
        \/ an.status = "rejected" /\ an.review
           /\ AdviceStages(end, an) = <<"ai_received", "ai_rejected", "analyst_review">>
        \/ an.status = "unavailable" /\ an.review
           /\ AdviceStages(end, an) = <<"ai_unavailable", "analyst_review">>
    BY <2>2, EndsAdd
  <2> HIDE DEF an
  <2>5. history[a] = Prelude \o Decided \o AdviceStages(end, an)
    BY <2>1, <2>2 DEF RecordedEnd
  <2>6. history[a] = Joined(Joined(Prelude, Decided), AdviceStages(end, an))
    BY <2>5, Zenon DEF Joined
  <2> QED
    BY <2>2, <2>3, <2>4, <2>6, HistoriesTell
<1>2. IndInv /\ RecordIsTold => HistoryTellsTheOutcome
  BY <1>1, Zenon DEF HistoryTellsTheOutcome, Tells, Rank, StagesOf
<1> QED
  BY <1>2, RecordTold, PTL

-------------------------------------------------------------------------------
(***************************************************************************)
(* AlertWorkflow implements Advisory, for any number of alerts and for any *)
(* answers of the providers and the assistant: the decision and the advice *)
(* of an alert, and how it is closed, are those of a system in which       *)
(* advice cannot touch a decision.                                         *)
(***************************************************************************)
\* Advisory and AlertWorkflow share the definitions of Triage.
LEMMA SharedDefinitions ==
    /\ Promise!Advice = Advice
    /\ Promise!TriageDecision = TriageDecision
    /\ \A d, risk : Promise!AIConflictsWithTriage(d, risk) <=> AIConflictsWithTriage(d, risk)
  BY DEF Promise!Advice, Advice, Promise!TriageDecision, TriageDecision,
         Promise!AIRiskAssessment, AIRiskAssessment, Promise!AIConfidence, AIConfidence,
         Promise!AIConflictsWithTriage, AIConflictsWithTriage

\* A review is left out exactly when the advice is trusted in Advisory's sense.
LEMMA ReviewUnlessTrusted ==
    ASSUME NEW end, TypedEnd(end), NEW alert, NEW d
    PROVE  LET an == AnalysisOf(end, alert, d)
           IN  /\ an.result \in Promise!Advice \cup {NoAdvice}
               /\ an.review <=> ~Promise!Trusted(d, an.result)
<1> DEFINE an == AnalysisOf(end, alert, d)
           accepted == Judged(end, alert) = "accepted"
<1>2. CASE accepted
  <2>1. end.raw.risk \in AIRiskAssessment /\ end.raw.confidence \in AIConfidence
    BY <1>2, JudgedType DEF Returned
  <2>2. /\ an.result = [risk |-> end.raw.risk, confidence |-> end.raw.confidence]
        /\ an.review <=> \/ AIConflictsWithTriage(d, end.raw.risk)
                         \/ end.raw.confidence = "LOW"
    BY <1>2 DEF AnalysisOf, ReviewRequired
  <2>3. an.result \in Advice /\ an.result # NoAdvice
    BY <2>1, <2>2, MarkersAssumption DEF Advice
  <2>4. an.result.risk = end.raw.risk /\ an.result.confidence = end.raw.confidence
    BY <2>2
  <2> HIDE DEF an
  <2>5. /\ an.result \in Promise!Advice \cup {NoAdvice}
        /\ an.review <=> ~Promise!Trusted(d, an.result)
    BY SharedDefinitions, <2>2, <2>3, <2>4 DEF Promise!Trusted
  <2> QED
    BY <2>5 DEF an
<1>3. CASE ~accepted
  <2>1. an.result = NoAdvice /\ an.review
    BY <1>3 DEF AnalysisOf, ReviewRequired
  <2> HIDE DEF an
  <2>2. /\ an.result \in Promise!Advice \cup {NoAdvice}
        /\ an.review <=> ~Promise!Trusted(d, an.result)
    BY <2>1 DEF Promise!Trusted
  <2> QED
    BY <2>2 DEF an
<1> QED
  BY <1>2, <1>3

LEMMA InitRefines == Init => Promise!Init
  BY DEF Init, Promise!Init, DecisionOf, AdviceOf, OutcomeOf

\* What the abstract variables are is told by pc, triage and analysis alone.
LEMMA StutterRefines ==
    ASSUME UNCHANGED <<triage, analysis>>,
           \A a \in Alerts : pc'[a] = "refused" <=> pc[a] = "refused"
    PROVE  UNCHANGED Promise!vars
<1>1. DecisionOf' = DecisionOf /\ AdviceOf' = AdviceOf
  BY DEF DecisionOf, AdviceOf
<1>2. OutcomeOf' = OutcomeOf
  BY DEF OutcomeOf
<1> QED
  BY <1>1, <1>2 DEF Promise!vars

LEMMA RefuseRefines ==
    ASSUME IndInv, NEW a \in Alerts, Refuse(a)
    PROVE  Promise!Refuse(a)
<1>1. /\ triage[a] = NoTriage /\ analysis[a] = NoAnalysis
      /\ pc[a] = "idle"
      /\ pc' = [pc EXCEPT ![a] = "refused"]
      /\ UNCHANGED <<triage, analysis>>
  BY DEF IndInv, PlaceTellsState, Refuse
<1>2. DecisionOf[a] = "none" /\ OutcomeOf[a] = "open"
  BY <1>1 DEF DecisionOf, OutcomeOf
<1>3. OutcomeOf' = [OutcomeOf EXCEPT ![a] = "refused"]
  BY <1>1 DEF OutcomeOf, IndInv, TypeOK
<1>4. DecisionOf' = DecisionOf /\ AdviceOf' = AdviceOf
  BY <1>1 DEF DecisionOf, AdviceOf
<1> QED
  BY <1>2, <1>3, <1>4 DEF Promise!Refuse

\* How closing an alert looks from outside.
LEMMA ClosingRefines ==
    ASSUME IndInv, NEW a \in Alerts, NEW end, TypedEnd(end), NEW d,
           pc[a] # "refused",
           pc' = [pc EXCEPT ![a] = "responded"],
           analysis' = [analysis EXCEPT ![a] = AnalysisOf(end, payload[a], d)]
    PROVE  \E adv \in Promise!Advice \cup {NoAdvice} : Promise!CloseWith(a, d, adv)
<1> DEFINE an == AnalysisOf(end, payload[a], d)
<1>1. /\ an \in Analysis
      /\ an.result \in Promise!Advice \cup {NoAdvice}
      /\ an.review <=> ~Promise!Trusted(d, an.result)
  BY AnalysisType, ReviewUnlessTrusted
<1>2. analysis' = [analysis EXCEPT ![a] = an]
  OBVIOUS
<1> HIDE DEF an
<1>3. an # NoAnalysis
  BY <1>1, MarkersAssumption
<1>4. AdviceOf' = [AdviceOf EXCEPT ![a] = an.result]
  BY <1>2, <1>3 DEF AdviceOf, IndInv, TypeOK
<1>5. OutcomeOf' = [OutcomeOf EXCEPT ![a] = IF an.review THEN "review" ELSE "no_review"]
  BY <1>2, <1>3 DEF OutcomeOf, IndInv, TypeOK
<1>6. OutcomeOf' = [OutcomeOf EXCEPT
                      ![a] = IF Promise!Trusted(d, an.result) THEN "no_review" ELSE "review"]
  BY <1>1, <1>5
<1>7. Promise!CloseWith(a, d, an.result)
  BY <1>4, <1>6 DEF Promise!CloseWith
<1> QED
  BY <1>1, <1>7

\* The end of enrichment decides, and with an assistant that answers at once it
\* closes the alert in the same step.
LEMMA DecideRefines ==
    ASSUME IndInv, NEW a \in Alerts, NEW results, NEW ok,
           pc[a] = "enriching", DecideAndAsk(a, results, ok)
    PROVE  Promise!Decide(a) \/ Promise!DecideAndClose(a)
<1> DEFINE t == TriageAlert(payload[a].severity, results, ok)
           mock == Returned(MockInvestigate(payload[a], t.decision, results))
           failing == Raised("provider_unavailable")
           stages == <<"enriched", "triaged", "ai_requested">>
<1>0. TypedEnd(mock) /\ TypedEnd(failing)
  BY MockOutputType DEF TypedEnd, Failure
<1>1. t \in TriageResult /\ t # NoTriage
  BY TriageType, MarkersAssumption
<1> HIDE DEF t, mock, failing
<1>2. t.decision \in TriageDecision
  BY <1>1 DEF TriageResult
<1>3. /\ triage' = [triage EXCEPT ![a] = t]
      /\ \/ pc' = [pc EXCEPT ![a] = "awaiting"] /\ UNCHANGED analysis
         \/ Finish(a, mock, t.decision, stages)
         \/ Finish(a, failing, t.decision, stages)
  BY DEF DecideAndAsk, t, mock, failing
<1>4. /\ triage[a] = NoTriage /\ analysis[a] = NoAnalysis
      /\ DecisionOf[a] = "none" /\ OutcomeOf[a] = "open"
  BY DEF IndInv, PlaceTellsState, DecisionOf, OutcomeOf
<1>5. DecisionOf' = [DecisionOf EXCEPT ![a] = t.decision]
  BY <1>1, <1>3 DEF DecisionOf, IndInv, TypeOK
<1>6. CASE pc' = [pc EXCEPT ![a] = "awaiting"] /\ UNCHANGED analysis
  <2>1. AdviceOf' = AdviceOf /\ OutcomeOf' = OutcomeOf
    BY <1>6 DEF AdviceOf, OutcomeOf, IndInv, TypeOK
  <2> QED
    BY <1>2, <1>4, <1>5, <2>1, SharedDefinitions DEF Promise!Decide
<1>7. ASSUME NEW end, TypedEnd(end), Finish(a, end, t.decision, stages)
      PROVE  Promise!DecideAndClose(a)
  <2>1. \E adv \in Promise!Advice \cup {NoAdvice} : Promise!CloseWith(a, t.decision, adv)
    BY <1>7, ClosingRefines DEF Finish
  <2> QED
    BY <1>2, <1>4, <1>5, <2>1, SharedDefinitions DEF Promise!DecideAndClose
<1> QED
  BY <1>0, <1>3, <1>6, <1>7

LEMMA WakeRefines ==
    ASSUME IndInv, NEW a \in Alerts, NEW end, TypedEnd(end), Wake(a, end)
    PROVE  Promise!Close(a)
<1>1. /\ pc[a] = "awaiting" /\ triage[a] # NoTriage /\ analysis[a] = NoAnalysis
      /\ UNCHANGED triage
  BY DEF Wake, IndInv, PlaceTellsState
<1>2. triage[a] \in TriageResult
  BY <1>1 DEF IndInv, TypeOK
<1>3. /\ OutcomeOf[a] = "open"
      /\ DecisionOf[a] = triage[a].decision
      /\ DecisionOf[a] # "none"
  BY <1>1, <1>2 DEF OutcomeOf, DecisionOf, TriageResult, TriageDecision
<1>4. \E adv \in Promise!Advice \cup {NoAdvice} : Promise!CloseWith(a, triage[a].decision, adv)
  BY <1>1, ClosingRefines DEF Wake, Finish
<1>5. DecisionOf' = DecisionOf
  BY <1>1 DEF DecisionOf
<1> QED
  BY <1>3, <1>4, <1>5 DEF Promise!Close

LEMMA NextRefines == IndInv /\ [Next]_vars => [Promise!Next]_(Promise!vars)
<1> SUFFICES ASSUME IndInv, [Next]_vars PROVE Promise!Next \/ UNCHANGED Promise!vars
  OBVIOUS
<1>1. ASSUME NEW a \in Alerts, Refuse(a) PROVE Promise!Next
  BY <1>1, RefuseRefines DEF Promise!Next
<1>2. ASSUME NEW a \in Alerts, Receive(a) \/ Enrich(a) \/ Environment(a)
      PROVE  UNCHANGED Promise!vars
  <2>1. UNCHANGED <<triage, analysis>>
    BY <1>2 DEF Receive, Begin, Enrich, Environment, LiveCallEnds, TimerExpires
  <2>2. \A b \in Alerts : pc'[b] = "refused" <=> pc[b] = "refused"
    BY <1>2 DEF Receive, Begin, Enrich, Environment, LiveCallEnds, TimerExpires, IndInv, TypeOK
  <2> QED
    BY <2>1, <2>2, StutterRefines
<1>3. ASSUME NEW a \in Alerts, EnrichmentCompletes(a) \/ EnrichmentFails(a)
      PROVE  Promise!Next
  <2>1. /\ pc[a] = "enriching"
        /\ \E results, ok : DecideAndAsk(a, results, ok)
    BY <1>3 DEF EnrichmentCompletes, EnrichmentFails
  <2> QED
    BY <2>1, DecideRefines DEF Promise!Next
<1>4. ASSUME NEW a \in Alerts, CallResumes(a) \/ CallTimesOut(a)
      PROVE  Promise!Next
  BY <1>4, WaitEndsTyped, WakeRefines DEF Promise!Next
<1>5. CASE UNCHANGED vars
  BY <1>5, StutterRefines DEF vars
<1> QED
  BY <1>1, <1>2, <1>3, <1>4, <1>5 DEF Next, Arrive, Step, Terminated

\* The decision is made once, by triage alone, and nothing the assistant does
\* changes it (AdviceNeverDecides): the workflow implements Advisory.
THEOREM DecisionIsTriages == Spec => AdviceNeverDecides
<1>1. Init => Promise!Init
  BY InitRefines
<1>2. IndInv /\ [Next]_vars => [Promise!Next]_(Promise!vars)
  BY NextRefines
<1> QED
  BY <1>1, <1>2, Invariance, PTL DEF Spec, AdviceNeverDecides, Promise!Spec

-------------------------------------------------------------------------------
(***************************************************************************)
(* How long an alert may take.                                             *)
(***************************************************************************)

\* How many steps an alert may still take, itself and its call together: a lookup
\* for each indicator, the triage, and behind its await the end of the call, the
\* timer and the return.
ToGo(a) ==
    IF pc[a] = "idle" THEN Len(Indicators(a)) + 5
    ELSE IF pc[a] = "enriching" THEN Len(Indicators(a)) - Len(gathered[a]) + 4
    ELSE IF pc[a] = "awaiting"
           THEN 1 + (IF call[a] = Running THEN 1 ELSE 0) + (IF expired[a] THEN 0 ELSE 1)
    ELSE 0

\* One alert comes nearer to its end, and leaves the others where they are.
OneComesNearer ==
    \E a \in Alerts :
        /\ ToGo(a) \in Nat
        /\ ToGo(a)' \in 0 .. ToGo(a) - 1
        /\ \A b \in Alerts \ {a} : ToGo(b)' = ToGo(b)

\* No more lookups than indicators, and none before the alert comes in.
LookupsCounted ==
    \A a \in Alerts :
        /\ Len(gathered[a]) <= Len(Indicators(a))
        /\ pc[a] = "idle" => gathered[a] = <<>>

\* All that ToGo depends on, but for a.
LEMMA OthersStay ==
    ASSUME IndInv, NEW a \in Alerts, Arrive(a) \/ Step(a) \/ Environment(a)
    PROVE  /\ payload' = payload
           /\ \A b \in Alerts \ {a} :
                 /\ pc'[b] = pc[b] /\ gathered'[b] = gathered[b]
                 /\ call'[b] = call[b] /\ expired'[b] = expired[b]
<1> USE DEF IndInv, TypeOK
<1>1. CASE Arrive(a)
  BY <1>1 DEF Arrive, Refuse, Receive, Begin
<1>2. CASE Enrich(a)
  BY <1>2 DEF Enrich
<1>3. CASE EnrichmentCompletes(a) \/ EnrichmentFails(a)
  BY <1>3 DEF EnrichmentCompletes, EnrichmentFails, DecideAndAsk, Finish
<1>4. CASE CallResumes(a) \/ CallTimesOut(a)
  BY <1>4 DEF CallResumes, CallTimesOut, Wake, Finish
<1>5. CASE Environment(a)
  BY <1>5 DEF Environment, LiveCallEnds, TimerExpires
<1> QED
  BY <1>1, <1>2, <1>3, <1>4, <1>5 DEF Step

\* The steps of a itself, as far as they are counted.
LEMMA OwnStep ==
    ASSUME IndInv, NEW a \in Alerts, Arrive(a) \/ Step(a) \/ Environment(a)
    PROVE  \/ /\ pc[a] = "idle" /\ pc'[a] \in {"refused", "enriching"}
              /\ gathered'[a] = gathered[a]
           \/ /\ pc[a] = "enriching" /\ pc'[a] = "enriching"
              /\ Len(gathered[a]) < Len(Indicators(a))
              /\ Len(gathered'[a]) = Len(gathered[a]) + 1
           \/ /\ pc[a] = "enriching" /\ pc'[a] \in {"awaiting", "responded"}
              /\ Len(gathered[a]) <= Len(Indicators(a))
              /\ gathered'[a] = gathered[a]
           \/ /\ pc[a] = "awaiting" /\ pc'[a] = "awaiting"
              /\ gathered'[a] = gathered[a]
              /\ \/ call[a] = Running /\ call'[a] # Running /\ expired'[a] = expired[a]
                 \/ call'[a] = call[a] /\ ~expired[a] /\ expired'[a]
           \/ /\ pc[a] = "awaiting" /\ pc'[a] = "responded"
              /\ gathered'[a] = gathered[a]
<1> USE DEF IndInv, TypeOK
<1>1. CASE Arrive(a)
  BY <1>1 DEF Arrive, Refuse, Receive, Begin
<1>2. CASE Enrich(a)
  <2>1. PICK r \in Verdicts : gathered' = [gathered EXCEPT ![a] = Append(@, r)]
    BY <1>2 DEF Enrich
  <2>2. gathered[a] \in Seq(Verdicts) /\ gathered'[a] = Append(gathered[a], r)
    BY <2>1
  <2>3. Len(gathered'[a]) = Len(gathered[a]) + 1
    BY <2>2, AppendProperties
  <2> QED
    BY <1>2, <2>3 DEF Enrich
<1>3. CASE EnrichmentCompletes(a) \/ EnrichmentFails(a)
  <2>1. pc[a] = "enriching" /\ Len(gathered[a]) <= Len(Indicators(a))
    <3>1. Len(gathered[a]) \in Nat /\ Len(Indicators(a)) \in Nat
      BY IndicatorsType, LenProperties DEF Indicators
    <3>2. CASE EnrichmentCompletes(a)
      BY <3>1, <3>2 DEF EnrichmentCompletes
    <3>3. CASE EnrichmentFails(a)
      BY <3>1, <3>3 DEF EnrichmentFails
    <3> QED
      BY <1>3, <3>2, <3>3
  <2>2. pc'[a] \in {"awaiting", "responded"} /\ gathered' = gathered
    BY <1>3 DEF EnrichmentCompletes, EnrichmentFails, DecideAndAsk, Finish
  <2> QED
    BY <2>1, <2>2
<1>4. CASE CallResumes(a) \/ CallTimesOut(a)
  BY <1>4 DEF CallResumes, CallTimesOut, Wake, Finish
<1>5. CASE LiveCallEnds(a)
  <2>1. PICK sdk \in SdkOutcome, raw \in LiveOutputs :
           call' = [call EXCEPT ![a] = LiveInvestigate(sdk, raw)]
    BY <1>5 DEF LiveCallEnds
  <2>2. LiveInvestigate(sdk, raw) # Running
    BY DEF LiveInvestigate, Returned, Raised, Running
  <2> QED
    BY <1>5, <2>1, <2>2 DEF LiveCallEnds
<1>6. CASE TimerExpires(a)
  BY <1>6 DEF TimerExpires
<1> QED
  BY <1>1, <1>2, <1>3, <1>4, <1>5, <1>6 DEF Step, Environment

LEMMA LookupsStayCounted == IndInv /\ LookupsCounted /\ [Next]_vars => LookupsCounted'
<1> SUFFICES ASSUME IndInv, LookupsCounted, [Next]_vars, NEW b \in Alerts
             PROVE  /\ Len(gathered'[b]) <= Len(Indicators(b)')
                    /\ pc'[b] = "idle" => gathered'[b] = <<>>
  BY DEF LookupsCounted
<1>1. Len(gathered[b]) \in Nat /\ Len(Indicators(b)) \in Nat
  BY IndicatorsType, LenProperties DEF Indicators, IndInv, TypeOK
<1>2. Len(gathered[b]) <= Len(Indicators(b)) /\ (pc[b] = "idle" => gathered[b] = <<>>)
  BY DEF LookupsCounted
<1>3. CASE \E a \in Alerts : Arrive(a) \/ Step(a) \/ Environment(a)
  <2>1. PICK a \in Alerts : Arrive(a) \/ Step(a) \/ Environment(a)
    BY <1>3
  <2>2. Indicators(b)' = Indicators(b)
    BY <2>1, OthersStay DEF Indicators
  <2>3. CASE b # a
    BY <1>2, <2>1, <2>2, <2>3, OthersStay
  <2>4. CASE b = a
    BY <1>1, <1>2, <2>1, <2>2, <2>4, OwnStep
  <2> QED
    BY <2>3, <2>4
<1>4. CASE UNCHANGED vars
  BY <1>2, <1>4 DEF vars, Indicators
<1> QED
  BY <1>3, <1>4 DEF Next, Terminated

\* Every step brings an alert nearer to its end, in whatever order requests, answers
\* and timers come: no alert is kept going, and each is served within five steps and
\* one for each of its indicators (workflow.py:96-285).
THEOREM EveryStepNearsAnEnd == Spec => [][OneComesNearer]_vars
<1>1. Init => LookupsCounted
  BY IndicatorsType DEF Init, LookupsCounted, Indicators
<1>2. IndInv /\ LookupsCounted /\ LookupsCounted' /\ [Next]_vars => [OneComesNearer]_vars
  <2> SUFFICES ASSUME IndInv, LookupsCounted, LookupsCounted', [Next]_vars, ~(UNCHANGED vars)
               PROVE  OneComesNearer
    OBVIOUS
  <2>1. PICK a \in Alerts : Arrive(a) \/ Step(a) \/ Environment(a)
    BY DEF Next, Terminated
  <2> DEFINE n == Len(Indicators(a))
  <2>2. n \in Nat /\ Len(gathered[a]) \in Nat
    BY IndicatorsType, LenProperties DEF Indicators, IndInv, TypeOK
  <2>3. \A b \in Alerts : Indicators(b)' = Indicators(b)
    BY <2>1, OthersStay DEF Indicators
  <2>4. \A b \in Alerts \ {a} : ToGo(b)' = ToGo(b)
    BY <2>1, <2>3, OthersStay DEF ToGo
  <2>5. /\ Len(gathered[a]) <= n /\ Len(gathered'[a]) <= n
        /\ pc[a] = "idle" => Len(gathered[a]) = 0
    BY <2>3 DEF LookupsCounted
  <2>6. /\ ToGo(a) = IF pc[a] = "idle" THEN n + 5
                     ELSE IF pc[a] = "enriching" THEN n - Len(gathered[a]) + 4
                     ELSE IF pc[a] = "awaiting"
                            THEN 1 + (IF call[a] = Running THEN 1 ELSE 0)
                                   + (IF expired[a] THEN 0 ELSE 1)
                     ELSE 0
        /\ ToGo(a)' = IF pc'[a] = "idle" THEN n + 5
                      ELSE IF pc'[a] = "enriching" THEN n - Len(gathered'[a]) + 4
                      ELSE IF pc'[a] = "awaiting"
                             THEN 1 + (IF call'[a] = Running THEN 1 ELSE 0)
                                    + (IF expired'[a] THEN 0 ELSE 1)
                      ELSE 0
    BY <2>3 DEF ToGo
  <2> HIDE DEF n
  <2>7. ToGo(a) \in Nat /\ ToGo(a)' \in 0 .. ToGo(a) - 1
    <3>1. CASE pc[a] = "idle" /\ pc'[a] \in {"refused", "enriching"}
               /\ gathered'[a] = gathered[a]
      <4>1. ToGo(a) = n + 5
        BY <2>6, <3>1
      <4>2. ToGo(a)' = 0 \/ ToGo(a)' = n - Len(gathered[a]) + 4
        BY <2>6, <3>1
      <4>3. Len(gathered[a]) = 0
        BY <2>5, <3>1
      <4> QED
        BY <2>2, <4>1, <4>2, <4>3
    <3>2. CASE pc[a] = "enriching" /\ pc'[a] = "enriching"
               /\ Len(gathered'[a]) = Len(gathered[a]) + 1
      <4>1. /\ ToGo(a) = n - Len(gathered[a]) + 4
            /\ ToGo(a)' = n - Len(gathered'[a]) + 4
        BY <2>6, <3>2
      <4>2. Len(gathered'[a]) = Len(gathered[a]) + 1 /\ Len(gathered'[a]) <= n
        BY <2>5, <3>2
      <4> QED
        BY <2>2, <4>1, <4>2
    <3>3. CASE pc[a] = "enriching" /\ pc'[a] \in {"awaiting", "responded"}
      <4>1. ToGo(a) = n - Len(gathered[a]) + 4
        BY <2>6, <3>3
      <4>2. ToGo(a)' \in 0 .. 3
        BY <2>6, <3>3
      <4>3. Len(gathered[a]) <= n
        BY <2>5
      <4>4. n - Len(gathered[a]) + 4 \in Nat /\ 4 <= n - Len(gathered[a]) + 4
        BY <2>2, <4>3
      <4> QED
        BY <4>1, <4>2, <4>4
    <3>4. CASE /\ pc[a] = "awaiting" /\ pc'[a] = "awaiting"
               /\ \/ call[a] = Running /\ call'[a] # Running /\ expired'[a] = expired[a]
                  \/ call'[a] = call[a] /\ ~expired[a] /\ expired'[a]
      BY <2>6, <3>4
    <3>5. CASE pc[a] = "awaiting" /\ pc'[a] = "responded"
      BY <2>6, <3>5
    <3> QED
      BY <2>1, <3>1, <3>2, <3>3, <3>4, <3>5, OwnStep
  <2> QED
    BY <2>4, <2>7 DEF OneComesNearer
<1> QED
  BY <1>1, <1>2, InitIndInv, NextIndInv, LookupsStayCounted, PTL DEF Spec
===============================================================================
