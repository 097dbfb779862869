-------------------------------- MODULE Triage --------------------------------
(***************************************************************************)
(* The deterministic half of alert triage and the fixed table behind the   *)
(* mock investigation assistant, as functions of the evidence:             *)
(*   app/triage/engine.py         rules B, A, C and D, in that order       *)
(*   app/investigation/table.py   the mock assistant's answer              *)
(*   app/services/workflow.py     when the two disagree                    *)
(* Reasons and evidence dictionaries of a TriageResult are wording and are *)
(* left out; the rule that fired is kept.                                  *)
(***************************************************************************)
EXTENDS Sequences

Severity == {"LOW", "MEDIUM", "HIGH", "CRITICAL"}

HIGH_RISK_SEVERITIES == {"HIGH", "CRITICAL"}

Reputation == {"malicious", "benign", "unknown"}

Confidence == {"high", "medium", "low"}

\* What an enrichment provider says of one indicator. The indicator itself is
\* the one at the same position of the alert's indicator list.
EnrichmentResult ==
    [reputation : Reputation, confidence : Confidence, available : BOOLEAN]

\* The placeholder that replaces every result once enrichment has failed.
UnavailableResult ==
    [reputation |-> "unknown", confidence |-> "low", available |-> FALSE]

TriageDecision == {"ESCALATE", "ANALYST_REVIEW", "LOW_RISK"}

TriageResult ==
    [decision : TriageDecision, rule : {"RULE_A", "RULE_B", "RULE_C", "RULE_D"}]

Reputations(enrichment) ==
    {enrichment[i].reputation : i \in DOMAIN enrichment}

(***************************************************************************)
(* Rule A: a high-risk severity supported by malicious evidence.           *)
(***************************************************************************)
HighRiskMalicious_All(severity, enrichment) ==   \* slip: all of it malicious
    /\ severity \in HIGH_RISK_SEVERITIES
    /\ Reputations(enrichment) = {"malicious"}

HighRiskMalicious(severity, enrichment) ==
    /\ severity \in HIGH_RISK_SEVERITIES
    /\ "malicious" \in Reputations(enrichment)

(***************************************************************************)
(* Rule C: something was looked up, and all of it is benign or unknown     *)
(* with low confidence.                                                    *)
(***************************************************************************)
LowRiskEvidence_Vacuous(severity, enrichment) ==   \* slip: nothing looked up
    /\ severity \in {"LOW", "MEDIUM"}
    /\ Reputations(enrichment) \subseteq {"benign", "unknown"}
    /\ \A i \in DOMAIN enrichment :
          \/ enrichment[i].reputation = "benign"
          \/ enrichment[i].confidence = "low"

LowRiskEvidence(severity, enrichment) ==
    /\ severity \in {"LOW", "MEDIUM"}
    /\ enrichment # <<>>
    /\ Reputations(enrichment) \subseteq {"benign", "unknown"}
    /\ \A i \in DOMAIN enrichment :
          \/ enrichment[i].reputation = "benign"
          \/ enrichment[i].confidence = "low"

TriageAlert(severity, enrichment, available) ==
    IF ~available
      THEN [decision |-> "ANALYST_REVIEW", rule |-> "RULE_B"]
    ELSE IF HighRiskMalicious(severity, enrichment)
      THEN [decision |-> "ESCALATE", rule |-> "RULE_A"]
    ELSE IF LowRiskEvidence(severity, enrichment)
      THEN [decision |-> "LOW_RISK", rule |-> "RULE_C"]
    ELSE [decision |-> "ANALYST_REVIEW", rule |-> "RULE_D"]

-------------------------------------------------------------------------------
AIRiskAssessment == {"LOW", "MEDIUM", "HIGH", "UNCERTAIN"}

AIConfidence == {"LOW", "MEDIUM", "HIGH"}

SeverityBucket(severity) ==
    IF severity \in HIGH_RISK_SEVERITIES THEN "high" ELSE "low"

SafeLooking_Benign(result) == result.reputation = "benign"   \* slip: rule C not mirrored

SafeLooking(result) ==
    \/ result.reputation = "benign"
    \/ result.reputation = "unknown" /\ result.confidence = "low"

ReputationBucket(enrichment) ==
    IF enrichment = <<>> \/ \E i \in DOMAIN enrichment : ~enrichment[i].available
      THEN "unavailable"
    ELSE IF "malicious" \in Reputations(enrichment)
      THEN "malicious"
    ELSE IF \A i \in DOMAIN enrichment : SafeLooking(enrichment[i])
      THEN "benign"
    ELSE "unknown"

\* Keyed on decision, severity bucket and reputation bucket. "any" is the
\* wildcard severity the unavailable bucket is looked up under first.
InvestigationKeys ==
    {<<"ESCALATE", "high", "malicious">>,
     <<"ANALYST_REVIEW", "any", "unavailable">>,
     <<"LOW_RISK", "low", "benign">>}

AI_INVESTIGATION_TABLE ==
    [key \in InvestigationKeys |->
        IF key = <<"ESCALATE", "high", "malicious">>
          THEN [risk |-> "HIGH", confidence |-> "HIGH"]
        ELSE IF key = <<"ANALYST_REVIEW", "any", "unavailable">>
          THEN [risk |-> "UNCERTAIN", confidence |-> "LOW"]
        ELSE [risk |-> "LOW", confidence |-> "HIGH"]]

UNMATCHED_ENTRY == [risk |-> "UNCERTAIN", confidence |-> "LOW"]

LookupMockEntry(decision, severity, enrichment) ==
    LET bucket   == ReputationBucket(enrichment)
        wildcard == <<decision, "any", "unavailable">>
        exact    == <<decision, SeverityBucket(severity), bucket>>
    IN  IF bucket = "unavailable" /\ wildcard \in InvestigationKeys
          THEN AI_INVESTIGATION_TABLE[wildcard]
        ELSE IF exact \in InvestigationKeys
          THEN AI_INVESTIGATION_TABLE[exact]
        ELSE UNMATCHED_ENTRY

(***************************************************************************)
(* Disagreement between the assistant's risk assessment and the decision.  *)
(***************************************************************************)
AIConflictsWithTriage(decision, risk) ==
    \/ decision = "ESCALATE" /\ risk \in {"LOW", "MEDIUM"}
    \/ decision = "LOW_RISK" /\ risk = "HIGH"
===============================================================================
