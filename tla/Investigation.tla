----------------------------- MODULE Investigation -----------------------------
(***************************************************************************)
(* The boundary between the alert workflow and its AI assistant, as        *)
(* functions:                                                              *)
(*   app/services/indicators.py        what is looked up                   *)
(*   app/investigation/mock.py         what the mock assistant returns     *)
(*   app/investigation/live.py         what a live call ends in            *)
(*   app/investigation/validation.py   which raw outputs are accepted      *)
(*                                                                         *)
(* Text is abstracted to the set of words a check can tell apart: "host",  *)
(* "user" and "process" stand for the alert's own names, an indicator for  *)
(* its value, "foreign" for anything the alert does not hold and           *)
(* "prohibited" for a term of POLICY_DENYLIST.  The denylist is matched    *)
(* as a substring, so an alert's own name may contain a prohibited term:   *)
(* an alert's "denied" field is the set of its names that do.              *)
(***************************************************************************)
EXTENDS Triage

CONSTANT Absent     \* an optional alert field that is not there

Names == {"host", "user", "process"}

(***************************************************************************)
(* Indicators, in the order they are looked up.                            *)
(***************************************************************************)
IfPresent(value) == IF value = Absent THEN <<>> ELSE <<value>>

ExtractIndicators(alert) ==
    IfPresent(alert.source_ip) \o IfPresent(alert.destination_ip)
                               \o IfPresent(alert.file_hash)

IndicatorValues(alert) ==
    {alert.source_ip, alert.destination_ip, alert.file_hash} \ {Absent}

\* One text field of an output is a set of words; key_evidence is a set of
\* such fields.
RawOutput(words) ==
    [schemaOk : BOOLEAN, summary : SUBSET words, keyEvidence : SUBSET (SUBSET words),
     risk : AIRiskAssessment, confidence : AIConfidence]

(***************************************************************************)
(* The mock assistant: the table's answer for the alert's decision and     *)
(* evidence, and one evidence entry per name and per indicator.            *)
(***************************************************************************)
MockInvestigate(alert, decision, enrichment) ==
    LET entry == LookupMockEntry(decision, alert.severity, enrichment)
    IN  [schemaOk    |-> TRUE,
         summary     |-> {"host"},
         keyEvidence |-> {{"host"}, {"user"}} \cup {{v} : v \in IndicatorValues(alert)},
         risk        |-> entry.risk,
         confidence  |-> entry.confidence]

(***************************************************************************)
(* The three validation layers, in order.                                  *)
(***************************************************************************)
ProhibitedWords(alert) == {"prohibited"} \cup alert.denied

\* Slip: only the summary is scanned.
ViolatesPolicy_Summary(raw, alert) == raw.summary \cap ProhibitedWords(alert) # {}

ViolatesPolicy(raw, alert) ==
    (raw.summary \cup UNION raw.keyEvidence) \cap ProhibitedWords(alert) # {}

GroundingValues(alert) ==
    {"host", "user"} \cup (IF alert.process_name THEN {"process"} ELSE {})
                     \cup IndicatorValues(alert)

Grounded(raw, alert) ==
    \A entry \in raw.keyEvidence : entry \cap GroundingValues(alert) # {}

RejectionReason == {"schema_invalid", "policy_keyword_match", "ungrounded_evidence"}

\* "accepted", or the first reason for which the output is rejected.
ValidateInvestigationResult(raw, alert) ==
    IF ~raw.schemaOk THEN "schema_invalid"
    ELSE IF ViolatesPolicy(raw, alert) THEN "policy_keyword_match"
    ELSE IF ~Grounded(raw, alert) THEN "ungrounded_evidence"
    ELSE "accepted"

-------------------------------------------------------------------------------
(***************************************************************************)
(* How a call of an assistant ends for the workflow: with a raw output, or *)
(* with an exception of one of three kinds.                                *)
(***************************************************************************)
Failure == {"timeout", "provider_unavailable", "unexpected_error"}

Raised(failure) == [kind |-> failure]

Returned(raw) == [kind |-> "output", raw |-> raw]

\* What the SDK call of the live assistant can end in. "refused" stands for an
\* authentication, permission, rate-limit, connection or status error, each of
\* which is translated to InvestigationUnavailableError; "odd_json" for a JSON
\* text that dict() refuses with a ValueError, such as a string or a list of
\* strings, which no handler of the assistant catches.
SdkOutcome == {"sdk_timeout", "refused", "sdk_crash", "not_json", "odd_json", "json_object"}

LiveInvestigate(sdk, raw) ==
    IF sdk = "sdk_timeout" THEN Raised("timeout")
    ELSE IF sdk = "odd_json" THEN Raised("unexpected_error")
    ELSE IF sdk = "json_object" THEN Returned(raw)
    ELSE Raised("provider_unavailable")
===============================================================================
