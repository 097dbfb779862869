---------------------------- MODULE MCAlertWorkflow ----------------------------
(***************************************************************************)
(* Small instances of AlertWorkflow.                                       *)
(***************************************************************************)
EXTENDS AlertWorkflow

CONSTANTS a1, a2, None

MCValues == {"ip1", "ip2", "hash"}

Alert(severity, src, dst, hash, denied, assistant) ==
    [supported |-> TRUE, severity |-> severity, source_ip |-> src, destination_ip |-> dst,
     file_hash |-> hash, process_name |-> TRUE, denied |-> denied, assistant |-> assistant]

Answer(reputation, confidence) ==
    [reputation |-> reputation, confidence |-> confidence, available |-> TRUE]

Output(schemaOk, words, evidence, risk, confidence) ==
    [schemaOk |-> schemaOk, summary |-> words, keyEvidence |-> evidence, risk |-> risk,
     confidence |-> confidence]

Foreign == [Alert("LOW", "ip1", None, None, {}, "mock") EXCEPT !.supported = FALSE]

\* Every output the validation tells apart, and every risk assessment.
MCLiveOutputs ==
    {Output(TRUE, {"host"}, {{"process", "host"}, {"ip1"}}, r, c) :
        r \in AIRiskAssessment, c \in AIConfidence}
    \cup {Output(FALSE, {"host"}, {}, "LOW", "HIGH"),
          Output(TRUE, {"host", "prohibited"}, {}, "LOW", "HIGH"),
          Output(TRUE, {"host"}, {{"foreign"}}, "LOW", "HIGH")}

-------------------------------------------------------------------------------
\* One alert, all of the data: zero to three indicators (one pair equal), every
\* severity, every assistant, each of the names with a prohibited term.
Denials ==
    [mock    |-> {{}, {"user"}, {"process"}, {"host", "process"}},
     live    |-> {{}, {"process"}},
     failing |-> {{}}]

OneAlertPayloads ==
    {Foreign} \cup
    UNION {{Alert(s, ips[1], ips[2], h, d, as) :
              s \in Severity, ips \in {<<None, None>>, <<"ip1", "ip1">>, <<None, "ip2">>},
              h \in {"hash", None}, d \in Denials[as]} : as \in {"mock", "failing", "live"}}

\* What the mock and the threat-intelligence providers can answer.
AllVerdicts ==
    {Answer(r, c) : r \in {"malicious", "benign"}, c \in Confidence}
    \cup {Answer("unknown", "low")}

-------------------------------------------------------------------------------
\* Two alerts that overlap: less data, all of the control.
TwoAlertPayloads ==
    {Foreign, Alert("HIGH", "ip1", None, None, {}, "live"),
     Alert("LOW", "ip1", None, "hash", {}, "live"),
     Alert("LOW", "ip1", None, None, {"host"}, "mock")}

TwoAlertVerdicts == {Answer("malicious", "high"), Answer("benign", "high")}

TwoAlertOutputs ==
    {Output(TRUE, {"host"}, {{"ip1"}}, "LOW", "HIGH"),
     Output(TRUE, {"host"}, {{"foreign"}}, "HIGH", "HIGH")}
===============================================================================
