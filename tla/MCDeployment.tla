----------------------------- MODULE MCDeployment ------------------------------
(***************************************************************************)
(* A default environment and what an operator gets wrong or changes in it: *)
(* every setting of each assistant and each enrichment provider with the   *)
(* rest at its default, and both providers named at once.                  *)
(***************************************************************************)
EXTENDS Deployment

CONSTANT k1

Unset == Word("unset")

Default ==
    [ai_provider |-> "unset", anthropic_api_key |-> NoKey,
     ai_provider_timeout_seconds |-> Unset, sdk |-> FALSE,
     enrichment_provider |-> "unset",
     threat_intel_api_key |-> "mock-threat-intel-api-key",
     threat_intel_base_url |-> "valid", threat_intel_max_retries |-> Unset,
     max_alert_body_bytes |-> Unset, max_webhook_body_bytes |-> Unset, stray |-> FALSE]

Timeouts == {Unset, Word("text"), Word("inf"), Word("nan"), Number(-1), Number(0), Number(2)}

Live ==
    {[Default EXCEPT !.ai_provider = "other", !.anthropic_api_key = k, !.sdk = s] :
        k \in {NoKey, k1}, s \in BOOLEAN}

Ready == [Default EXCEPT !.ai_provider = "other", !.anthropic_api_key = k1, !.sdk = TRUE]

MCEnvironments ==
    {Default} \cup Live
    \cup {[Ready EXCEPT !.ai_provider_timeout_seconds = t] : t \in Timeouts}
    \cup {[Default EXCEPT !.ai_provider = p] : p \in {"blank", "mock"}}
    \cup {[Default EXCEPT !.enrichment_provider = p] : p \in {"blank", "mock"}}
    \cup {[e EXCEPT !.enrichment_provider = "other", !.threat_intel_api_key = k,
                    !.threat_intel_base_url = u] :
             e \in {Default, Ready}, k \in {"mock-threat-intel-api-key", "another"},
             u \in {"valid", "malformed"}}
    \cup {[Default EXCEPT !.threat_intel_max_retries = r] :
             r \in {Word("nan"), Number(-1), Number(0), Number(5)}}
    \cup {[Default EXCEPT !.max_alert_body_bytes = r] :
             r \in {Word("empty"), Word("text"), Number(0), Number(1)}}
    \cup {[Default EXCEPT !.max_webhook_body_bytes = r] : r \in {Number(-1), Number(3)}}
    \cup {[Default EXCEPT !.stray = TRUE]}

Alerts ==
    [severity : {"LOW", "HIGH"},
     indicators : {<<>>, <<"malicious_ip">>, <<"benign_ip">>, <<"unlisted", "benign_ip">>,
                   <<"benign_ip", "malicious_hash">>}]

MCRequests ==
    [path : {"alerts"}, alert : Alerts, length : {1},
     scenario : {"none", "enrichment_failure", "ai_failure"}]
    \cup [path : {"alerts"}, alert : {HIGH_RISK_ALERT}, length : {0, 2, 3, NoLength},
          scenario : {"none"}]
    \cup [path : {"webhook"}, length : {2, 3, NoLength}]
    \cup [path : {"demo"}, scenario : DOMAIN DEMO_SCENARIOS \cup {"unlisted"}]
===============================================================================
