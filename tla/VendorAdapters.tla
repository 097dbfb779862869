---------------------------- MODULE VendorAdapters -----------------------------
(***************************************************************************)
(* The two HTTP-backed providers of single records, as functions of how    *)
(* the client's call ended and of the record the vendor sent:              *)
(*   app/integrations/enrichment/threat_intel.py       enrich              *)
(*   app/integrations/vulnerability/asset_intel.py     get_context         *)
(* Each turns the vendor's answer into the platform's model, and the       *)
(* client's errors into the one exception its interface names.  Names,     *)
(* sources and tags are wording and are left out.                          *)
(***************************************************************************)
EXTENDS Triage, Integers, IntegrationErrors

\* ThreatIntelVendorResponse; "schemaOk" says whether the body fits the schema.
\* "other" stands for any verdict that _VERDICT_TO_REPUTATION does not list.
ThreatIntelVendorResponse ==
    [schemaOk : BOOLEAN, verdict : {"malicious", "benign", "other"}, score : Int]

AssetCriticality == {"critical", "high", "medium", "low", "unknown"}

\* AssetIntelVendorResponse; its asset may be the empty string, and the schema
\* does not bound the count.
AssetIntelVendorResponse ==
    [schemaOk : BOOLEAN, criticality : {"critical", "high", "medium", "low", "other"},
     named : BOOLEAN, open_critical_cves : Int]

VulnerabilityContext ==
    [criticality : AssetCriticality, critical_vulnerability_count : Nat]

\* What a provider method gives its caller.
Data(d) == [kind |-> "data", data |-> d]

Raises(exception) == [kind |-> "raised", exception |-> exception]

(***************************************************************************)
(* The client method: get(), then the schema of the record.                *)
(***************************************************************************)
LookupOutcome(result, record) ==
    IF result = "ok" /\ ~record.schemaOk THEN "IntegrationValidationError" ELSE result

\* Slip: a record that does not fit the schema is not among the errors handled.
Handled_Transport(error) == error \in ErrorClass \ {"IntegrationValidationError"}

\* except IntegrationError.
Handled(error) == error \in ErrorClass

(***************************************************************************)
(* ThreatIntelEnrichmentProvider.enrich.                                   *)
(***************************************************************************)
Decisiveness(score) == IF score >= 50 THEN score - 50 ELSE 50 - score

NormalizeIndicator(record) ==
    LET reputation == IF record.verdict = "other" THEN "unknown" ELSE record.verdict
    IN  [reputation |-> reputation,
         confidence |-> IF reputation = "unknown" THEN "low"
                        ELSE IF Decisiveness(record.score) >= 40 THEN "high"
                        ELSE IF Decisiveness(record.score) >= 15 THEN "medium"
                        ELSE "low",
         available  |-> TRUE]

\* What is said of an indicator the vendor does not know.
UnknownIndicator ==
    [reputation |-> "unknown", confidence |-> "low", available |-> TRUE]

\* Slip: a key the vendor refuses reads like an indicator it does not know.
Enrich_RefusedIsUnknown(outcome, record) ==
    IF outcome \in {"IntegrationNotFoundError", "IntegrationAuthError"}
      THEN Data(UnknownIndicator)
    ELSE IF Handled(outcome) THEN Raises("EnrichmentUnavailableError")
    ELSE IF outcome = "ok" THEN Data(NormalizeIndicator(record))
    ELSE Raises(outcome)

Enrich(outcome, record) ==
    IF outcome = "IntegrationNotFoundError" THEN Data(UnknownIndicator)
    ELSE IF Handled(outcome) THEN Raises("EnrichmentUnavailableError")
    ELSE IF outcome = "ok" THEN Data(NormalizeIndicator(record))
    ELSE Raises(outcome)

(***************************************************************************)
(* AssetIntelVulnerabilityProvider.get_context.  The translation of the    *)
(* record comes after the try block, so what the platform's model refuses  *)
(* (a negative count, an empty name) leaves as pydantic's own error; so    *)
(* does the context of an unknown asset when the name asked about is empty.*)
(***************************************************************************)
NormalizeAsset(record) ==
    [criticality |-> IF record.criticality = "other" THEN "unknown" ELSE record.criticality,
     critical_vulnerability_count |-> record.open_critical_cves]

UnknownAsset == [criticality |-> "unknown", critical_vulnerability_count |-> 0]

InContract(record) == record.named /\ record.open_critical_cves >= 0

\* "asked" says whether the name asked about is not empty.
GetContext(outcome, record, asked) ==
    IF outcome = "IntegrationNotFoundError"
      THEN IF asked THEN Data(UnknownAsset) ELSE Raises("ValidationError")
    ELSE IF Handled(outcome) THEN Raises("VulnerabilityContextUnavailableError")
    ELSE IF outcome # "ok" THEN Raises(outcome)
    ELSE IF InContract(record) THEN Data(NormalizeAsset(record))
    ELSE Raises("ValidationError")
===============================================================================
