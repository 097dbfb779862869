------------------------------- MODULE Settings --------------------------------
(***************************************************************************)
(* app/config.py: how what the environment holds becomes the settings of   *)
(* the process.  Most settings fall back to a default when they make no    *)
(* sense; the two body limits, and a .env file with a variable the         *)
(* settings do not know, keep the application from starting.               *)
(*                                                                         *)
(* A numeric variable is abstracted to the forms float() and int() tell    *)
(* apart: the words "inf" and "nan" are floats and no ints.  A provider's  *)
(* name is "mock", blank, or another word, " mock " included: the          *)
(* validator strips only to see whether something is left.                 *)
(***************************************************************************)
EXTENDS Integers

CONSTANTS
    Keys,            \* API keys of the live assistant's vendor
    NoKey            \* no key, or the empty one

ASSUME NoKeyAssumption == NoKey \notin Keys

Raw ==
    [form : {"unset", "empty", "text", "inf", "nan"}, value : {0}]
    \cup [form : {"number"}, value : Int]

Number(n) == [form |-> "number", value |-> n]

Word(form) == [form |-> form, value |-> 0]

\* The environment variables that decide something here.  "base_url" says whether
\* httpx can parse THREAT_INTEL_BASE_URL, "sdk" whether the live-ai extra is
\* installed, "stray" whether the .env file names an unknown variable.
Environment ==
    [ai_provider : {"unset", "blank", "mock", "other"},
     anthropic_api_key : Keys \cup {NoKey},
     ai_provider_timeout_seconds : Raw,
     sdk : BOOLEAN,
     enrichment_provider : {"unset", "blank", "mock", "other"},
     threat_intel_api_key : {"mock-threat-intel-api-key", "another"},
     threat_intel_base_url : {"valid", "malformed"},
     threat_intel_max_retries : Raw,
     max_alert_body_bytes : Raw,
     max_webhook_body_bytes : Raw,
     stray : BOOLEAN]

CONSTANTS DefaultTimeout, DefaultRetries, DefaultAlertLimit, DefaultWebhookLimit

ASSUME DefaultsAssumption ==
    /\ DefaultTimeout \in Nat \ {0}
    /\ DefaultRetries \in Nat
    /\ DefaultAlertLimit \in Nat \ {0}
    /\ DefaultWebhookLimit \in Nat \ {0}

-------------------------------------------------------------------------------
\* _default_empty_provider and _default_empty_enrichment_provider.
ProviderName(raw) == IF raw \in {"unset", "blank"} THEN "mock" ELSE raw

\* The timeouts.  Neither "inf" nor "nan" is <= 0, so both pass.
ValidTimeout(raw, default) ==
    IF raw.form \in {"inf", "nan"} \/ (raw.form = "number" /\ raw.value > 0)
      THEN raw
      ELSE Number(default)

\* Slip: a negative count passes.
ValidRetries_Signed(raw, default) ==
    IF raw.form = "number" THEN raw.value ELSE default

\* The retry counts.
ValidRetries(raw, default) ==
    IF raw.form = "number" /\ raw.value >= 0 THEN raw.value ELSE default

\* The body limits, declared with gt=0: "" is no integer, so it does not start
\* the application either.
LimitStands(raw) ==
    \/ raw.form = "unset"
    \/ raw.form = "number" /\ raw.value > 0

Limit(raw, default) == IF raw.form = "unset" THEN default ELSE raw.value

\* Settings() returns, and does not raise a ValidationError.
Loads(env) ==
    /\ LimitStands(env.max_alert_body_bytes)
    /\ LimitStands(env.max_webhook_body_bytes)
    /\ ~env.stray

\* The body limits by path; no other path has one.
Limits(env) ==
    [alerts  |-> Limit(env.max_alert_body_bytes, DefaultAlertLimit),
     webhook |-> Limit(env.max_webhook_body_bytes, DefaultWebhookLimit)]
===============================================================================
