----------------------------- MODULE VendorLookup ------------------------------
(***************************************************************************)
(* Lookups of single records through the integration client: the calls of  *)
(* module IntegrationClient, each made by a provider of VendorAdapters,    *)
(* which answers its caller once the client's call has ended.              *)
(***************************************************************************)
EXTENDS IntegrationClient, VendorAdapters

CONSTANTS
    Indicators,      \* the records a threat-intel vendor may send
    Assets           \* the records an asset-intel vendor may send

ASSUME RecordsAssumption ==
    /\ Indicators \subseteq ThreatIntelVendorResponse
    /\ Assets \subseteq AssetIntelVendorResponse

VARIABLES
    method,    \* method[c]: the provider method that makes the call
    asked,     \* asked[c]: whether the name it is asked about is not empty
    record,    \* record[c]: the record the successful reply held, or NoRecord
    answer     \* answer[c]: what the method gave its caller, or NoAnswer

lookupVars == <<clientVars, method, asked, record, answer>>

NoRecord == [schemaOk |-> FALSE]

NoAnswer == [kind |-> "none"]

Records(m) == IF m = "enrich" THEN Indicators ELSE Assets

-------------------------------------------------------------------------------
LookupTypeOK ==
    /\ TypeOK
    /\ method \in [Calls -> {"enrich", "get_context"}]
    /\ asked \in [Calls -> BOOLEAN]
    /\ record \in [Calls -> Indicators \cup Assets \cup {NoRecord}]
    /\ \A c \in Calls :
          \/ answer[c] = NoAnswer
          \/ answer[c].kind = "raised"
          \/ /\ answer[c].kind = "data"
             /\ answer[c].data \in IF method[c] = "enrich" THEN EnrichmentResult
                                   ELSE VulnerabilityContext

LookupInit ==
    /\ ClientInit
    /\ method \in [Calls -> {"enrich", "get_context"}]
    /\ asked \in [Calls -> BOOLEAN]
    /\ record = [c \in Calls |-> NoRecord]
    /\ answer = [c \in Calls |-> NoAnswer]

Lookup(c) == Send(c) /\ UNCHANGED <<method, asked, record, answer>>

\* The method's caller is answered.
Answer(c, ended, rec) ==
    LET outcome == LookupOutcome(ended, rec)
    IN  answer' = [answer EXCEPT ![c] = IF method[c] = "enrich" THEN Enrich(outcome, rec)
                                        ELSE GetContext(outcome, rec, asked[c])]

(***************************************************************************)
(* A reply comes.  A JSON object in a successful one holds some record,    *)
(* and the end of the client's call is the end of the method's.            *)
(***************************************************************************)
Receive(c, reply) ==
    /\ Handle(c, reply)
    /\ \/ /\ phase'[c] # "ended"
          /\ UNCHANGED <<record, answer>>
       \/ /\ phase'[c] = "ended"
          /\ \E rec \in IF result'[c] = "ok" THEN Records(method[c]) ELSE {NoRecord} :
                /\ record' = [record EXCEPT ![c] = rec]
                /\ Answer(c, result'[c], rec)
    /\ UNCHANGED <<method, asked>>

LookupAgain(c) == Resend(c) /\ UNCHANGED <<method, asked, record, answer>>

LookupNext ==
    \/ \E c \in Calls : Lookup(c)
    \/ \E c \in Calls, reply \in Replies : Receive(c, reply)
    \/ \E c \in Calls : LookupAgain(c)
    \/ ClientDone /\ UNCHANGED lookupVars

LookupSpec == LookupInit /\ [][LookupNext]_lookupVars

(***************************************************************************)
(* httpx always ends an attempt, with a timeout if nothing else, and       *)
(* time.sleep returns.                                                     *)
(***************************************************************************)
LookupFairness ==
    \A c \in Calls :
        /\ WF_lookupVars(\E reply \in Replies : Receive(c, reply))
        /\ WF_lookupVars(LookupAgain(c))

FairLookupSpec == LookupSpec /\ LookupFairness

-------------------------------------------------------------------------------
\* No failure reads as evidence.  A provider gives data only when the vendor's
\* last reply was a record that fits its schema or a 404; and an answer rule C
\* could call low risk comes from a 404, from a benign verdict, or from a verdict
\* the platform does not know (threat_intel.py:225-239, asset_intel.py:369-383).
AnswerIsEarned ==
    \A c \in Calls : answer[c].kind = "data" =>
        /\ last[c].kind = "response"
        /\ last[c].status = 404 \/ (last[c].status < 400 /\ record[c].schemaOk)
        /\ method[c] = "enrich" =>
              (TriageAlert("LOW", <<answer[c].data>>, TRUE).decision = "LOW_RISK" =>
                  last[c].status = 404 \/ record[c].verdict \in {"benign", "other"})

\* Whatever goes wrong at the vendor or on the way, the caller meets the one
\* exception its interface names.  Three things escape: the client's ValueError for
\* a Retry-After of "nan", what the send of a request that cannot be made raises,
\* and get_context's record or name outside the platform's contract
\* (threat_intel.py:235-238, asset_intel.py:372-383).
EveryFailureIsTranslated ==
    \A c \in Calls : answer[c].kind = "raised" =>
        \/ answer[c].exception = IF method[c] = "enrich" THEN "EnrichmentUnavailableError"
                                 ELSE "VulnerabilityContextUnavailableError"
        \/ /\ answer[c].exception = "ValueError"
           /\ HeaderOf(last[c]).form = "nan"
        \/ answer[c].exception = "SendError" /\ last[c].kind = "unsent"
        \/ /\ answer[c].exception = "ValidationError"
           /\ method[c] = "get_context"
           /\ IF result[c] = "ok" THEN ~InContract(record[c])
              ELSE last[c].status = 404 /\ ~asked[c]
===============================================================================
