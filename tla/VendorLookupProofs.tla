--------------------------- MODULE VendorLookupProofs ---------------------------
(***************************************************************************)
(* Proofs about VendorLookup, for any number of calls at once, any retry   *)
(* policy, any replies and any records of the vendors.  What holds of the  *)
(* client alone comes from IntegrationClientProofs.                        *)
(***************************************************************************)
EXTENDS VendorLookup, IntegrationClientProofs

-------------------------------------------------------------------------------
\* What method m, asked about a name or an empty one, makes of a call that ended so.
AnswerTo(m, named, ended, rec) ==
    IF m = "enrich" THEN Enrich(LookupOutcome(ended, rec), rec)
    ELSE GetContext(LookupOutcome(ended, rec), rec, named)

\* A caller is answered when its call ends, from the call's end and its record.
AnswerTells(c) ==
    /\ phase[c] # "ended" => answer[c] = NoAnswer
    /\ phase[c] = "ended" =>
          /\ record[c] \in IF result[c] = "ok" THEN Records(method[c]) ELSE {NoRecord}
          /\ answer[c] = AnswerTo(method[c], asked[c], result[c], record[c])

Typed ==
    /\ method \in [Calls -> {"enrich", "get_context"}]
    /\ asked \in [Calls -> BOOLEAN]
    /\ record \in [Calls -> Indicators \cup Assets \cup {NoRecord}]
    /\ answer = [c \in Calls |-> answer[c]]

IndInv == ClientInv /\ Typed /\ \A c \in Calls : AnswerTells(c)

-------------------------------------------------------------------------------
(***************************************************************************)
(* What the methods return.                                                *)
(***************************************************************************)

\* Answer a to a call of method m that ended so: data from a record or a 404, or an
\* exception of the interface, but for three.
Fits(m, named, ended, rec, a) ==
    \/ /\ a.kind = "data"
       /\ a.data \in IF m = "enrich" THEN EnrichmentResult ELSE VulnerabilityContext
       /\ \/ ended = "IntegrationNotFoundError"
          \/ ended = "ok" /\ rec.schemaOk
       /\ m = "enrich" => a.data = IF ended = "ok" THEN NormalizeIndicator(rec)
                                   ELSE UnknownIndicator
    \/ /\ a.kind = "raised"
       /\ \/ a.exception = IF m = "enrich" THEN "EnrichmentUnavailableError"
                           ELSE "VulnerabilityContextUnavailableError"
          \/ a.exception \in Escaped /\ ended = a.exception
          \/ /\ a.exception = "ValidationError"
             /\ m = "get_context"
             /\ IF ended = "ok" THEN ~InContract(rec)
                ELSE ended = "IntegrationNotFoundError" /\ ~named

\* What a provider makes of a call that ended in "ok" or in an error.
LEMMA AnswerType ==
    ASSUME NEW m \in {"enrich", "get_context"}, NEW named \in BOOLEAN,
           NEW ended \in {"ok"} \cup Escaped \cup ErrorClass,
           NEW rec \in IF ended = "ok" THEN Records(m) ELSE {NoRecord}
    PROVE  Fits(m, named, ended, rec, AnswerTo(m, named, ended, rec))
<1> USE DEF Fits
<1>1. LookupOutcome(ended, rec) \in {"ok"} \cup Escaped \cup ErrorClass
  BY DEF LookupOutcome, ErrorClass
<1>2. /\ LookupOutcome(ended, rec) = "ok" => ended = "ok" /\ rec.schemaOk
      /\ LookupOutcome(ended, rec) \in Escaped => ended = LookupOutcome(ended, rec)
      /\ LookupOutcome(ended, rec) = "IntegrationNotFoundError" =>
            ended = "IntegrationNotFoundError"
  <2>1. CASE ended = "ok"
    <3>1. rec.schemaOk \in BOOLEAN
      BY <2>1, RecordsAssumption
      DEF Records, ThreatIntelVendorResponse, AssetIntelVendorResponse
    <3> QED
      BY <2>1, <3>1 DEF LookupOutcome, Escaped
  <2> QED
    BY <2>1 DEF LookupOutcome
<1>3. ended = "ok" => rec \in IF m = "enrich" THEN ThreatIntelVendorResponse
                              ELSE AssetIntelVendorResponse
  BY RecordsAssumption DEF Records
<1>4. CASE m = "enrich"
  <2>1. ended = "ok" => NormalizeIndicator(rec) \in EnrichmentResult
    BY <1>3, <1>4
    DEF NormalizeIndicator, EnrichmentResult, Reputation, Confidence, ThreatIntelVendorResponse
  <2>2. UnknownIndicator \in EnrichmentResult
    BY DEF UnknownIndicator, EnrichmentResult, Reputation, Confidence
  <2>3. CASE LookupOutcome(ended, rec) = "IntegrationNotFoundError"
    BY <1>2, <1>4, <2>2, <2>3 DEF AnswerTo, Enrich, Data
  <2>4. CASE LookupOutcome(ended, rec) = "ok"
    BY <1>2, <1>4, <2>1, <2>4 DEF AnswerTo, Enrich, Data, Handled, ErrorClass
  <2>5. CASE LookupOutcome(ended, rec) \notin {"IntegrationNotFoundError", "ok"}
    BY <1>1, <1>2, <1>4, <2>5 DEF AnswerTo, Enrich, Raises, Handled
  <2> QED
    BY <2>3, <2>4, <2>5
<1>5. CASE m = "get_context"
  <2>1. ended = "ok" /\ InContract(rec) => NormalizeAsset(rec) \in VulnerabilityContext
    BY <1>3, <1>5
    DEF NormalizeAsset, VulnerabilityContext, AssetCriticality, AssetIntelVendorResponse,
        InContract
  <2>2. UnknownAsset \in VulnerabilityContext
    BY DEF UnknownAsset, VulnerabilityContext, AssetCriticality
  <2>3. CASE LookupOutcome(ended, rec) = "IntegrationNotFoundError"
    <3>1. CASE named
      BY <1>2, <1>5, <2>2, <2>3, <3>1 DEF AnswerTo, GetContext, Data
    <3>2. CASE ~named
      BY <1>2, <1>5, <2>3, <3>2 DEF AnswerTo, GetContext, Raises
    <3> QED
      BY <3>1, <3>2
  <2>4. CASE LookupOutcome(ended, rec) = "ok"
    BY <1>2, <1>5, <2>1, <2>4 DEF AnswerTo, GetContext, Data, Raises, Handled, ErrorClass
  <2>5. CASE LookupOutcome(ended, rec) \notin {"IntegrationNotFoundError", "ok"}
    BY <1>1, <1>2, <1>5, <2>5 DEF AnswerTo, GetContext, Raises, Handled
  <2> QED
    BY <2>3, <2>4, <2>5
<1> QED
  BY <1>4, <1>5

-------------------------------------------------------------------------------
(***************************************************************************)
(* The invariant.                                                          *)
(***************************************************************************)

\* What holds of the calls when the providers have done nothing yet.
LEMMA InitiallyInv == LookupInit => IndInv
<1> SUFFICES ASSUME LookupInit PROVE IndInv
  OBVIOUS
<1>1. ClientInv
  BY InitiallyClientInv DEF LookupInit
<1>2. Typed /\ \A c \in Calls : AnswerTells(c)
  BY DEF LookupInit, ClientInit, Typed, AnswerTells
<1> QED
  BY <1>1, <1>2 DEF IndInv

\* The call is made, or its next attempt sent: the methods do nothing.
LEMMA SendingKeeps ==
    ASSUME IndInv, NEW c \in Calls, Lookup(c) \/ LookupAgain(c)
    PROVE  IndInv'
<1>1. ClientInv'
  BY SendKeeps, ResendKeeps DEF IndInv, Lookup, LookupAgain
<1>2. UNCHANGED <<method, asked, record, answer, result>>
  BY DEF Lookup, LookupAgain, Send, Resend
<1>3. \A d \in Calls : phase'[d] = "ended" <=> phase[d] = "ended"
  BY DEF IndInv, ClientInv, TypeOK, Lookup, LookupAgain, Send, Resend
<1> QED
  BY <1>1, <1>2, <1>3 DEF IndInv, Typed, AnswerTells

\* A reply comes: if it ends the call, the method answers its caller.
LEMMA ReceiveKeeps ==
    ASSUME IndInv, NEW c \in Calls, NEW reply \in Replies, Receive(c, reply)
    PROVE  IndInv'
<1>1. ClientInv' /\ UNCHANGED <<method, asked>>
  BY HandleKeeps DEF IndInv, Receive
<1>2. \A d \in Calls \ {c} : phase'[d] = phase[d] /\ result'[d] = result[d]
  BY DEF Receive, Handle, Sleep, End, IndInv, ClientInv, TypeOK
<1>3. phase[c] = "sent" /\ answer[c] = NoAnswer
  BY DEF Receive, Handle, IndInv, AnswerTells
<1>4. CASE phase'[c] # "ended"
  <2>1. UNCHANGED <<record, answer>>
    BY <1>4 DEF Receive
  <2>2. AnswerTells(c)'
    BY <1>3, <1>4, <2>1 DEF AnswerTells
  <2>3. \A d \in Calls \ {c} : AnswerTells(d)'
    BY <1>1, <1>2, <2>1 DEF IndInv, AnswerTells
  <2> QED
    BY <1>1, <2>1, <2>2, <2>3 DEF IndInv, Typed
<1>5. CASE phase'[c] = "ended"
  <2>1. PICK rec \in IF result'[c] = "ok" THEN Records(method[c]) ELSE {NoRecord} :
               record' = [record EXCEPT ![c] = rec] /\ Answer(c, result'[c], rec)
    BY <1>5 DEF Receive
  <2>2. rec \in Indicators \cup Assets \cup {NoRecord}
    BY DEF Records
  <2>3. answer' = [answer EXCEPT ![c] = AnswerTo(method[c], asked[c], result'[c], rec)]
    BY <2>1 DEF Answer, AnswerTo
  <2>4. Typed'
    BY <1>1, <2>1, <2>2, <2>3 DEF IndInv, Typed
  <2>5. record'[c] = rec /\ answer'[c] = AnswerTo(method[c], asked[c], result'[c], rec)
    BY <2>1, <2>3 DEF IndInv, Typed
  <2>6. AnswerTells(c)'
    BY <1>1, <1>5, <2>5 DEF AnswerTells
  <2>7. \A d \in Calls \ {c} : record'[d] = record[d] /\ answer'[d] = answer[d]
    BY <2>1, <2>3 DEF IndInv, Typed
  <2>8. \A d \in Calls \ {c} : AnswerTells(d)'
    BY <1>1, <1>2, <2>7 DEF IndInv, AnswerTells
  <2> QED
    BY <1>1, <2>4, <2>6, <2>8 DEF IndInv
<1> QED
  BY <1>4, <1>5

\* Every step keeps the invariant.
LEMMA EveryStepKeeps == IndInv /\ [LookupNext]_lookupVars => IndInv'
<1> SUFFICES ASSUME IndInv, [LookupNext]_lookupVars PROVE IndInv'
  OBVIOUS
<1>1. CASE UNCHANGED lookupVars
  <2>1. ClientInv'
    BY <1>1, ClientStutterKeeps DEF IndInv, lookupVars
  <2> QED
    BY <1>1, <2>1 DEF lookupVars, clientVars, IndInv, Typed, AnswerTells
<1> QED
  BY <1>1, SendingKeeps, ReceiveKeeps DEF LookupNext

\* What a call has met and what it told its caller fit together, however many calls
\* there are (base.py:231-282, threat_intel.py:225-239, asset_intel.py:369-383).
THEOREM Invariance == LookupSpec => []IndInv
  BY InitiallyInv, EveryStepKeeps, PTL DEF LookupSpec

\* The two methods leave the client as it is: a lookup is a get() with its retries,
\* and what the method makes of its end (base.py:177-202).
THEOREM LookupsUseTheClient == LookupSpec => ClientSpec
<1>1. LookupInit => ClientInit
  BY DEF LookupInit
<1>2. [LookupNext]_lookupVars => [ClientNext]_clientVars
  BY DEF LookupNext, Lookup, Receive, LookupAgain, lookupVars, ClientNext
<1> QED
  BY <1>1, <1>2, PTL DEF LookupSpec, ClientSpec

-------------------------------------------------------------------------------
(***************************************************************************)
(* What follows.                                                           *)
(***************************************************************************)

\* What a call that has answered its caller has met, and what it said.
LEMMA AnsweredCall ==
    ASSUME IndInv, NEW c \in Calls, answer[c] # NoAnswer
    PROVE  /\ last[c] \in Reply
           /\ result[c] = "ValueError" => HeaderOf(last[c]).form = "nan"
           /\ result[c] = "SendError" => last[c].kind = "unsent"
           /\ result[c] # "ValueError" => result[c] = Outcome(last[c])
           /\ record[c] \in IF result[c] = "ok" THEN Records(method[c]) ELSE {NoRecord}
           /\ Fits(method[c], asked[c], result[c], record[c], answer[c])
<1>1. phase[c] = "ended" /\ AnswerTells(c) /\ CallEndTells(c)
  BY DEF IndInv, ClientInv, AnswerTells
<1>2. last[c] \in Reply /\ method[c] \in {"enrich", "get_context"} /\ asked[c] \in BOOLEAN
  BY <1>1, RepliesAssumption DEF CallEndTells, IndInv, Typed
<1>3. result[c] \in {"ok"} \cup Escaped \cup ErrorClass
  BY <1>1 DEF CallEndTells
<1>4. record[c] \in IF result[c] = "ok" THEN Records(method[c]) ELSE {NoRecord}
  BY <1>1 DEF AnswerTells
<1>5. answer[c] = AnswerTo(method[c], asked[c], result[c], record[c])
  BY <1>1 DEF AnswerTells
<1>6. Fits(method[c], asked[c], result[c], record[c],
          AnswerTo(method[c], asked[c], result[c], record[c]))
  BY <1>2, <1>3, <1>4, AnswerType
<1>7. Outcome(last[c]) = "SendError" => last[c].kind = "unsent"
  BY DEF Outcome
<1> QED
  BY <1>1, <1>2, <1>4, <1>5, <1>6, <1>7 DEF CallEndTells

\* The state of the calls and of the providers keeps its types (LookupTypeOK): what
\* a provider answers fits the model its caller expects.
THEOREM LookupTypeCorrect == LookupSpec => []LookupTypeOK
<1>1. IndInv => LookupTypeOK
  <2> SUFFICES ASSUME IndInv, NEW c \in Calls, answer[c] # NoAnswer
               PROVE  \/ answer[c].kind = "raised"
                      \/ /\ answer[c].kind = "data"
                         /\ answer[c].data \in IF method[c] = "enrich" THEN EnrichmentResult
                                               ELSE VulnerabilityContext
    BY DEF IndInv, ClientInv, Typed, LookupTypeOK
  <2> QED
    BY AnsweredCall DEF Fits
<1> QED
  BY <1>1, Invariance, PTL

\* No provider can make a call wait beyond the caps (WaitIsBounded), however many
\* attempts the policy allows.
THEOREM WaitingIsBounded == LookupSpec => []WaitIsBounded
  BY LookupsUseTheClient, ClientWaitsBounded

\* The error reported is that of the last reply, and a transient one means that all
\* attempts were made (ErrorIsTheLastReplys).
THEOREM LastReplyDecides == LookupSpec => []ErrorIsTheLastReplys
  BY LookupsUseTheClient, ClientReportsTheLast

\* A call is sent again only after a transient failure (OnlyTransientIsRetried).
THEOREM RetriesAreSafe == LookupSpec => OnlyTransientIsRetried
  BY LookupsUseTheClient, ClientRetriesSafely

\* No failure reads as evidence (AnswerIsEarned).
THEOREM EvidenceIsEarned == LookupSpec => []AnswerIsEarned
<1>1. ASSUME IndInv, NEW c \in Calls, answer[c].kind = "data"
      PROVE  /\ last[c].kind = "response"
             /\ last[c].status = 404 \/ (last[c].status < 400 /\ record[c].schemaOk)
             /\ method[c] = "enrich" =>
                   (TriageAlert("LOW", <<answer[c].data>>, TRUE).decision = "LOW_RISK" =>
                       last[c].status = 404 \/ record[c].verdict \in {"benign", "other"})
  <2>1. answer[c] # NoAnswer
    BY <1>1 DEF NoAnswer
  <2>2. /\ last[c] \in Reply
        /\ result[c] # "ValueError" => result[c] = Outcome(last[c])
    BY <1>1, <2>1, AnsweredCall DEF Fits
  <2>3. \/ result[c] = "IntegrationNotFoundError"
        \/ result[c] = "ok" /\ record[c].schemaOk
    BY <1>1, <2>1, AnsweredCall DEF Fits
  <2>4. CASE result[c] = "IntegrationNotFoundError"
    <3>1. last[c].kind = "response" /\ last[c].status = 404
      BY <2>2, <2>4 DEF Outcome, Reply
    <3> QED
      BY <3>1
  <2>5. CASE result[c] = "ok" /\ record[c].schemaOk
    <3>1. last[c].kind = "response" /\ last[c].status < 400
      BY <2>2, <2>5 DEF Outcome, Reply
    <3>2. ASSUME method[c] = "enrich",
                 TriageAlert("LOW", <<answer[c].data>>, TRUE).decision = "LOW_RISK"
          PROVE  record[c].verdict \in {"benign", "other"}
      <4>1. answer[c].data = NormalizeIndicator(record[c])
        BY <1>1, <2>1, <2>5, <3>2, AnsweredCall DEF Fits
      <4>2. record[c] \in ThreatIntelVendorResponse
        BY <1>1, <2>1, <2>5, <3>2, AnsweredCall, RecordsAssumption DEF Fits, Records
      <4>3. answer[c].data.reputation # "malicious"
        BY <3>2 DEF TriageAlert, LowRiskEvidence, Reputations
      <4> QED
        BY <4>1, <4>2, <4>3 DEF NormalizeIndicator, ThreatIntelVendorResponse
    <3> QED
      BY <2>5, <3>1, <3>2
  <2> QED
    BY <2>3, <2>4, <2>5
<1>2. IndInv => AnswerIsEarned
  BY <1>1 DEF AnswerIsEarned
<1> QED
  BY <1>2, Invariance, PTL

\* Every failure is translated, but for the three that escape
\* (EveryFailureIsTranslated).
THEOREM FailuresAreTranslated == LookupSpec => []EveryFailureIsTranslated
<1>1. IndInv => EveryFailureIsTranslated
  <2> SUFFICES ASSUME IndInv, NEW c \in Calls, answer[c].kind = "raised"
               PROVE  \/ answer[c].exception = IF method[c] = "enrich"
                             THEN "EnrichmentUnavailableError"
                             ELSE "VulnerabilityContextUnavailableError"
                      \/ /\ answer[c].exception = "ValueError"
                         /\ HeaderOf(last[c]).form = "nan"
                      \/ answer[c].exception = "SendError" /\ last[c].kind = "unsent"
                      \/ /\ answer[c].exception = "ValidationError"
                         /\ method[c] = "get_context"
                         /\ IF result[c] = "ok" THEN ~InContract(record[c])
                            ELSE last[c].status = 404 /\ ~asked[c]
    BY DEF EveryFailureIsTranslated
  <2>1. answer[c] # NoAnswer
    BY DEF NoAnswer
  <2>2. result[c] = "IntegrationNotFoundError" => last[c].status = 404
    <3>1. Outcome(last[c]) = "IntegrationNotFoundError" => last[c].status = 404
      BY DEF Outcome
    <3> QED
      BY <2>1, <3>1, AnsweredCall
  <2> QED
    BY <2>1, <2>2, AnsweredCall DEF Fits, Escaped
<1> QED
  BY <1>1, Invariance, PTL
===============================================================================
