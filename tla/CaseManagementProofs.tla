-------------------------- MODULE CaseManagementProofs --------------------------
(***************************************************************************)
(* Proofs about CaseManagement, for any number of calls, with and without  *)
(* keys of their own, any retry policy, and any replies and losses.        *)
(***************************************************************************)
EXTENDS CaseManagement, IntegrationClientProofs, SequenceTheorems

-------------------------------------------------------------------------------
\* Where a call stands tells what its caller has been given.
PhaseTells(c) ==
    /\ phase[c] = "sleeping" => attempt[c] < MaxAttempts
    /\ phase[c] # "ended" => result[c] = "none" /\ answer[c] = Pending
    /\ phase[c] = "ended" => result[c] # "none" /\ answer[c] # Pending

\* Case n of the vendor's cases cs is the one of the request that c stands for.
OwnCase(cs, c, n) == n \in 1 .. Len(cs) /\ cs[n].key = RequestOf(c)

\* A key on its way, or stored, is that of the request its call stands for.
KeysTell ==
    /\ \A m \in requests : m.key = RequestOf(m.call)
    /\ \A i \in 1 .. Len(cases) : cases[i].key = RequestOf(cases[i].call)

\* A key is stored exactly when its case exists.
StoreTells ==
    /\ \A k \in Keys : seen[k] # NoCase =>
          seen[k] \in 1 .. Len(cases) /\ cases[seen[k]].key = k
    /\ \A i \in 1 .. Len(cases) : seen[cases[i].key] = i

InboxTells == \A c \in Calls : inbox[c].case # NoCase => OwnCase(cases, c, inbox[c].case)

AnswersTell == \A c \in Calls : answer[c].kind = "case" => OwnCase(cases, c, answer[c].number)

IndInv ==
    /\ CaseTypeOK
    /\ \A c \in Calls : PhaseTells(c)
    /\ KeysTell
    /\ StoreTells
    /\ InboxTells
    /\ AnswersTell

-------------------------------------------------------------------------------
(***************************************************************************)
(* The client.                                                             *)
(***************************************************************************)
LEMMA KeyOfRequest ==
    ASSUME NEW c \in Calls, NEW n
    PROVE  /\ IdempotencyKey(c, n) = RequestOf(c)
           /\ RequestOf(c) \in Keys
  BY CallersAssumption, PolicyAssumption DEF IdempotencyKey, RequestOf, Keys

\* A reply ends a call or puts it to sleep, and leaves the other calls alone.
LEMMA HandleTells ==
    ASSUME TypeOK, NEW c \in Calls, NEW reply \in Replies, Handle(c, reply)
    PROVE  /\ TypeOK'
           /\ phase[c] = "sent" /\ attempt' = attempt
           /\ \/ /\ phase'[c] = "sleeping" /\ attempt[c] < MaxAttempts
                 /\ result'[c] = result[c]
              \/ phase'[c] = "ended" /\ result'[c] # "none"
           /\ \A d \in Calls \ {c} : phase'[d] = phase[d] /\ result'[d] = result[d]
<1> USE DEF Handle
<1>1. last' \in [Calls -> Replies \cup {NoReply}] /\ attempt' = attempt
  BY DEF TypeOK
<1>2. CASE \E delay \in ComputeDelay(attempt[c], HeaderOf(reply)) :
              Retries(c, reply) /\ Sleep(c, delay)
  <2>1. PICK delay \in ComputeDelay(attempt[c], HeaderOf(reply)) :
               Retries(c, reply) /\ Sleep(c, delay)
    BY <1>2
  <2>2. delay \in Nat
    <3>1. attempt[c] \in Nat
      BY PolicyAssumption DEF TypeOK
    <3> QED
      BY <3>1, DelayIsCapped
  <2>3. waited' \in [Calls -> Nat]
    BY <2>1, <2>2 DEF Sleep, TypeOK
  <2>4. attempt[c] < MaxAttempts
    BY <2>1 DEF Retries
  <2> QED
    BY <1>1, <2>1, <2>3, <2>4 DEF Sleep, TypeOK
<1>3. CASE \E r \in {"ValueError", Outcome(reply)} : End(c, r)
  <2>1. /\ Outcome(reply) \in {"ok"} \cup Escaped \cup ErrorClass
        /\ "none" \notin {"ok"} \cup Escaped \cup ErrorClass
    BY OutcomeType DEF ErrorClass, Escaped
  <2>2. PICK r \in {"ok"} \cup Escaped \cup ErrorClass : End(c, r) /\ r # "none"
    BY <1>3, <2>1 DEF Escaped
  <2> QED
    BY <1>1, <2>2 DEF End, TypeOK
<1> QED
  BY <1>2, <1>3

-------------------------------------------------------------------------------
(***************************************************************************)
(* Preservation.                                                           *)
(***************************************************************************)
LEMMA InitiallyInv == CaseInit => IndInv
<1> SUFFICES ASSUME CaseInit PROVE IndInv
  OBVIOUS
<1>1. CaseTypeOK
  <2>1. TypeOK
    BY PolicyAssumption DEF CaseInit, ClientInit, TypeOK
  <2> QED
    BY <2>1 DEF CaseInit, CaseTypeOK, Nothing, NoCase
<1>2. \A c \in Calls : PhaseTells(c)
  BY DEF CaseInit, ClientInit, PhaseTells
<1>3. KeysTell /\ StoreTells /\ InboxTells /\ AnswersTell
  BY DEF CaseInit, KeysTell, StoreTells, InboxTells, AnswersTell, Nothing, Pending
<1> QED
  BY <1>1, <1>2, <1>3 DEF IndInv

\* A request is on its way with the key of its call.
LEMMA RequestType ==
    ASSUME NEW c \in Calls, NEW n \in 1 .. MaxAttempts
    PROVE  RequestFor(c, n) \in Request /\ RequestFor(c, n).key = RequestOf(RequestFor(c, n).call)
  BY KeyOfRequest DEF RequestFor, Request

LEMMA CreateCaseKeeps ==
    ASSUME IndInv, NEW c \in Calls, CreateCase(c)
    PROVE  IndInv'
<1> USE DEF CreateCase, Send
<1>1. 1 \in 1 .. MaxAttempts
  BY PolicyAssumption
<1>2. CaseTypeOK'
  <2>1. TypeOK'
    BY <1>1 DEF IndInv, CaseTypeOK, TypeOK
  <2> QED
    BY <1>1, <2>1, RequestType DEF IndInv, CaseTypeOK
<1>3. \A d \in Calls : PhaseTells(d)'
  BY DEF IndInv, CaseTypeOK, TypeOK, PhaseTells
<1>4. KeysTell'
  BY <1>1, RequestType DEF IndInv, KeysTell
<1>5. StoreTells' /\ InboxTells' /\ AnswersTell'
  BY DEF IndInv, StoreTells, InboxTells, AnswersTell, OwnCase
<1> QED
  BY <1>2, <1>3, <1>4, <1>5 DEF IndInv

LEMMA RetryKeeps ==
    ASSUME IndInv, NEW c \in Calls, Retry(c)
    PROVE  IndInv'
<1> USE DEF Retry, Resend
<1>1. attempt[c] + 1 \in 1 .. MaxAttempts
  BY PolicyAssumption DEF IndInv, CaseTypeOK, TypeOK, PhaseTells
<1>2. CaseTypeOK'
  <2>1. TypeOK'
    BY <1>1 DEF IndInv, CaseTypeOK, TypeOK
  <2> QED
    BY <1>1, <2>1, RequestType DEF IndInv, CaseTypeOK
<1>3. \A d \in Calls : PhaseTells(d)'
  BY DEF IndInv, CaseTypeOK, TypeOK, PhaseTells
<1>4. KeysTell'
  BY <1>1, RequestType DEF IndInv, KeysTell
<1>5. StoreTells' /\ InboxTells' /\ AnswersTell'
  BY DEF IndInv, StoreTells, InboxTells, AnswersTell, OwnCase
<1> QED
  BY <1>2, <1>3, <1>4, <1>5 DEF IndInv

\* What a caller may be given at the end of its call.
LEMMA GivenAnswers ==
    ASSUME NEW r, NEW n, NEW given \in AnswersOf(r, n)
    PROVE  /\ given \in {Pending, Unavailable, Crashed, Case(n)}
           /\ given = Pending <=> r = "none"
           /\ given.kind = "case" => n # NoCase /\ given = Case(n)
  BY DEF AnswersOf, Pending, Unavailable, Crashed, Case

\* A call handles a reply with case n, and its caller is told if that ends it.
LEMMA AnswerKeeps ==
    ASSUME IndInv, NEW c \in Calls, NEW reply \in Replies, NEW n,
           Handle(c, reply), Conclude(c, n), n # NoCase => OwnCase(cases, c, n),
           inbox' = [inbox EXCEPT ![c] = Nothing], requests' \subseteq requests,
           UNCHANGED <<seen, cases>>
    PROVE  IndInv'
<1>1. /\ TypeOK' /\ phase[c] = "sent" /\ attempt' = attempt
      /\ \/ /\ phase'[c] = "sleeping" /\ attempt[c] < MaxAttempts
            /\ result'[c] = result[c]
         \/ phase'[c] = "ended" /\ result'[c] # "none"
      /\ \A d \in Calls \ {c} : phase'[d] = phase[d] /\ result'[d] = result[d]
  BY HandleTells DEF IndInv, CaseTypeOK
<1>2. result[c] = "none"
  BY <1>1 DEF IndInv, PhaseTells
<1>3. PICK given \in AnswersOf(result'[c], n) : answer' = [answer EXCEPT ![c] = given]
  BY DEF Conclude
<1>4. /\ answer'[c] = given
      /\ \A d \in Calls \ {c} : answer'[d] = answer[d]
  BY <1>3 DEF IndInv, CaseTypeOK
<1>5. /\ given \in {Pending, Unavailable, Crashed, Case(n)}
      /\ given = Pending <=> result'[c] = "none"
      /\ given.kind = "case" => n # NoCase /\ given = Case(n)
  BY GivenAnswers
<1>6. n # NoCase => n \in Nat
  BY DEF OwnCase
<1>7. CaseTypeOK'
  <2>1. given \in {Pending, Unavailable, Crashed} \cup [kind : {"case"}, number : Nat]
    <3>1. given = Case(n) => given.kind = "case"
      BY DEF Case
    <3> QED
      BY <1>5, <1>6, <3>1 DEF Case, NoCase
  <2>2. Nothing \in [reply : Replies \cup {NoReply}, case : Nat]
    BY DEF Nothing, NoCase
  <2> QED
    BY <1>1, <1>3, <2>1, <2>2 DEF IndInv, CaseTypeOK
<1>8. \A d \in Calls : PhaseTells(d)'
  <2>1. PhaseTells(c)'
    BY <1>1, <1>2, <1>4, <1>5 DEF PhaseTells
  <2>2. ASSUME NEW d \in Calls \ {c} PROVE PhaseTells(d)'
    BY <1>1, <1>4 DEF IndInv, PhaseTells
  <2> QED
    BY <2>1, <2>2
<1>9. KeysTell' /\ StoreTells'
  BY DEF IndInv, KeysTell, StoreTells
<1>10. InboxTells'
  BY DEF IndInv, CaseTypeOK, InboxTells, OwnCase, Nothing
<1>11. AnswersTell'
  <2>1. answer'[c].kind = "case" => OwnCase(cases, c, answer'[c].number)
    BY <1>4, <1>5 DEF Case
  <2> QED
    BY <1>4, <2>1 DEF IndInv, AnswersTell, OwnCase
<1> QED
  BY <1>7, <1>8, <1>9, <1>10, <1>11 DEF IndInv

\* A response to m reaches the inbox of its call, or nothing does.
LEMMA DeliverKeeps ==
    ASSUME IndInv, NEW m \in requests, NEW reply \in Replies, NEW n \in Nat,
           Deliver(m, reply, n), n # NoCase => OwnCase(cases', m.call, n)
    PROVE  /\ inbox' \in [Calls -> [reply : Replies \cup {NoReply}, case : Nat]]
           /\ \A c \in Calls : inbox'[c].case # NoCase =>
                 inbox'[c].case = inbox[c].case \/ OwnCase(cases', c, inbox'[c].case)
<1>1. m.call \in Calls /\ [reply |-> reply, case |-> n] \in
                              [reply : Replies \cup {NoReply}, case : Nat]
  BY DEF IndInv, CaseTypeOK, Request
<1>2. inbox \in [Calls -> [reply : Replies \cup {NoReply}, case : Nat]]
  BY DEF IndInv, CaseTypeOK
<1>3. CASE inbox' = [inbox EXCEPT ![m.call] = [reply |-> reply, case |-> n]]
  BY <1>1, <1>2, <1>3
<1>4. CASE inbox' = inbox
  BY <1>2, <1>4
<1> QED
  BY <1>3, <1>4 DEF Deliver

LEMMA ServeKeeps ==
    ASSUME IndInv, NEW m \in requests, Serve(m)
    PROVE  IndInv'
<1> DEFINE known == Lookup(m.key)
           id    == IF known # NoCase THEN known ELSE Len(cases) + 1
<1>1. /\ requests' = requests \ {m}
      /\ IF known # NoCase
           THEN UNCHANGED <<seen, cases>>
           ELSE /\ cases' = Append(cases, [call |-> m.call, key |-> m.key])
                /\ seen' = [seen EXCEPT ![m.key] = id]
      /\ UNCHANGED <<clientVars, answer>>
  BY DEF Serve
<1>2. PICK reply \in Replies, case \in {id, NoCase} : Deliver(m, reply, case)
  BY DEF Serve
<1>3. /\ m.call \in Calls /\ m.key \in Keys /\ m.key = RequestOf(m.call)
      /\ Len(cases) \in Nat /\ known = seen[m.key] /\ known \in Nat
  BY DEF IndInv, CaseTypeOK, Request, KeysTell, Lookup
<1>4. /\ cases' \in Seq([call : Calls, key : Keys]) /\ seen' \in [Keys -> Nat]
      /\ Len(cases') >= Len(cases)
      /\ \A i \in 1 .. Len(cases) : i \in 1 .. Len(cases') /\ cases'[i] = cases[i]
  <2>1. cases \in Seq([call : Calls, key : Keys]) /\ seen \in [Keys -> Nat]
    BY DEF IndInv, CaseTypeOK
  <2>2. CASE known # NoCase
    BY <1>1, <1>3, <2>1, <2>2
  <2>3. CASE known = NoCase
    <3>1. cases' = Append(cases, [call |-> m.call, key |-> m.key])
      BY <1>1, <2>3
    <3>2. [call |-> m.call, key |-> m.key] \in [call : Calls, key : Keys]
      BY <1>3
    <3>3. seen' = [seen EXCEPT ![m.key] = Len(cases) + 1]
      BY <1>1, <2>3
    <3> QED
      BY <1>3, <2>1, <3>1, <3>2, <3>3
  <2> QED
    BY <2>2, <2>3
<1>5. KeysTell' /\ StoreTells' /\ OwnCase(cases', m.call, id)
  <2>1. CASE known # NoCase
    BY <1>1, <1>3, <2>1 DEF IndInv, KeysTell, StoreTells, OwnCase, RequestOf
  <2>2. CASE known = NoCase
    <3>1. /\ cases' = Append(cases, [call |-> m.call, key |-> m.key])
          /\ Len(cases') = Len(cases) + 1 /\ id = Len(cases) + 1
          /\ cases'[id].call = m.call /\ cases'[id].key = m.key
          /\ seen' = [seen EXCEPT ![m.key] = id]
      BY <1>1, <1>3, <2>2 DEF IndInv, CaseTypeOK
    <3> HIDE DEF known, id
    <3>2. KeysTell'
      BY <1>1, <1>3, <1>4, <3>1 DEF IndInv, KeysTell, RequestOf
    <3>3. \A i \in 1 .. Len(cases) : cases[i].key # m.key
      <4>1. \A i \in 1 .. Len(cases) : seen[cases[i].key] = i
        BY DEF IndInv, StoreTells
      <4>2. seen[m.key] = 0
        BY <1>3, <2>2 DEF NoCase
      <4> QED
        BY <1>3, <4>1, <4>2
    <3>4. \A k \in Keys : seen'[k] # NoCase =>
             seen'[k] \in 1 .. Len(cases') /\ cases'[seen'[k]].key = k
      BY <1>3, <1>4, <3>1 DEF IndInv, CaseTypeOK, StoreTells
    <3>5. \A i \in 1 .. Len(cases') : seen'[cases'[i].key] = i
      <4>1. \A i \in 1 .. Len(cases) : cases[i].key \in Keys
        <5>1. cases \in Seq([call : Calls, key : Keys])
          BY DEF IndInv, CaseTypeOK
        <5>2. \A i \in 1 .. Len(cases) : cases[i] \in [call : Calls, key : Keys]
          BY <5>1, ElementOfSeq
        <5> QED
          BY <5>2
      <4>2. seen'[cases'[id].key] = id
        BY <1>3, <3>1 DEF IndInv, CaseTypeOK
      <4>3. \A i \in 1 .. Len(cases) : seen'[cases'[i].key] = i
        BY <1>3, <1>4, <3>1, <3>3, <4>1 DEF IndInv, CaseTypeOK, StoreTells
      <4> QED
        BY <1>3, <3>1, <4>2, <4>3
    <3>6. OwnCase(cases', m.call, id)
      BY <1>3, <3>1 DEF OwnCase, RequestOf
    <3> QED
      BY <3>2, <3>4, <3>5, <3>6 DEF StoreTells
  <2> QED
    BY <2>1, <2>2
<1>6. case \in Nat /\ (case # NoCase => OwnCase(cases', m.call, case))
  BY <1>2, <1>3, <1>5 DEF NoCase
<1>7. \A c \in Calls : \A n : OwnCase(cases, c, n) => OwnCase(cases', c, n)
  BY <1>4 DEF OwnCase, RequestOf
<1>8. /\ inbox' \in [Calls -> [reply : Replies \cup {NoReply}, case : Nat]]
      /\ InboxTells'
  <2>1. /\ inbox' \in [Calls -> [reply : Replies \cup {NoReply}, case : Nat]]
        /\ \A c \in Calls : inbox'[c].case # NoCase =>
              inbox'[c].case = inbox[c].case \/ OwnCase(cases', c, inbox'[c].case)
    <3> HIDE DEF id
    <3> QED
      BY <1>2, <1>6, DeliverKeeps
  <2> QED
    BY <1>7, <2>1 DEF IndInv, InboxTells
<1>9. CaseTypeOK'
  <2>1. TypeOK'
    BY <1>1 DEF IndInv, CaseTypeOK, TypeOK, clientVars
  <2> QED
    BY <1>1, <1>4, <1>8, <2>1 DEF IndInv, CaseTypeOK
<1>10. (\A c \in Calls : PhaseTells(c)') /\ AnswersTell'
  BY <1>1, <1>7 DEF IndInv, PhaseTells, AnswersTell, clientVars
<1> QED
  BY <1>5, <1>8, <1>9, <1>10 DEF IndInv

\* A request is refused or lost.
LEMMA DropKeeps ==
    ASSUME IndInv, NEW m \in requests, Reject(m) \/ Lose(m)
    PROVE  IndInv'
<1>1. /\ requests' = requests \ {m}
      /\ UNCHANGED <<clientVars, seen, cases, answer>>
      /\ UNCHANGED inbox \/ \E reply \in Replies : Deliver(m, reply, NoCase)
  BY DEF Reject, Lose
<1>2. /\ inbox' \in [Calls -> [reply : Replies \cup {NoReply}, case : Nat]]
      /\ \A c \in Calls : inbox'[c].case # NoCase =>
            inbox'[c].case = inbox[c].case \/ OwnCase(cases', c, inbox'[c].case)
  BY <1>1, DeliverKeeps DEF NoCase, IndInv, CaseTypeOK
<1>3. CaseTypeOK'
  BY <1>1, <1>2 DEF IndInv, CaseTypeOK, TypeOK, clientVars
<1>4. InboxTells'
  BY <1>1, <1>2 DEF IndInv, InboxTells, OwnCase
<1> QED
  BY <1>1, <1>3, <1>4
     DEF IndInv, PhaseTells, KeysTell, StoreTells, AnswersTell, OwnCase, clientVars

LEMMA EveryStepKeeps == IndInv /\ [CaseNext]_caseVars => IndInv'
<1> SUFFICES ASSUME IndInv, [CaseNext]_caseVars PROVE IndInv'
  OBVIOUS
<1>1. ASSUME NEW c \in Calls, CreateCase(c) PROVE IndInv'
  BY <1>1, CreateCaseKeeps
<1>2. ASSUME NEW c \in Calls, Retry(c) PROVE IndInv'
  BY <1>2, RetryKeeps
<1>3. ASSUME NEW c \in Calls, ReceiveResponse(c) PROVE IndInv'
  <2>1. inbox[c].reply \in Replies
    <3>1. inbox[c] \in [reply : Replies \cup {NoReply}, case : Nat]
      BY DEF IndInv, CaseTypeOK
    <3> QED
      BY <1>3, <3>1 DEF ReceiveResponse
  <2>2. inbox[c].case # NoCase => OwnCase(cases, c, inbox[c].case)
    BY DEF IndInv, InboxTells
  <2> QED
    BY <1>3, <2>1, <2>2, AnswerKeeps DEF ReceiveResponse
<1>4. ASSUME NEW c \in Calls, AttemptFails(c) PROVE IndInv'
  <2>1. PICK reply \in Replies : Handle(c, reply)
    BY <1>4 DEF AttemptFails
  <2> QED
    BY <1>4, <2>1, AnswerKeeps DEF AttemptFails
<1>5. ASSUME NEW c \in Calls, SendRaises(c) PROVE IndInv'
  <2>1. PICK reply \in Replies : Handle(c, reply)
    BY <1>5 DEF SendRaises
  <2> QED
    BY <1>5, <2>1, AnswerKeeps DEF SendRaises
<1>6. ASSUME NEW m \in requests, Serve(m) PROVE IndInv'
  BY <1>6, ServeKeeps
<1>7. ASSUME NEW m \in requests, Reject(m) \/ Lose(m) PROVE IndInv'
  BY <1>7, DropKeeps
<1>8. CASE UNCHANGED caseVars
  BY <1>8 DEF IndInv, CaseTypeOK, TypeOK, PhaseTells, KeysTell, StoreTells, InboxTells,
              AnswersTell, OwnCase, caseVars, clientVars
<1> QED
  BY <1>1, <1>2, <1>3, <1>4, <1>5, <1>6, <1>7, <1>8 DEF CaseNext

-------------------------------------------------------------------------------
\* The inductive invariant: what keys, cases, answers and the vendor's store tell
\* of each other (incident_desk.py:65-166, base.py:204-282).
THEOREM Invariance == CaseSpec => []IndInv
<1>1. CaseInit => IndInv
  BY InitiallyInv
<1>2. IndInv /\ [CaseNext]_caseVars => IndInv'
  BY EveryStepKeeps
<1> QED
  BY <1>1, <1>2, PTL DEF CaseSpec

\* Calls, requests, responses and cases are always of their types
\* (incident_desk.py:65-166).
THEOREM CasesTypeCorrect == CaseSpec => []CaseTypeOK
<1>1. IndInv => CaseTypeOK
  BY DEF IndInv
<1> QED
  BY <1>1, Invariance, PTL

LEMMA OneCase == IndInv => OneCasePerRequest
<1> SUFFICES ASSUME IndInv, NEW i \in 1 .. Len(cases), NEW j \in 1 .. Len(cases),
                    RequestOf(cases[i].call) = RequestOf(cases[j].call)
             PROVE  i = j
  <2>1. DOMAIN cases = 1 .. Len(cases)
    BY DEF IndInv, CaseTypeOK
  <2> QED
    BY <2>1 DEF OneCasePerRequest
<1>1. cases[i].key = cases[j].key
  BY DEF IndInv, KeysTell
<1> QED
  BY <1>1 DEF IndInv, StoreTells

\* However often requests are retried, delayed, lost or made by several callers,
\* the vendor creates at most one case for each (base.py:204-229,
\* incident_desk.py:65-82).
THEOREM NoSecondCase == CaseSpec => []OneCasePerRequest
  BY OneCase, Invariance, PTL

\* A caller that is given a case is given the one of its own request
\* (incident_desk.py:155-166).
THEOREM CallersGetTheirCase == CaseSpec => []AnswerIsTheRequestsCase
<1>1. IndInv => AnswerIsTheRequestsCase
  <2> SUFFICES ASSUME IndInv, NEW c \in Calls, answer[c].kind = "case"
               PROVE  /\ answer[c].number \in DOMAIN cases
                      /\ RequestOf(cases[answer[c].number].call) = RequestOf(c)
    BY DEF AnswerIsTheRequestsCase
  <2>1. DOMAIN cases = 1 .. Len(cases)
    BY DEF IndInv, CaseTypeOK
  <2> QED
    BY <2>1 DEF IndInv, AnswersTell, OwnCase, KeysTell
<1> QED
  BY <1>1, Invariance, PTL

-------------------------------------------------------------------------------
(***************************************************************************)
(* The refinement of CaseRegistry.                                         *)
(***************************************************************************)

\* The registry that callers see, and what they are given, in CaseRegistry's terms.
CaseOf ==
    [r \in Requests |->
        IF Registered(r) = {} THEN NoCase ELSE CHOOSE i \in Registered(r) : TRUE]

Given ==
    [c \in Calls |->
        IF answer[c] \in {Unavailable, Crashed} THEN [kind |-> "failed"] ELSE answer[c]]

\* The registry is the vendor's store.
StoreIsRegistry ==
    /\ Requests \subseteq Keys
    /\ CaseOf = [r \in Requests |-> seen[r]]
    /\ \A r \in Requests : seen[r] \in 0 .. Len(cases)

LEMMA RegistryIsStore == IndInv => StoreIsRegistry
<1> SUFFICES ASSUME IndInv PROVE StoreIsRegistry
  OBVIOUS
<1>1. /\ cases \in Seq([call : Calls, key : Keys]) /\ seen \in [Keys -> Nat]
      /\ DOMAIN cases = 1 .. Len(cases)
  BY DEF IndInv, CaseTypeOK
<1>2. Requests \subseteq Keys
  BY KeyOfRequest DEF Requests
<1>3. ASSUME NEW r \in Requests
      PROVE  /\ seen[r] \in 0 .. Len(cases)
             /\ seen[r] = (IF Registered(r) = {} THEN NoCase
                           ELSE CHOOSE i \in Registered(r) : TRUE)
  <2>1. \A i \in 1 .. Len(cases) : RequestOf(cases[i].call) = r <=> cases[i].key = r
    BY DEF IndInv, KeysTell
  <2>2. CASE seen[r] = NoCase
    <3>1. \A i \in 1 .. Len(cases) : cases[i].key # r
      <4>1. \A i \in 1 .. Len(cases) : seen[cases[i].key] = i
        BY DEF IndInv, StoreTells
      <4> QED
        BY <1>1, <2>2, <4>1 DEF NoCase
    <3>2. Registered(r) = {}
      BY <1>1, <2>1, <3>1 DEF Registered
    <3> QED
      BY <1>1, <2>2, <3>2 DEF NoCase
  <2>3. CASE seen[r] # NoCase
    <3>1. seen[r] \in 1 .. Len(cases) /\ cases[seen[r]].key = r
      BY <1>2, <2>3 DEF IndInv, StoreTells
    <3>2. \A i \in 1 .. Len(cases) : cases[i].key = r => i = seen[r]
      BY DEF IndInv, StoreTells
    <3>3. Registered(r) = {seen[r]}
      BY <1>1, <2>1, <3>1, <3>2 DEF Registered
    <3> QED
      BY <3>1, <3>3
  <2> QED
    BY <2>2, <2>3
<1> QED
  BY <1>2, <1>3 DEF CaseOf, StoreIsRegistry

LEMMA InitRefines == CaseInit => Registry!Init
<1> SUFFICES ASSUME CaseInit PROVE Registry!Init
  OBVIOUS
<1>1. IndInv
  BY InitiallyInv
<1>2. CaseOf = [r \in Requests |-> NoCase]
  BY <1>1, RegistryIsStore DEF CaseInit, StoreIsRegistry
<1>3. Given = [c \in Calls |-> [kind |-> "pending"]]
  BY DEF CaseInit, Given, Pending, Unavailable, Crashed
<1> QED
  BY <1>2, <1>3 DEF Registry!Init, CaseOf, Given, Registry!Pending, Registry!NoCase, NoCase

\* A step that leaves the cases and the answers alone is not seen.
LEMMA StutterRefines ==
    ASSUME UNCHANGED <<cases, answer>>
    PROVE  UNCHANGED Registry!vars
<1>1. CaseOf' = CaseOf
  BY DEF CaseOf, Registered
<1>2. Given' = Given
  BY DEF Given
<1> QED
  BY <1>1, <1>2 DEF Registry!vars, CaseOf, Given

\* Serving a request registers it, unless its case exists.
LEMMA ServeRefines ==
    ASSUME IndInv, NEW m \in requests, Serve(m)
    PROVE  Registry!Next \/ UNCHANGED Registry!vars
<1> DEFINE r == m.key
<1>1. /\ r \in Requests /\ Len(cases) \in Nat /\ Lookup(r) = seen[r]
      /\ seen \in [Keys -> Nat]
  BY DEF IndInv, CaseTypeOK, Request, KeysTell, Requests, Lookup
<1>2. CASE seen[r] # NoCase
  <2>1. UNCHANGED <<cases, answer>>
    BY <1>1, <1>2 DEF Serve
  <2> QED
    BY <2>1, StutterRefines
<1>3. CASE seen[r] = NoCase
  <2>1. seen' = [seen EXCEPT ![r] = Len(cases) + 1] /\ answer' = answer
    BY <1>1, <1>3 DEF Serve
  <2>2. /\ Requests \subseteq Keys
        /\ CaseOf = [s \in Requests |-> seen[s]]
        /\ \A s \in Requests : seen[s] \in 0 .. Len(cases)
    BY RegistryIsStore DEF StoreIsRegistry
  <2>3. IndInv'
    BY ServeKeeps
  <2>4. CaseOf' = [s \in Requests |-> seen'[s]]
    <3>1. StoreIsRegistry'
      BY <2>3, RegistryIsStore, PTL
    <3> QED
      BY <3>1 DEF StoreIsRegistry, Requests, RequestOf
  <2> HIDE DEF r
  <2>5. /\ CaseOf[r] = 0
        /\ CaseOf'[r] = Len(cases) + 1
        /\ \A s \in Requests : CaseOf[s] # CaseOf'[r]
        /\ CaseOf' = [CaseOf EXCEPT ![r] = CaseOf'[r]]
    <3>1. CaseOf[r] = 0 /\ CaseOf'[r] = Len(cases) + 1
      BY <1>1, <1>3, <2>1, <2>2, <2>4 DEF NoCase
    <3>2. \A s \in Requests : CaseOf[s] # Len(cases) + 1
      BY <1>1, <2>2
    <3>3. \A s \in Requests \ {r} : CaseOf'[s] = CaseOf[s]
      BY <1>1, <2>1, <2>2, <2>4
    <3> QED
      BY <2>2, <2>4, <3>1, <3>2, <3>3
  <2>6. Given' = Given
    BY <2>1 DEF Given
  <2>7. Registry!Register(r)
    BY <1>1, <2>5, <2>6 DEF Registry!Register, CaseOf, Given, Registry!NoCase
  <2> QED
    BY <1>1, <2>7 DEF Registry!Next
<1> QED
  BY <1>2, <1>3

\* A call that ends is answered with the case of its request, or fails.
LEMMA AnswerRefines ==
    ASSUME IndInv, NEW c \in Calls, NEW reply \in Replies, NEW n,
           Handle(c, reply), Conclude(c, n), n # NoCase => OwnCase(cases, c, n),
           UNCHANGED <<seen, cases>>
    PROVE  Registry!Next \/ UNCHANGED Registry!vars
<1>1. answer \in [Calls -> {Pending, Unavailable, Crashed}
                            \cup [kind : {"case"}, number : Nat]]
  BY DEF IndInv, CaseTypeOK
<1>2. answer[c] = Pending
  BY DEF IndInv, PhaseTells, Handle
<1>3. CaseOf' = CaseOf
  BY DEF CaseOf, Registered
<1>4. Given[c] = [kind |-> "pending"]
  BY <1>2 DEF Given, Pending, Unavailable, Crashed
<1>5. PICK given \in AnswersOf(result'[c], n) : answer' = [answer EXCEPT ![c] = given]
  BY DEF Conclude
<1>6. answer'[c] = given /\ \A d \in Calls \ {c} : answer'[d] = answer[d]
  BY <1>1, <1>5
<1>7. ASSUME NEW a, Given'[c] = a PROVE Given' = [Given EXCEPT ![c] = a]
  BY <1>6, <1>7 DEF Given
<1>8. CASE given = Pending
  <2>1. answer' = answer
    BY <1>1, <1>2, <1>5, <1>8
  <2> QED
    BY <2>1, StutterRefines
<1>9. CASE given \in {Unavailable, Crashed}
  <2>1. Given'[c] = [kind |-> "failed"]
    BY <1>6, <1>9 DEF Given
  <2>2. Registry!Fail(c)
    BY <1>3, <1>4, <1>7, <2>1
       DEF Registry!Fail, Registry!Pending, Registry!Failed, CaseOf, Given
  <2> QED
    BY <2>2 DEF Registry!Next
<1>10. CASE given = Case(n) /\ n # NoCase
  <2>1. n \in 1 .. Len(cases) /\ cases[n].key = RequestOf(c)
    BY <1>10 DEF OwnCase
  <2>2. seen[RequestOf(c)] = n
    BY <2>1 DEF IndInv, StoreTells
  <2>3. CaseOf[RequestOf(c)] = n
    BY <2>2, RegistryIsStore DEF Requests, StoreIsRegistry
  <2>4. Given'[c] = [kind |-> "case", number |-> n]
    BY <1>6, <1>10 DEF Given, Case, Unavailable, Crashed
  <2>5. Registry!Answer(c)
    BY <1>3, <1>4, <1>10, <1>7, <2>3, <2>4
       DEF Registry!Answer, Registry!Pending, Registry!Case, Registry!NoCase, NoCase,
           CaseOf, Given
  <2> QED
    BY <2>5 DEF Registry!Next
<1> QED
  BY <1>8, <1>9, <1>10, GivenAnswers DEF Case

LEMMA StepRefines ==
    ASSUME IndInv, [CaseNext]_caseVars
    PROVE  Registry!Next \/ UNCHANGED Registry!vars
<1>1. ASSUME NEW c \in Calls, CreateCase(c) \/ Retry(c)
      PROVE  UNCHANGED <<cases, answer>>
  BY <1>1 DEF CreateCase, Retry
<1>2. ASSUME NEW c \in Calls, ReceiveResponse(c)
      PROVE  Registry!Next \/ UNCHANGED Registry!vars
  <2>1. inbox[c] \in [reply : Replies \cup {NoReply}, case : Nat]
    BY DEF IndInv, CaseTypeOK
  <2>2. inbox[c].reply \in Replies
    BY <1>2, <2>1 DEF ReceiveResponse
  <2>3. inbox[c].case # NoCase => OwnCase(cases, c, inbox[c].case)
    BY DEF IndInv, InboxTells
  <2> QED
    BY <1>2, <2>2, <2>3, AnswerRefines DEF ReceiveResponse
<1>3. ASSUME NEW c \in Calls, AttemptFails(c)
      PROVE  Registry!Next \/ UNCHANGED Registry!vars
  <2>1. PICK reply \in Replies : Handle(c, reply)
    BY <1>3 DEF AttemptFails
  <2> QED
    BY <1>3, <2>1, AnswerRefines DEF AttemptFails
<1>4. ASSUME NEW c \in Calls, SendRaises(c)
      PROVE  Registry!Next \/ UNCHANGED Registry!vars
  <2>1. PICK reply \in Replies : Handle(c, reply)
    BY <1>4 DEF SendRaises
  <2> QED
    BY <1>4, <2>1, AnswerRefines DEF SendRaises
<1>5. ASSUME NEW m \in requests, Serve(m)
      PROVE  Registry!Next \/ UNCHANGED Registry!vars
  BY <1>5, ServeRefines
<1>6. ASSUME NEW m \in requests, Reject(m) \/ Lose(m)
      PROVE  UNCHANGED <<cases, answer>>
  BY <1>6 DEF Reject, Lose
<1>7. CASE UNCHANGED caseVars
  BY <1>7, StutterRefines DEF caseVars
<1> QED
  BY <1>1, <1>2, <1>3, <1>4, <1>5, <1>6, <1>7, StutterRefines DEF CaseNext

\* The callers see one registry that knows each request once: IncidentDesk, its
\* client and the network implement CaseRegistry (incident_desk.py:65-166,
\* base.py:204-282).
THEOREM CallersSeeRegistry == CaseSpec => CallersSeeOneRegistry
<1>1. CaseInit => Registry!Init
  BY InitRefines
<1>2. IndInv /\ [CaseNext]_caseVars => [Registry!Next]_(Registry!vars)
  BY StepRefines
<1> QED
  BY <1>1, <1>2, Invariance, PTL DEF CaseSpec, CallersSeeOneRegistry, Registry!Spec

-------------------------------------------------------------------------------
\* Nothing that the adapter, the network or the vendor does interferes with the
\* client: a create_case is a post() with its retries, and nothing else
\* (incident_desk.py:139-166, base.py:204-229).
THEOREM CasesUseTheClient == CaseSpec => ClientSpec
<1>1. CaseInit => ClientInit
  BY DEF CaseInit
<1>2. IndInv /\ [CaseNext]_caseVars => [ClientNext]_clientVars
  <2> SUFFICES ASSUME IndInv, [CaseNext]_caseVars
               PROVE  ClientNext \/ UNCHANGED clientVars
    OBVIOUS
  <2>1. ASSUME NEW c \in Calls, CreateCase(c) \/ Retry(c)
        PROVE  ClientNext
    BY <2>1 DEF CreateCase, Retry, ClientNext
  <2>2. ASSUME NEW c \in Calls, ReceiveResponse(c)
        PROVE  ClientNext
    <3>1. inbox[c].reply \in Replies
      <4>1. inbox[c] \in [reply : Replies \cup {NoReply}, case : Nat]
        BY DEF IndInv, CaseTypeOK
      <4> QED
        BY <2>2, <4>1 DEF ReceiveResponse
    <3> QED
      BY <2>2, <3>1 DEF ReceiveResponse, ClientNext
  <2>3. ASSUME NEW c \in Calls, AttemptFails(c) \/ SendRaises(c)
        PROVE  ClientNext
    BY <2>3 DEF AttemptFails, SendRaises, ClientNext
  <2>4. ASSUME NEW m \in requests, Serve(m) \/ Reject(m) \/ Lose(m)
        PROVE  UNCHANGED clientVars
    BY <2>4 DEF Serve, Reject, Lose
  <2>5. CASE UNCHANGED caseVars
    BY <2>5 DEF caseVars
  <2> QED
    BY <2>1, <2>2, <2>3, <2>4, <2>5 DEF CaseNext
<1> QED
  BY <1>1, <1>2, Invariance, PTL DEF CaseSpec, ClientSpec

\* So a write waits no longer, reports no other error and is sent again no more
\* freely than the client's rules say: never after a success, nor after a failure
\* that is not transient (base.py:204-282).
THEOREM WritesKeepTheRules ==
    CaseSpec => [](WaitIsBounded /\ ErrorIsTheLastReplys) /\ OnlyTransientIsRetried
  BY CasesUseTheClient, ClientWaitsBounded, ClientReportsTheLast, ClientRetriesSafely, PTL
===============================================================================
