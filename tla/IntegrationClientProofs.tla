------------------------- MODULE IntegrationClientProofs -------------------------
(***************************************************************************)
(* Proofs about IntegrationClient, for any number of calls at once, any    *)
(* retry policy and any replies.  Whatever implements the client inherits  *)
(* them: VendorLookupProofs and CaseManagementProofs.                      *)
(***************************************************************************)
EXTENDS IntegrationClient, TLAPS

-------------------------------------------------------------------------------
\* The larger of the two caps.
Cap == IF BackoffMax >= MaxRetryAfter THEN BackoffMax ELSE MaxRetryAfter

\* Where a call stands tells what is known of it.
CallTells(c) ==
    /\ phase[c] = "idle" <=> attempt[c] = 0
    /\ phase[c] = "idle" => waited[c] = 0
    /\ phase[c] = "sleeping" => attempt[c] < MaxAttempts /\ Transient(last[c])
    /\ phase[c] # "ended" => result[c] = "none"

\* An ended call has its result from its last reply.
CallEndTells(c) ==
    phase[c] = "ended" =>
        /\ last[c] \in Replies
        /\ result[c] \in {"ok"} \cup Escaped \cup ErrorClass
        /\ result[c] = "ValueError" => HeaderOf(last[c]).form = "nan"
        /\ result[c] # "ValueError" =>
              /\ result[c] = Outcome(last[c])
              /\ Transient(last[c]) => attempt[c] = MaxAttempts

\* The part of the bound on waiting that one call has.
CallWaits(c) ==
    waited[c] <= Cap * (IF phase[c] = "sleeping" \/ phase[c] = "idle"
                          THEN attempt[c] ELSE attempt[c] - 1)

ClientInv ==
    /\ TypeOK
    /\ \A c \in Calls : CallTells(c) /\ CallEndTells(c) /\ CallWaits(c)

-------------------------------------------------------------------------------
(***************************************************************************)
(* What the operators return.                                              *)
(***************************************************************************)

\* No delay the client chooses exceeds the larger cap.
LEMMA DelayIsCapped ==
    ASSUME NEW n \in Nat, NEW reply \in Replies,
           NEW delay \in ComputeDelay(n, HeaderOf(reply))
    PROVE  delay \in Nat /\ delay <= Cap
<1>1. HeaderOf(reply) \in RetryAfter
  BY RepliesAssumption DEF HeaderOf, Reply, NoRetryAfter, RetryAfter
<1>2. CASE ParseRetryAfter(HeaderOf(reply)).form = "number"
  <2>1. HeaderOf(reply).seconds \in Nat
    BY <1>1 DEF RetryAfter
  <2>2. delay = Least(HeaderOf(reply).seconds, MaxRetryAfter)
    BY <1>2 DEF ComputeDelay
  <2> QED
    BY <2>1, <2>2, PolicyAssumption DEF Least, Cap
<1>3. CASE ParseRetryAfter(HeaderOf(reply)).form # "number"
  <2>1. delay \in 0 .. BackoffMax
    BY <1>3 DEF ComputeDelay
  <2> QED
    BY <2>1, PolicyAssumption DEF Cap
<1> QED
  BY <1>2, <1>3

\* A reply ends the call in "ok", in an error of the client or in one of the send.
LEMMA OutcomeType ==
    ASSUME NEW reply
    PROVE  Outcome(reply) \in {"ok", "SendError"} \cup ErrorClass
  BY DEF Outcome, ErrorClass

LEMMA CapNat == Cap \in Nat
  BY PolicyAssumption DEF Cap

-------------------------------------------------------------------------------
(***************************************************************************)
(* The invariant.                                                          *)
(***************************************************************************)
LEMMA InitiallyClientInv == ClientInit => ClientInv
<1> SUFFICES ASSUME ClientInit PROVE ClientInv
  OBVIOUS
<1>1. TypeOK
  BY PolicyAssumption DEF ClientInit, TypeOK
<1>2. ASSUME NEW c \in Calls PROVE CallTells(c) /\ CallEndTells(c) /\ CallWaits(c)
  <2>1. phase[c] = "idle" /\ attempt[c] = 0 /\ waited[c] = 0 /\ result[c] = "none"
    BY DEF ClientInit
  <2> QED
    BY <2>1, CapNat DEF CallTells, CallEndTells, CallWaits
<1> QED
  BY <1>1, <1>2 DEF ClientInv

\* A call that a step leaves alone stays as it was.
SameCall(c) ==
    /\ phase'[c] = phase[c]
    /\ attempt'[c] = attempt[c]
    /\ waited'[c] = waited[c]
    /\ last'[c] = last[c]
    /\ result'[c] = result[c]

LEMMA SameCallKeeps ==
    ASSUME NEW c \in Calls, ClientInv, SameCall(c)
    PROVE  CallTells(c)' /\ CallEndTells(c)' /\ CallWaits(c)'
  BY DEF ClientInv, SameCall, CallTells, CallEndTells, CallWaits

\* The call is made.
LEMMA SendKeeps ==
    ASSUME ClientInv, NEW c \in Calls, Send(c)
    PROVE  ClientInv'
<1> USE DEF Send
<1>1. TypeOK'
  BY PolicyAssumption DEF ClientInv, TypeOK
<1>2. CallTells(c)' /\ CallEndTells(c)' /\ CallWaits(c)'
  <2>1. phase'[c] = "sent" /\ attempt'[c] = 1 /\ waited'[c] = 0
    BY DEF ClientInv, TypeOK, CallTells
  <2> QED
    BY <2>1, CapNat DEF ClientInv, CallTells, CallEndTells, CallWaits
<1>3. ASSUME NEW d \in Calls, d # c PROVE SameCall(d)
  BY <1>3 DEF SameCall, ClientInv, TypeOK
<1> QED
  BY <1>1, <1>2, <1>3, SameCallKeeps DEF ClientInv

\* The next attempt is sent.
LEMMA ResendKeeps ==
    ASSUME ClientInv, NEW c \in Calls, Resend(c)
    PROVE  ClientInv'
<1> USE DEF Resend
<1>0. attempt[c] \in Nat /\ attempt[c] < MaxAttempts
  BY PolicyAssumption DEF ClientInv, TypeOK, CallTells
<1>1. TypeOK'
  BY <1>0, PolicyAssumption DEF ClientInv, TypeOK
<1>2. CallTells(c)' /\ CallEndTells(c)' /\ CallWaits(c)'
  <2>1. phase'[c] = "sent" /\ attempt'[c] = attempt[c] + 1 /\ waited'[c] = waited[c]
    BY DEF ClientInv, TypeOK
  <2>2. waited[c] <= Cap * attempt[c]
    BY DEF ClientInv, CallWaits
  <2>3. attempt'[c] - 1 = attempt[c] /\ attempt'[c] # 0
    BY <1>0, <2>1
  <2>4. CallWaits(c)'
    BY <2>1, <2>2, <2>3 DEF CallWaits, Cap
  <2> QED
    BY <2>1, <2>3, <2>4 DEF ClientInv, CallTells, CallEndTells
<1>3. ASSUME NEW d \in Calls, d # c PROVE SameCall(d)
  BY <1>3 DEF SameCall, ClientInv, TypeOK
<1> QED
  BY <1>1, <1>2, <1>3, SameCallKeeps DEF ClientInv

\* A reply to be retried is not the end of the call; any other is.
LEMMA HandleKeeps ==
    ASSUME ClientInv, NEW c \in Calls, NEW reply \in Replies, Handle(c, reply)
    PROVE  ClientInv'
<1>0. /\ phase[c] = "sent" /\ attempt[c] \in Nat \ {0} /\ attempt[c] <= MaxAttempts
      /\ waited[c] \in Nat /\ waited[c] <= Cap * (attempt[c] - 1)
      /\ result[c] = "none"
  BY PolicyAssumption DEF ClientInv, TypeOK, CallTells, CallWaits, Handle
<1>1. last' = [last EXCEPT ![c] = reply] /\ UNCHANGED attempt
  BY DEF Handle
<1>2. ASSUME NEW d \in Calls, d # c PROVE SameCall(d)
  BY <1>1, <1>2 DEF Handle, Sleep, End, SameCall, ClientInv, TypeOK
<1>3. CASE /\ Retries(c, reply)
           /\ \E delay \in ComputeDelay(attempt[c], HeaderOf(reply)) : Sleep(c, delay)
  <2>1. PICK delay \in ComputeDelay(attempt[c], HeaderOf(reply)) : Sleep(c, delay)
    BY <1>3
  <2>2. delay \in Nat /\ delay <= Cap
    BY <1>0, DelayIsCapped
  <2>3. /\ phase' = [phase EXCEPT ![c] = "sleeping"]
        /\ waited' = [waited EXCEPT ![c] = @ + delay]
        /\ UNCHANGED result
    BY <2>1 DEF Sleep
  <2>4. TypeOK'
    BY <1>0, <1>1, <2>2, <2>3 DEF ClientInv, TypeOK
  <2>5. /\ phase'[c] = "sleeping" /\ attempt'[c] = attempt[c] /\ last'[c] = reply
        /\ result'[c] = "none" /\ waited'[c] = waited[c] + delay
    BY <1>0, <1>1, <2>3 DEF ClientInv, TypeOK
  <2>6. CallWaits(c)'
    <3>1. Cap * attempt[c] = Cap * (attempt[c] - 1) + Cap
      BY <1>0, CapNat
    <3>2. Cap * (attempt[c] - 1) \in Int
      BY <1>0, CapNat
    <3>3. waited[c] + delay <= Cap * attempt[c]
      BY <1>0, <2>2, <3>1, <3>2, CapNat
    <3> QED
      BY <2>5, <3>3 DEF CallWaits, Cap
  <2>7. CallTells(c)' /\ CallEndTells(c)'
    BY <1>0, <1>3, <2>5 DEF CallTells, CallEndTells, Retries, Transient
  <2> QED
    BY <1>2, <2>4, <2>6, <2>7, SameCallKeeps DEF ClientInv
<1>4. CASE \E r \in {"ok"} \cup Escaped \cup ErrorClass :
             /\ End(c, r)
             /\ r = "ValueError" => HeaderOf(reply).form = "nan"
             /\ r # "ValueError" =>
                   /\ r = Outcome(reply)
                   /\ Transient(reply) => attempt[c] = MaxAttempts
  <2>1. PICK r \in {"ok"} \cup Escaped \cup ErrorClass :
               /\ End(c, r)
               /\ r = "ValueError" => HeaderOf(reply).form = "nan"
               /\ r # "ValueError" =>
                     /\ r = Outcome(reply)
                     /\ Transient(reply) => attempt[c] = MaxAttempts
    BY <1>4
  <2>2. /\ phase' = [phase EXCEPT ![c] = "ended"]
        /\ result' = [result EXCEPT ![c] = r]
        /\ UNCHANGED waited
    BY <2>1 DEF End
  <2>3. TypeOK'
    BY <1>1, <2>2 DEF ClientInv, TypeOK
  <2>4. /\ phase'[c] = "ended" /\ result'[c] = r /\ last'[c] = reply
        /\ attempt'[c] = attempt[c] /\ waited'[c] = waited[c]
    BY <1>1, <2>2 DEF ClientInv, TypeOK
  <2>5. CallWaits(c)'
    BY <1>0, <2>4 DEF CallWaits, Cap
  <2>6. CallTells(c)'
    BY <1>0, <2>4 DEF CallTells
  <2>7. CallEndTells(c)'
    BY <2>1, <2>4 DEF CallEndTells
  <2> QED
    BY <1>2, <2>3, <2>5, <2>6, <2>7, SameCallKeeps DEF ClientInv
<1>5. CASE /\ Retries(c, reply)
           /\ ParseRetryAfter(HeaderOf(reply)).form = "nan"
           /\ End(c, "ValueError")
  <2>1. HeaderOf(reply).form = "nan" /\ "ValueError" \in Escaped
    BY <1>5 DEF ParseRetryAfter, NoRetryAfter, Escaped
  <2> QED
    BY <1>4, <1>5, <2>1
<1>6. CASE ~Retries(c, reply) /\ End(c, Outcome(reply))
  <2>1. Transient(reply) => attempt[c] = MaxAttempts
    BY <1>0, <1>6, PolicyAssumption DEF Retries
  <2>2. /\ Outcome(reply) \in {"ok"} \cup Escaped \cup ErrorClass
        /\ Outcome(reply) # "ValueError"
    BY OutcomeType DEF ErrorClass, Escaped
  <2> QED
    BY <1>4, <1>6, <2>1, <2>2
<1> QED
  BY <1>3, <1>5, <1>6 DEF Handle

LEMMA ClientStutterKeeps == ClientInv /\ UNCHANGED clientVars => ClientInv'
  BY DEF ClientInv, clientVars, TypeOK, CallTells, CallEndTells, CallWaits

LEMMA ClientStepKeeps == ClientInv /\ [ClientNext]_clientVars => ClientInv'
  BY SendKeeps, HandleKeeps, ResendKeeps, ClientStutterKeeps DEF ClientNext

\* What a call has met, how often it has tried and how long it has waited fit
\* together, however many calls there are (base.py:231-282).
THEOREM ClientInvariance == ClientSpec => []ClientInv
  BY InitiallyClientInv, ClientStepKeeps, PTL DEF ClientSpec

-------------------------------------------------------------------------------
(***************************************************************************)
(* What follows.                                                           *)
(***************************************************************************)

\* No provider can make a call wait beyond the caps (WaitIsBounded), however many
\* attempts the policy allows.
THEOREM ClientWaitsBounded == ClientSpec => []WaitIsBounded
<1>1. ClientInv => WaitIsBounded
  BY DEF ClientInv, CallWaits, WaitIsBounded, Cap
<1> QED
  BY <1>1, ClientInvariance, PTL

\* The error reported is that of the last reply, and a transient one means that all
\* attempts were made (ErrorIsTheLastReplys).
THEOREM ClientReportsTheLast == ClientSpec => []ErrorIsTheLastReplys
<1>1. ClientInv => ErrorIsTheLastReplys
  BY DEF ClientInv, CallEndTells, ErrorIsTheLastReplys
<1> QED
  BY <1>1, ClientInvariance, PTL

\* A call is sent again only after a transient failure (OnlyTransientIsRetried).
THEOREM ClientRetriesSafely == ClientSpec => OnlyTransientIsRetried
<1>1. ASSUME ClientInv, [ClientNext]_clientVars, NEW c \in Calls,
             attempt[c] > 0, attempt'[c] # attempt[c]
      PROVE  Transient(last[c]) /\ result[c] = "none"
  <2>1. PICK d \in Calls : Send(d) \/ Resend(d)
    BY <1>1 DEF ClientNext, Handle, clientVars
  <2>2. CASE Resend(d)
    BY <1>1, <2>2 DEF Resend, ClientInv, TypeOK, CallTells
  <2>3. CASE Send(d)
    BY <1>1, <2>3 DEF Send, ClientInv, TypeOK, CallTells
  <2> QED
    BY <2>1, <2>2, <2>3
<1>2. ClientInv /\ [ClientNext]_clientVars =>
        [\A c \in Calls : attempt[c] > 0 /\ attempt'[c] # attempt[c] =>
           Transient(last[c]) /\ result[c] = "none"]_clientVars
  BY <1>1
<1> QED
  BY <1>2, ClientInvariance, PTL DEF ClientSpec, OnlyTransientIsRetried

\* How many steps a call may still take: an attempt and a sleep take one each.
ToGo(c) == IF phase[c] = "ended" THEN 0
           ELSE 2 * (MaxAttempts - attempt[c]) + (IF phase[c] = "sent" THEN 1 ELSE 0)

\* One call comes nearer to its end, and leaves the others where they are.
OneComesNearer ==
    \E c \in Calls :
        /\ ToGo(c) \in Nat
        /\ ToGo(c)' \in 0 .. ToGo(c) - 1
        /\ \A d \in Calls \ {c} : ToGo(d)' = ToGo(d)

\* Every step of the client brings a call nearer to its end, whatever the provider
\* replies: none can be kept going, and each ends within twice as many steps as it
\* has attempts (base.py:236-282).
THEOREM EveryStepNearsAnEnd == ClientSpec => [][OneComesNearer]_clientVars
<1>1. ClientInv /\ [ClientNext]_clientVars => [OneComesNearer]_clientVars
  <2> SUFFICES ASSUME ClientInv, ClientNext, ~(UNCHANGED clientVars)
               PROVE  OneComesNearer
    OBVIOUS
  <2>1. ASSUME NEW c \in Calls
        PROVE  /\ attempt[c] \in 0 .. MaxAttempts /\ MaxAttempts \in Nat \ {0}
               /\ phase[c] = "idle" => attempt[c] = 0
               /\ phase[c] = "sleeping" => attempt[c] < MaxAttempts
    BY PolicyAssumption DEF ClientInv, TypeOK, CallTells
  <2>2. ASSUME NEW c \in Calls, Send(c)
        PROVE  OneComesNearer
    <3>1. phase[c] = "idle" /\ phase'[c] = "sent" /\ attempt'[c] = 1
      BY <2>2 DEF Send, ClientInv, TypeOK
    <3>2. ToGo(c) \in Nat /\ ToGo(c)' \in 0 .. ToGo(c) - 1
      BY <2>1, <3>1 DEF ToGo
    <3>3. \A d \in Calls \ {c} : phase'[d] = phase[d] /\ attempt'[d] = attempt[d]
      BY <2>2 DEF Send, ClientInv, TypeOK
    <3> QED
      BY <3>2, <3>3 DEF OneComesNearer, ToGo
  <2>3. ASSUME NEW c \in Calls, NEW reply \in Replies, Handle(c, reply)
        PROVE  OneComesNearer
    <3>1. /\ phase[c] = "sent" /\ attempt'[c] = attempt[c]
          /\ \/ phase'[c] = "ended"
             \/ phase'[c] = "sleeping" /\ attempt[c] < MaxAttempts
      BY <2>3 DEF Handle, Sleep, End, Retries, ClientInv, TypeOK
    <3>2. ToGo(c) \in Nat /\ ToGo(c)' \in 0 .. ToGo(c) - 1
      BY <2>1, <3>1 DEF ToGo
    <3>3. \A d \in Calls \ {c} : phase'[d] = phase[d] /\ attempt'[d] = attempt[d]
      BY <2>3 DEF Handle, Sleep, End, ClientInv, TypeOK
    <3> QED
      BY <3>2, <3>3 DEF OneComesNearer, ToGo
  <2>4. ASSUME NEW c \in Calls, Resend(c)
        PROVE  OneComesNearer
    <3>1. phase[c] = "sleeping" /\ phase'[c] = "sent" /\ attempt'[c] = attempt[c] + 1
      BY <2>4 DEF Resend, ClientInv, TypeOK
    <3>2. ToGo(c) \in Nat /\ ToGo(c)' \in 0 .. ToGo(c) - 1
      BY <2>1, <3>1 DEF ToGo
    <3>3. \A d \in Calls \ {c} : phase'[d] = phase[d] /\ attempt'[d] = attempt[d]
      BY <2>4 DEF Resend, ClientInv, TypeOK
    <3> QED
      BY <3>2, <3>3 DEF OneComesNearer, ToGo
  <2> QED
    BY <2>2, <2>3, <2>4 DEF ClientNext
<1> QED
  BY <1>1, ClientInvariance, PTL DEF ClientSpec
===============================================================================
