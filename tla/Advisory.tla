------------------------------- MODULE Advisory -------------------------------
(***************************************************************************)
(* What the alert workflow promises, seen from outside: every alert gets   *)
(* one decision, made from the evidence alone; then the advice of the AI   *)
(* assistant, or its absence, is attached and the alert is closed.  Advice *)
(* never touches the decision, and an alert is closed without review only  *)
(* on advice that is confident and does not contradict the decision.       *)
(***************************************************************************)
EXTENDS Triage

CONSTANTS Alerts,
          NoAdvice

VARIABLES
    decision,   \* decision[a]: the decision on alert a, or "none"
    advice,     \* advice[a]: the advice attached to a, or NoAdvice
    outcome     \* outcome[a]: "open", "review", "no_review" or "refused"

vars == <<decision, advice, outcome>>

Advice == [risk : AIRiskAssessment, confidence : AIConfidence]

TypeOK ==
    /\ decision \in [Alerts -> TriageDecision \cup {"none"}]
    /\ advice \in [Alerts -> Advice \cup {NoAdvice}]
    /\ outcome \in [Alerts -> {"open", "review", "no_review", "refused"}]

Init ==
    /\ decision = [a \in Alerts |-> "none"]
    /\ advice = [a \in Alerts |-> NoAdvice]
    /\ outcome = [a \in Alerts |-> "open"]

Trusted(d, adv) ==
    /\ adv # NoAdvice
    /\ adv.confidence # "LOW"
    /\ ~AIConflictsWithTriage(d, adv.risk)

\* The alert is refused before anything is decided about it.
Refuse(a) ==
    /\ outcome[a] = "open"
    /\ decision[a] = "none"
    /\ outcome' = [outcome EXCEPT ![a] = "refused"]
    /\ UNCHANGED <<decision, advice>>

Decide(a) ==
    /\ outcome[a] = "open"
    /\ decision[a] = "none"
    /\ \E d \in TriageDecision : decision' = [decision EXCEPT ![a] = d]
    /\ UNCHANGED <<advice, outcome>>

CloseWith(a, d, adv) ==
    /\ advice' = [advice EXCEPT ![a] = adv]
    /\ outcome' = [outcome EXCEPT ![a] = IF Trusted(d, adv) THEN "no_review" ELSE "review"]

Close(a) ==
    /\ outcome[a] = "open"
    /\ decision[a] # "none"
    /\ \E adv \in Advice \cup {NoAdvice} : CloseWith(a, decision[a], adv)
    /\ UNCHANGED decision

\* An assistant that answers at once: decided and closed in one step.
DecideAndClose(a) ==
    /\ outcome[a] = "open"
    /\ decision[a] = "none"
    /\ \E d \in TriageDecision, adv \in Advice \cup {NoAdvice} :
          /\ decision' = [decision EXCEPT ![a] = d]
          /\ CloseWith(a, d, adv)

Next == \E a \in Alerts : Refuse(a) \/ Decide(a) \/ Close(a) \/ DecideAndClose(a)

Spec == Init /\ [][Next]_vars
===============================================================================
