----------------------------- MODULE CaseRegistry -----------------------------
(***************************************************************************)
(* What creating a case promises its callers: calls that stand for the     *)
(* same request share one case, however often the request is sent, and a   *)
(* call is answered with the case of its own request or told that case     *)
(* management is unavailable.  A call may be told so although its case     *)
(* exists or comes to exist later.                                         *)
(***************************************************************************)
EXTENDS Naturals

CONSTANTS Calls, Requests,
          RequestOf(_)     \* the request a call stands for

NoCase == 0

VARIABLES
    registry,   \* registry[r]: the case of request r, or NoCase
    answer      \* answer[c]: "pending", "failed", or "case" with its number

vars == <<registry, answer>>

Pending == [kind |-> "pending"]

Failed == [kind |-> "failed"]

Case(n) == [kind |-> "case", number |-> n]

Init ==
    /\ registry = [r \in Requests |-> NoCase]
    /\ answer = [c \in Calls |-> Pending]

\* A case number is never given twice.
Register(r) ==
    /\ registry[r] = NoCase
    /\ registry'[r] \in Nat \ {NoCase}
    /\ \A s \in Requests : registry[s] # registry'[r]
    /\ registry' = [registry EXCEPT ![r] = registry'[r]]
    /\ UNCHANGED answer

Answer(c) ==
    /\ answer[c] = Pending
    /\ registry[RequestOf(c)] # NoCase
    /\ answer' = [answer EXCEPT ![c] = Case(registry[RequestOf(c)])]
    /\ UNCHANGED registry

Fail(c) ==
    /\ answer[c] = Pending
    /\ answer' = [answer EXCEPT ![c] = Failed]
    /\ UNCHANGED registry

Next ==
    \/ \E r \in Requests : Register(r)
    \/ \E c \in Calls : Answer(c) \/ Fail(c)

Spec == Init /\ [][Next]_vars
===============================================================================
