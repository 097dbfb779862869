--------------------------- MODULE MCCaseManagement ---------------------------
(***************************************************************************)
(* Small instances of CaseManagement.                                      *)
(***************************************************************************)
EXTENDS CaseManagement, TLC

CONSTANTS c1, c2, c3, alert

\* Success, a transient failure, a permanent one, no response at all, no request.
MCReplies ==
    {Response(201, "object", NoRetryAfter), Response(503, "other", NoRetryAfter),
     Response(401, "object", NoRetryAfter)}
    \cup {NoResponse(k) : k \in {"timeout", "connection", "http_error", "unsent"}}

ForOneAlert == [c \in Calls |-> alert]

\* The two calls with a key differ in nothing but their names.
Twins == Permutations(Keyed)

\* waited and last record what happened and decide nothing.
WithoutRecords == <<phase, attempt, result, requests, inbox, seen, cases, answer>>
===============================================================================
