-------------------------- MODULE MCIntegrationClient --------------------------
(***************************************************************************)
(* One call of the client against a provider that may reply anything: one  *)
(* status of every class the client tells apart, and its neighbours.       *)
(***************************************************************************)
EXTENDS IntegrationClient

CONSTANT c1

Seconds(n) == [form |-> "number", seconds |-> n]

Headers == {[form |-> f, seconds |-> 0] : f \in {"absent", "text", "negative", "nan"}}
           \cup {Seconds(0), Seconds(2), Seconds(9)}

Plain == {200, 201, 204, 304, 400, 401, 403, 404, 408, 500, 501, 505}

MCReplies ==
    {Response(s, b, NoRetryAfter) : s \in Plain, b \in {"object", "other", "not_json"}}
    \cup {Response(s, "not_json", h) : s \in RETRYABLE_STATUS_CODES, h \in Headers}
    \cup {NoResponse(k) : k \in {"timeout", "connection", "http_error", "unsent"}}
===============================================================================
