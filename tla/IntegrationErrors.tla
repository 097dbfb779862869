--------------------------- MODULE IntegrationErrors ---------------------------
(***************************************************************************)
(* The classes of app/integrations/errors.py.  Every one of them is an     *)
(* IntegrationError; a call of the client may end in other exceptions too, *)
(* and a handler that names IntegrationError does not catch those.         *)
(***************************************************************************)

ErrorClass ==
    {"IntegrationTimeoutError", "IntegrationUnexpectedError", "IntegrationAuthError",
     "IntegrationNotFoundError", "IntegrationRateLimitedError", "IntegrationServerError",
     "IntegrationValidationError"}

\* What leaves the client all the same: the ValueError of a sleep for nan seconds,
\* and whatever the send raises that is no httpx.HTTPError ("SendError").
Escaped == {"ValueError", "SendError"}
===============================================================================
