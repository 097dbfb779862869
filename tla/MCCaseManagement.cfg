\* Two calls with the alert's key and one without, all for one alert.
SPECIFICATION CaseSpec
CONSTANTS
    c1 = c1
    c2 = c2
    c3 = c3
    alert = alert
    Alerts = {alert}
    Calls = {c1, c2, c3}
    Keyed = {c1, c2}
    AlertOf <- ForOneAlert
    MaxAttempts = 2
    BackoffBase = 1
    BackoffMax = 1
    MaxRetryAfter = 1
    Replies <- MCReplies
INVARIANTS
    CaseTypeOK
    OneCasePerRequest
    AnswerIsTheRequestsCase
PROPERTIES
    CallersSeeOneRegistry
SYMMETRY Twins
VIEW WithoutRecords
