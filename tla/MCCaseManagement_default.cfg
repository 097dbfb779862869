\* Two calls for one alert, neither of which passes a key.
SPECIFICATION CaseSpec
CONSTANTS
    c1 = c1
    c2 = c2
    c3 = c3
    alert = alert
    Alerts = {alert}
    Calls = {c1, c2}
    Keyed = {}
    AlertOf <- ForOneAlert
    MaxAttempts = 2
    BackoffBase = 1
    BackoffMax = 1
    MaxRetryAfter = 1
    Replies <- MCReplies
INVARIANT OneCasePerAlert
