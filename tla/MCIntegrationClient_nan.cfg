\* The same replies, for what the docstring of get() says of every failure.
SPECIFICATION ClientSpec
CONSTANTS
    c1 = c1
    Calls = {c1}
    MaxAttempts = 3
    BackoffBase = 1
    BackoffMax = 3
    MaxRetryAfter = 4
    Replies <- MCReplies
INVARIANT EveryFailureIsAnIntegrationError
