\* One lookup, every kind of reply and record, three attempts as by default.
SPECIFICATION FairLookupSpec
CONSTANTS
    c1 = c1
    Calls = {c1}
    MaxAttempts = 3
    BackoffBase = 1
    BackoffMax = 3
    MaxRetryAfter = 4
    Replies <- MCReplies
    Indicators <- MCIndicators
    Assets <- MCAssets
INVARIANTS
    LookupTypeOK
    WaitIsBounded
    ErrorIsTheLastReplys
    AnswerIsEarned
    EveryFailureIsTranslated
PROPERTIES
    OnlyTransientIsRetried
    EveryCallEnds
