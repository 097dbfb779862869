\* Three connections; a timeout of two units, lookups of one unit in all.
SPECIFICATION FairSpec
CONSTANTS
    r1 = r1
    r2 = r2
    r3 = r3
    Requests = {r1, r2, r3}
    NoRequest = NoRequest
    AiTimeout = 2
    Lookups = 2
    LookupTime = 1
    NoAnswer = NoAnswer
INVARIANTS
    TypeOK
    LatenessIsBounded
    AnswerKeptUnlessHeld
    NoWakeUpIsLost
PROPERTIES
    EveryRequestServed
