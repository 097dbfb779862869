\* An operator who edits the environment and restarts, and a vendor that revokes
\* the key; body limits of two units by default.
SPECIFICATION Spec
CONSTANTS
    k1 = k1
    NoKey = NoKey
    Keys = {k1}
    DefaultTimeout = 8
    DefaultRetries = 2
    DefaultAlertLimit = 2
    DefaultWebhookLimit = 2
    Environments <- MCEnvironments
    Requests <- MCRequests
    NoLength = NoLength
    NoApp = NoApp
    NoRequest = NoRequest
    NoTriage = NoTriage
INVARIANTS
    TypeOK
    NoMockInDisguise
    MisconfiguredNeverLowRisk
    DegradedMeansNoAdvice
    DemoShowsWhatItSays
