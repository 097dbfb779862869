\* The same deployments, for what docs/operations.md says of readiness.
SPECIFICATION Spec
CONSTANTS
    k1 = k1
    NoKey = NoKey
    Keys = {k1}
    DefaultTimeout = 8
    DefaultRetries = 2
    DefaultAlertLimit = 2
    DefaultWebhookLimit = 2
    Environments <- MCEnvironments
    Requests <- MCRequests
    NoLength = NoLength
    NoApp = NoApp
    NoRequest = NoRequest
    NoTriage = NoTriage
INVARIANT HealthyMeansAvailable
