\* Two alerts whose coroutines, calls and timers overlap.
SPECIFICATION FairSpec
CONSTANTS
    a1 = a1
    a2 = a2
    None = None
    Absent = None
    Alerts = {a1, a2}
    NoAlert = NoAlert
    NoTriage = NoTriage
    NoAnalysis = NoAnalysis
    NoAdvice = NoAdvice
    Values <- MCValues
    Payloads <- TwoAlertPayloads
    Verdicts <- TwoAlertVerdicts
    LiveOutputs <- TwoAlertOutputs
INVARIANTS
    LoopIsGivenBack
PROPERTIES
    EveryAlertServed
