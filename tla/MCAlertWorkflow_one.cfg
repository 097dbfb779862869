\* One alert with every payload, answer and output that matters.
SPECIFICATION Spec
CONSTANTS
    a1 = a1
    a2 = a2
    None = None
    Absent = None
    Alerts = {a1}
    NoAlert = NoAlert
    NoTriage = NoTriage
    NoAnalysis = NoAnalysis
    NoAdvice = NoAdvice
    Values <- MCValues
    Payloads <- OneAlertPayloads
    Verdicts <- AllVerdicts
    LiveOutputs <- MCLiveOutputs
INVARIANTS
    TypeOK
    EvidenceAllOrNothing
    LowRiskIsEarned
    HistoryTellsTheOutcome
    MockMirrorsTriage
    DenylistCostsOnlyTheAdvice
PROPERTIES
    EvidenceNeverSoftens
    AdviceNeverDecides
