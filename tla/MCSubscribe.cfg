SPECIFICATION Spec
CONSTANTS
    Metrics <- TwoMetrics
    Computed = {"c"}
    Unknown = {"u"}
    Values = {"e", "x"}
    Empty = "e"
    Unreadable = "bad"
    Requests <- ReqMix
    IntervalNs <- Asked
    Ttls <- SomeTtls
    Window = 2
INVARIANTS
    TypeOK
    DeltasExact
    FirstAccounts
    ServerSurvives
PROPERTIES
    ImplementsSnapshots
    Converges
    CancelEnds
