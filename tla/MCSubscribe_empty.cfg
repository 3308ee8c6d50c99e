SPECIFICATION Spec
CONSTANTS
    Metrics <- TwoMetrics
    Computed = {"c"}
    Unknown = {"u"}
    Values = {"e", "x"}
    Empty = "e"
    Unreadable = "bad"
    Requests <- ReqOne
    IntervalNs = {0, 49, 50}
    Ttls <- SomeTtls
    Window = 1
INVARIANTS
    FirstIsFull
