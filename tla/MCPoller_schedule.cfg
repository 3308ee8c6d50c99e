SPECIFICATION Spec
CONSTANTS
    N = 4
    Pattern <- SchedPattern
    Ttl <- SchedTtl
    NoTtl = NoTtl
    DefaultTtl = 4
    Interval = 1
    Slack = 1
    MaxSkew = 1
    Clients = {}
    Requests <- OneReq
    MaxTime = 10
INVARIANTS
    PollerInvariant
    BoundedStaleness
    CohortAtomic
PROPERTIES
    StoreNeverRegresses
    NoOverPolling
