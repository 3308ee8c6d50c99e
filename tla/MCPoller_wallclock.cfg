SPECIFICATION Spec
CONSTANTS
    N = 4
    Pattern <- SchedPattern
    Ttl <- SchedTtl
    NoTtl = NoTtl
    DefaultTtl = 3
    Interval = 2
    Slack = 1
    MaxSkew = 2
    Clients = {}
    Requests <- OneReq
    MaxTime = 12
INVARIANTS
    RefreshedAtTtl
