SPECIFICATION Spec
CONSTANTS
    N = 4
    Pattern <- ServePattern
    Ttl <- ServeTtl
    NoTtl = NoTtl
    DefaultTtl = 3
    Interval = 2
    Slack = 1
    MaxSkew = 0
    Clients = {c1}
    Requests <- ServeReqs
    MaxTime = 6
INVARIANTS
    TypeOK
    ResponseCoherent
    LiveIsLive
PROPERTIES
    StaticFrozen
    QuietAfterStop
