SPECIFICATION Spec
CONSTANTS
    Known <- Catalogue
    Computed = {"computed.uptime_seconds", "computed.total_connections"}
    MibOf <- Mibs
    Volatile = {"kern.ostype", "vm.loadavg"}
    Lens = {4, 8}
    LevelBase = 128
    Nil = Nil
    MaxChanges = 4
INVARIANTS
    ValidationExact
    SummaryAccounts
    FlatExact
CHECK_DEADLOCK FALSE
