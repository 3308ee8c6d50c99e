SPECIFICATION Spec
CONSTANTS
    Polled = {p1, p2}
    Other = {q}
    Values = {v1, v2}
    Missing = Missing
    Readers = {r1, r2}
INVARIANTS
    LockDiscipline
PROPERTIES
    ImplementsAtomicStore
    StopReturns
    BatchPublished
    GetReturns
