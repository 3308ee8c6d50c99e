SPECIFICATION RSpec
CONSTANTS
    Known <- AllKnown
    Unknown <- AllUnknown
    Startup <- StartReads
    Workers = {"w1", "w2"}
    Main = "main"
    Nil = Nil
    Base = 2
    TypeOf <- TypeRows
    Asks <- AskAll
    Kernels <- TwoKernels
    Moves <- SomeMoves
    Steps <- ClockSteps
    PerSec = 2
    Gone = Gone
    MaxChanges = 2
INVARIANTS
    AnswerHeld
    PercentSane
    UptimeTrue
PROPERTIES
    IndexFrozen
