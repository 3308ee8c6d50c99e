SPECIFICATION Spec
CONSTANTS
    Known <- TwoKnown
    Unknown <- OneUnknown
    Startup <- ColdStart
    Workers = {w1, w2, w3}
    Main = Main
    Nil = Nil
INVARIANTS
    ByNameCorrect
CHECK_DEADLOCK FALSE
