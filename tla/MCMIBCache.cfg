SPECIFICATION Spec
SYMMETRY ReaderSymmetry
CONSTANTS
    Names <- TwoNames
    Mib <- TwoMibs
    Procs = {p1, p2}
    Main = Main
    WarmNames <- WarmSome
    Widths = {1}
    AnyWidth = AnyWidth
    Lens = {0, 1, 2}
    MaxVersion = 2
    NoMib = NoMib
INVARIANTS
    MibOfName
    EnomemMeansGrown
    WarmCounts
PROPERTIES
    CacheMonotone
    ImplementsKernelRead
