SPECIFICATION CSpec
CONSTANTS
    Known <- Catalogue
    writableTunables <- Tunables
    OsVersion = "24.6.0"
    OsVersions = {"", "24.6.0", "25.0.0"}
    EditTtls = {0, 40}
    Stray = "kern.gone"
    MaxEdits = 2
    Editable = {1, 51}
    Nil = Nil
    Flags <- CommandLines
    Unreadable = {"kern.gone", "vm.pages"}
INVARIANTS
    ValidatorExact
    GeneratedIsComplete
    MergeFaithful
    CategoriesPartition
    AllShowsAll
PROPERTIES
    ClientEnds
