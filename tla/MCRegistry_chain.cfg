SPECIFICATION CSpec
CONSTANTS
    Known <- Catalogue
    writableTunables <- Tunables
    OsVersion = "24.6.0"
    OsVersions = {"24.6.0"}
    EditTtls = {}
    Stray = "kern.gone"
    MaxEdits = 0
    Editable = {}
    Nil = Nil
    Flags = {}
    Unreadable = {"kern.gone", "vm.pages"}
INVARIANT
    StaticStaysStatic
