\* Two creates in one directory, with failing calls, kills and orphaned editors.
SPECIFICATION Spec
CONSTANTS
    Procs = {p1, p2}
    None = None
    Configs <- MCConfigs
    Databases <- MCDatabases
    Faults = TRUE
INVARIANTS
    OwnRecord
    RecFileRemoved
    WrongKeyStoresNothing
SYMMETRY Symmetry
