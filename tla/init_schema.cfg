\* A plain init with nothing in its way, as SQLite takes its schema today.
SPECIFICATION Spec
CONSTANTS
    Procs = {p1}
    Passphrases = {pass}
    RawKeys = {raw}
    Options <- MCPlainOption
    NoFile = NoFile
    Old = Old
    NoKey = NoKey
    SchemaValid = FALSE
    Faults = FALSE
    Overlap = FALSE
INVARIANT GeneratesDb
