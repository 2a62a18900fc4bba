\* Three creates one after the other, each ending in any way.
SPECIFICATION Spec
CONSTANTS
    Procs = {p1, p2, p3}
    NoJournal = NoJournal
    Rows <- MCRows
    Records <- MCRecords
    Faults = TRUE
    RollbackFails = FALSE
    Overlap = FALSE
INVARIANTS
    TypeOK
PROPERTIES
    StoreSpec
