\* Creates at the same time, with kills and failing rollbacks.
SPECIFICATION FairSpec
CONSTANTS
    Procs = {p1, p2}
    NoJournal = NoJournal
    Rows <- MCRows
    Records <- MCRecords
    Faults = TRUE
    RollbackFails = TRUE
    Overlap = TRUE
INVARIANTS
    TornOnlyIfRobbed
    ReportedStays
    FailureStoresNothing
PROPERTIES
    OnlyFailuresRob
    InsertEnds
