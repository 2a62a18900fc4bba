\* Two inits at the same time.
SPECIFICATION Spec
CONSTANTS
    Procs = {p1, p2}
    Passphrases = {pass}
    RawKeys = {raw}
    Options <- MCOverlapOptions
    NoFile = NoFile
    Old = Old
    NoKey = NoKey
    SchemaValid = TRUE
    Faults = TRUE
    Overlap = TRUE
INVARIANTS
    NoLeftovers
    HandlerSeesLiveKey
    FinishedMeansComplete
PROPERTY FinishedDbLost
