\* Two inits one after the other, over what success, failure or a kill left; one
\* init alone with every other command line, the algorithms in some pairs only.
SPECIFICATION FairSpec
CONSTANTS
    Procs = {p1, p2}
    Passphrases = {pass}
    RawKeys = {raw}
    Options <- MCSerialOptions
    NoFile = NoFile
    Old = Old
    NoKey = NoKey
    SchemaValid = TRUE
    Faults = TRUE
    Overlap = FALSE
CONSTRAINT OtherLinesAlone
INVARIANTS
    TypeOK
    KeyNotLost
    SuccessCleansNothing
    ConfigDescribesDb
PROPERTIES
    FailureKeepsFiles
    OnlyForceDestroys
    EndsOrAsks
