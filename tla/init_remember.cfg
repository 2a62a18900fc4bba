\* One init, as the code is: which passphrases are written?
SPECIFICATION Spec
CONSTANTS
    Procs = {p1}
    Passphrases = {pass}
    RawKeys = {raw}
    Options <- MCAllOptions
    NoFile = NoFile
    Old = Old
    NoKey = NoKey
    SchemaValid = FALSE
    Faults = FALSE
    Overlap = FALSE
INVARIANT PassphraseRememberedOnlyIfAsked
