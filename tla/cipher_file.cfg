\* Every config, written whole or cut short, and read back.
SPECIFICATION FairSpec
CONSTANTS
    Configs <- MCAll
    Null = Null
    Garbage = Garbage
INVARIANTS
    OnlyWholeFilesDecoded
PROPERTIES
    ReadEnds
