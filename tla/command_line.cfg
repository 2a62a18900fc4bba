\* Every command line of up to five pieces, from main() to the command's handler.
SPECIFICATION Spec
CONSTANTS
    CommandLines <- MCCommandLines
    Abbreviations <- MCAbbreviations
    Numbers <- MCNumbers
    AbsolutePaths <- MCAbsolutePaths
    RegularFiles <- MCRegularFiles
    Beyond <- MCBeyond
    Databases <- MCDatabases
    Environments <- MCEnvironments
    Spelling <- MCSpelling
INVARIANTS
    
    
    FallsOnlyOver
    DatabaseChecked
    SuggestsNearest
