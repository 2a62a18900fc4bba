\* Every text of up to five lines, and the templates of records of up to three fields.
SPECIFICATION Spec
CONSTANTS
    Char <- MCChar
    None = None
    Records <- MCRecords
    Edits <- MCEdits
    Message <- MCMessage
    MaxIoSize = 120
INVARIANTS
    ReadsFile
    UneditedKept
    
    BufferFits
