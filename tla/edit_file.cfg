\* pk, its editor, its spinner and its prompt for the key, with failing calls,
\* kills and the keyboard.
SPECIFICATION PromptSpec
CONSTANTS
    Faults = TRUE
    Keys = {key, typo}
    NoAnswer = NoAnswer
INVARIANTS
    TypeOK
    InterruptSpares
    NothingLeftBehind
    FailureNoticed
    EchoRestored
    KeyTypedTwice
PROPERTIES
    LaunchReturns
    EditReturns
