\* The configs pk init writes at this commit.
SPECIFICATION Spec
CONSTANTS
    Configs <- MCReachable
    Null = Null
    Garbage = Garbage
INVARIANT RoundTrip
