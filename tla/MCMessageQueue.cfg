SPECIFICATION FairSpec
CONSTANTS
    Size = 20
    Lengths = {0, 3, 7, 9}
    MaxSends = 4
    MaxCrashes = 1
INVARIANTS
    LeftSizeNonNegative
    NoOverlap
    ReturnsWhatWasAccepted
PROPERTIES
    RefusedOnlyWhenFull
    AcceptedIsReturned
    ImplementsFifo
CHECK_DEADLOCK FALSE
