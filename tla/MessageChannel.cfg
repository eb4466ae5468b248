SPECIFICATION FairSpec
CONSTANTS
    Capacity = 1
    MaxSends = 3
    MaxDeaths = 2
    MaxFailures = 1
INVARIANTS
    NothingWiped
    BareOnlyIfPendingOrOrphaned
PROPERTIES
    LostOnlyWhenFull
    AcceptedIsReturned
CHECK_DEADLOCK FALSE
