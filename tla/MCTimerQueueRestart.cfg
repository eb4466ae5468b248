SPECIFICATION FairSpec
CONSTANTS
    Count = 2
    BUCKET_COUNT = 2
    SEQ_LIMIT = 4
    WORD = 1000
    Handles = {h1, h2}
    Types = {1}
    Delays = {0, 2}
    Repeats <- OnceAndTwice
    Clocks = {1, 4}
    MaxSchedules = 2
    MaxCancels = 1
    MaxCrashes = 1
PROPERTIES
    QueuedTimerEnds
    ImplementsTimerService
CHECK_DEADLOCK FALSE
