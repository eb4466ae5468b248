SPECIFICATION Spec
CONSTANTS
    count = 2
    SEQ_MAX = 2
    MAX_ALLOCATE_COUNT = 3
    Owners = {o1, o2}
    Ranges <- Anywhere
    MaxAllocates = 3
    MaxCrashes = 0
    MaxForeachs = 1
SYMMETRY OwnerSymmetry
INVARIANT ForeachInRange
CHECK_DEADLOCK FALSE
