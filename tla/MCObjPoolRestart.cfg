SPECIFICATION Spec
CONSTANTS
    count = 3
    SEQ_MAX = 2
    MAX_ALLOCATE_COUNT = 100
    Owners = {o1, o2}
    Ranges <- FromTheFirst
    MaxAllocates = 4
    MaxCrashes = 2
    MaxForeachs = 0
SYMMETRY OwnerSymmetry
INVARIANTS
    FreeListSound
    SizeDriftBounded
    LeakBounded
    LivingResolves
CHECK_DEADLOCK FALSE
