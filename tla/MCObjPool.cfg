SPECIFICATION Spec
CONSTANTS
    count = 3
    SEQ_MAX = 2
    MAX_ALLOCATE_COUNT = 4
    Owners = {o1, o2}
    Ranges <- FromTheFirst
    MaxAllocates = 5
    MaxCrashes = 0
    MaxForeachs = 1
SYMMETRY OwnerSymmetry
INVARIANTS
    SizeIsBusyNodes
    NeverAnotherObject
    ForeachSeesAll
CHECK_DEADLOCK FALSE
