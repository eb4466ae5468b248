SPECIFICATION FairSpec
CONSTANT RunControl = {8, 9}
INVARIANTS
    OneMode
PROPERTIES
    OneGroupPerCall
    QuitStops
CHECK_DEADLOCK FALSE
