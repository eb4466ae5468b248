SPECIFICATION Spec
CONSTANTS
    Count = 3
    MaxDeaths = 1
INVARIANTS
    ChainsAgree
    PrevChainStaysWhole
    DeathCostsMovedNodes
    RepairFindsNothing
PROPERTY
    WalkEnds
