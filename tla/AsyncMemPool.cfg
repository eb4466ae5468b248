SPECIFICATION Spec
CONSTANTS
    DefaultSize = 3
    ROUNDS = 2
    Sizes = {0, 1, 2, 4}
    MaxChunks = 3
    MaxFrees = 6
INVARIANTS
    BlocksApart
    QuietPoolShrinks
PROPERTY
    IdleChunkIsDropped
