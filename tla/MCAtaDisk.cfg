SPECIFICATION FairSpec
CONSTANTS
    w0 = w0
    w1 = w1
    Blocks <- MCBlocks
    Words <- MCWords
    HALF_BLOCK_SIZE = 2
    Base = 2
    HighBase = 2
    MaxCount = 2
INVARIANTS
    WritesArrive
PROPERTIES
    BlocksKept
    OnlyAddressed
    CallsReturn
