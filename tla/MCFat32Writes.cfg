SPECIFICATION SpecWrites
CONSTANTS
    fa = fa
    da = da
    n0 = n0
    b1 = b1
    b2 = b2
    b0 = b0
    N = 11
    DirLength = 3
    IndexCapacity = 8
    Names <- MCNames
    DirNames <- MCDirNames
    NoName <- n0
    Blocks <- MCBlocks
    NoBlock <- b0
    Buffers <- MCBuffers
    MaxFragments = 2
    BlockCells = 10
    MaxResets = 1
INVARIANTS
    OthersSurvive
    OthersListed
    NoNameBeforeData
    FormatsEmptyOnly
    LinksAscend
PROPERTIES
    CallsAreAtomic
    SignatureStays
CONSTRAINT AfterStop
VIEW WritesView
