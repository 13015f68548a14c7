SPECIFICATION Spec
CONSTANTS
    fa = fa
    fb = fb
    da = da
    n0 = n0
    b1 = b1
    b2 = b2
    b0 = b0
    N = 12
    DirLength = 3
    IndexCapacity = 3
    Names <- MCNames
    DirNames <- MCDirNames
    NoName <- n0
    Blocks <- MCBlocks
    NoBlock <- b0
    Buffers <- MCTwoBuffers
    MaxFragments = 2
INVARIANTS
    TypeOK
    NoCrossLink
    EntriesLead
    FreeIsBlank
    NamesUnique
    MarksAgree
    CacheCoherent
    IndexComplete
    IndexFits
    Consistent
CONSTRAINT IndexRoom
VIEW DiskView
SYMMETRY MCSymmetry
