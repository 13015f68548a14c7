SPECIFICATION Spec
CONSTANTS
    fa = fa
    fb = fb
    da = da
    n0 = n0
    b1 = b1
    b2 = b2
    b0 = b0
    N = 11
    DirLength = 3
    IndexCapacity = 3
    Names <- MCNames
    DirNames <- MCDirNames
    NoName <- n0
    Blocks <- MCBlocks
    NoBlock <- b0
    Buffers <- MCBuffers
    MaxFragments = 2
PROPERTY DeletesEmptyOnly
