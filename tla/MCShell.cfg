SPECIFICATION FairShell
CONSTANTS
    root = root
    d1 = d1
    d2 = d2
    fa = fa
    da = da
    b1 = b1
    b2 = b2
    up = up
    Ids <- MCIds
    Root = root
    Names <- MCNames
    DirNames <- MCDirNames
    Buffers <- MCBuffers
    Sizes <- MCSizes
    LengthOf <- Len
    Up = up
    MaxPath = 2
INVARIANTS
    CwdStands
    CdWholeWay
    MvKeepsTheFile
    CopyComesBack
PROPERTIES
    OnlyRmAndMvDestroy
    CommandsEnd
VIEW MCView
