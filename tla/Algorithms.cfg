SPECIFICATION MCSpec
CONSTANTS
    U32Max = 3
    U64Max = 11
    MaxPieceSize = 4
    MinSize = 4
    MergeIter = 2
    MaxNode = 8
    MaxName = 3
    PageSize = 7
    SlabHeader = 1
    NodeSize = 2
    LruNodeSize = 3
    Pages = {p1, p2, p3}
    OffsetMax = 3
    FirstSize = 2
    HalfSize = 4
    TopSize = 9
    DirentSize = 1
    PlusSize = 3
    Align = 2
    MaxEntry = 4
    Owners = {o1, o2}
    MaxLost = 1
    Losable = {1}
    Needs = {4, 7, 9}
    OsPage = 2
    Header = 1
    MinBuffer = 3
    MaxPages = 4
    DefaultPages = 2
    UintMax = 20
    BackgroundTop = 4
    Loads <- AllLoads
    PipeDefault = 3
    PipeMax = 8
SYMMETRY Interchangeable
INVARIANT PiecesExact
INVARIANT TableFinds
INVARIANT SlabsExact
INVARIANT LocksTold
INVARIANT ListingExact
INVARIANT InitSound
INVARIANT DataSound
CHECK_DEADLOCK FALSE
