SPECIFICATION Spec
CONSTANTS
    BITS = 5
    Pages = {6, 7, 8, 9, 23, 24}
    ROOT_BITS = 2
    Spans = {s1, s2}
    None = None
    MaxLength = 3
    MaxStored = 1
    Allocators = {"spans", "threadheaps"}
    kAlignedSize <- MCAlignedSize
    kAllocIncrement = 5
    MaxAddress = 17
    Keys = {0, 1, 2, 9}
    Values = {v1, v2}
    kBlockBits = 1
    kClusterBits = 1
    kHashBits = 1
    ALLOC_COUNT = 2
    kHashMultiplier = 157
    WordBits = 8
    NoValue = NoValue
    kBlockSize = 16
    kBig = 8
    kMaxBlocks = 2
    kAlignment = 4
    pagesize = 8
    PieceSizes = {3, 5, 9}
    MaxMapping = 80
    MaxPieces = 6
INVARIANTS EnsuredReached NothingUsedTwice
PROPERTIES ImplementMaps
SYMMETRY MCSymmetry
CHECK_DEADLOCK FALSE
