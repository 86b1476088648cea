SPECIFICATION Spec_T
CONSTANTS
    c1 = c1
    h1 = h1
    h2 = h2
    ClassIds = {c1}
    CacheIds = {h1, h2}
    Word = 16
    IntWord = 8
    Chunks = {1, 2}
    MaxSystem = 3
    MaxMoved = 2
    Depths = {1, 2}
    Slop = 1
    MaxListed = 2
INVARIANTS
    FiguresNear
    DumpFits
