SPECIFICATION Spec
CONSTANTS
    t1 = t1
    t2 = t2
    p1 = p1
    p2 = p2
    h1 = h1
    Threads = {t1, t2}
    Places = {p1, p2}
    Sizes = {1, 2, 4}
    MaxSize = 2
    ClassSize <- ClassSizeMC
    PageSize = 4
    Sampling = TRUE
    Handlers = {h1}
    Null = Null
SYMMETRY Symmetry
INVARIANTS
    BooksFollowBlocks
    ContentKept
    HandlerKept
