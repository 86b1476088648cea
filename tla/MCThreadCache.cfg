CONSTANTS
  Threads = {main, t1}
  Main = main
  Heaps = {h1, h2, h3}
  Classes = {1, 2}
  Size <- MCSize
  Batch <- MCBatch
  Total <- MCTotal
  MaxFreeListLength = 3
  MinCache = 2
  MaxCache = 4
  Limits = {2, 6}
  MaxRounds = 2
  Zero = Zero
  Null = Null
SPECIFICATION Spec
SYMMETRY MCSymmetry
INVARIANTS OneCachePerThread CacheOwned CountsRight LimitShared
PROPERTIES AbandonedOnlyLate
