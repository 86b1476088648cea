CONSTANTS
  Threads = {t1, t2}
  Spans = {s1, s2}
  NumClasses = 3
  NoThread = NoThread
  NoSpan = NoSpan
  Batch <- MCBatch
  ObjectsPerSpan <- MCObjectsPerSpan
SPECIFICATION FairSpec
INVARIANTS LockDiscipline CapacityConserved SlotsWithinCache ObjectsOnce SpansRight
PROPERTIES EmptyOnlyOnFailure ImplementsPool LockReleased SomeCallReturns
