CONSTANTS
  Threads = {t1, t2}
  s1 = s1
  s2 = s2
  s3 = s3
  s4 = s4
  Stacks <- MCStacks
  Depth <- MCDepth
  kBuckets = 2
  BucketOf <- MCBucketOf
  kAssociativity = 2
  kBufferLength = 9
  MaxSamples = 6
  NoThread = NoThread
  None = None
SPECIFICATION Spec
SYMMETRY MCSymmetry
INVARIANTS SamplesConserved ProfileReadable SignalsSafe
CHECK_DEADLOCK FALSE
