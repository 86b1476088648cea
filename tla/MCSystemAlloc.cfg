CONSTANTS
  PageSize = 2
  BrkLimit = 10
  Top = 20
  DevStart = 1
  DevLimit = 9
  Sizes = {3}
  Alignments = {0, 2, 4}
  Null = Null
SPECIFICATION Spec_S
INVARIANTS MemoryAccounted
PROPERTIES NullOnlyAfterAll
