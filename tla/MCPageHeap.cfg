CONSTANTS
  NumPages = 7
  MaxPages = 3
  LeafLength = 2
  Alignments = {2}
SPECIFICATION Spec
INVARIANTS SpansTile PageMapRight FreeMemoryRight
