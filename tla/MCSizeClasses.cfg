CONSTANTS
  kPageShift = 12
  kAlignShift = 3
  kNumClasses = 170
SPECIFICATION Spec
INVARIANTS TablesRight MemalignClassReal
