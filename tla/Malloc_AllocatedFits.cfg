CONSTANTS
  HEAP_SIZE = 272
  NUM_BINS = 16
  Sizes = {16, 48, 64, 100}
  MaxOps = 5
  NULL = NULL
SPECIFICATION Spec
INVARIANT AllocatedFits
