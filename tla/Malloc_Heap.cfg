CONSTANTS
  HEAP_SIZE = 352
  NUM_BINS = 8
  Sizes = {16, 48, 64, 100}
  MaxOps = 7
  NULL = NULL
SPECIFICATION Spec
INVARIANT TypeOK HeapTiled FreeListsExact
