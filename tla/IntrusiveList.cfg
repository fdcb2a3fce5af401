CONSTANTS
  e1 = e1
  e2 = e2
  e3 = e3
  e4 = e4
  Elems <- MCElems
  L = L
  NULL = NULL
SPECIFICATION Spec
INVARIANT TypeOK DoublyLinked
PROPERTY ImplementsSeqList
