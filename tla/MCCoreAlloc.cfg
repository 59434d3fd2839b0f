SPECIFICATION Spec
CONSTANTS
  c1 = c1
  c2 = c2
  NoContext = NoContext
  Contexts <- MCContexts
  Sizes <- MCSizes
  UGC_ALLOC_QUANTUM = 40
  ObjHeaderSize = 4
  SIZE_MAX = 255
  CallocAlign = 16
  HeapLimit = 152
SYMMETRY MCSymmetry
INVARIANTS
  TypeOK
  ContextWindow
  ObjectsInBlocks
  ObjectsAligned
  ObjectsDisjoint
  CountersExact
  BytesInUseExact
PROPERTIES
  FailedAllocChangesNothing
  ImplementsHeap
