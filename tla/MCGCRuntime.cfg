SPECIFICATION RuntimeSpec
CONSTANTS
  c1 = c1
  NoContext = NoContext
  Contexts <- MCContexts
  Sizes <- MCSizes
  UGC_ALLOC_QUANTUM = 40
  ObjHeaderSize = 8
  SIZE_MAX = 255
  CallocAlign = 16
  HeapLimit = 56
  UGC_HANDLE_COUNT = 2
  HandlesBase = 64
  PtrSize = 8
  Types <- MCTypes
  HNDTYPE_DEPENDENT = 6
  LoadContexts <- MCLoadContexts
INVARIANTS
  LedgerTrue
  TargetsAllocated
